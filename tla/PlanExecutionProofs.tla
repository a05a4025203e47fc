------------------------- MODULE PlanExecutionProofs -------------------------
(***************************************************************************)
(* Proofs about PlanExecution, for any sets of turns and operations, any   *)
(* length of a plan and any number of plans, executions, edits and stops.  *)
(***************************************************************************)
EXTENDS PlanExecution, SequenceTheorems, TLAPS

\* Who owns a row.  A plan being made belongs to one turn and is not stored
\* yet, so CreatePlan overwrites nothing; a plan being executed is the row as
\* it was loaded.
RowInv ==
    /\ \A p \in PlanIds :
         /\ p >= nextPlan => ~rows[p].stored
         /\ ~rows[p].stored => touched[p] = {} /\ rows[p].status = "pending"
    /\ \A a \in audit : rows[a.plan].stored

OwnInv ==
    \A t \in Turns :
        /\ at[t] = "planning" =>
             /\ plan[t] \in PlanIds
             /\ plan[t] < nextPlan
             /\ ~rows[plan[t]].stored
             /\ \A u \in Turns : at[u] = "planning" /\ plan[u] = plan[t] => u = t
        /\ at[t] \in Executing =>
             /\ plan[t] \in PlanIds
             /\ rows[plan[t]].stored
             /\ rows[plan[t]].ops = ops[t]

\* No operation of the turn's plan has been denied ever since it was loaded.
Clean(t) == \A k \in 1..Len(ops[t]) : ops[t][k] \notin stood[t]

\* How far an execution is: the operations evaluated so far are clean, and
\* the ones applied are a prefix that has reached the cluster.
Progress(t) ==
    /\ at[t] = "evaluating" =>
         /\ did[t] = {}
         /\ stood[t] \subseteq denied
         /\ editing => stood[t] = {}
         /\ \A k \in 1..Len(ops[t]) : k < i[t] => ops[t][k] \notin stood[t]
    /\ at[t] = "applying" =>
         /\ did[t] = 1..(i[t] - 1)
         /\ i[t] <= Len(ops[t]) + 1
         /\ did[t] \subseteq touched[plan[t]]
         /\ Clean(t)
    /\ at[t] \in {"succeeded", "marking"} =>
         /\ did[t] = 1..Len(ops[t])
         /\ did[t] \subseteq touched[plan[t]]
    /\ at[t] = "failed" => \E k \in 0..Len(ops[t]) : did[t] = 1..k

ProgressInv == \A t \in Turns : Progress(t)

\* What reached the cluster are operations of the plan.
TouchedInv ==
    \A p \in PlanIds :
        /\ touched[p] \subseteq 1..Len(rows[p].ops)
        /\ rows[p].status = "executed" => 1..Len(rows[p].ops) \subseteq touched[p]

\* Executions have numbers of their own, and what a running one has done is
\* what is kept of it.
ExecInv ==
    /\ \A t \in Turns : exec[t] <= execs
    /\ \A t, u \in Turns : exec[t] # 0 /\ exec[t] = exec[u] => t = u
    /\ \A e \in Execs : e > execs => made[e] = {}
    /\ \A t \in Turns : at[t] \in Executing => exec[t] \in Execs /\ made[exec[t]] = did[t]

\* ChangesAccounted, with the places at which an audit row is still to come.
Recording == {"applying", "succeeded", "failed"}

Owner(t, e) == exec[t] = e /\ (left[t] \/ at[t] \in Recording \cup {"dead"})

Accounted(e) ==
    \/ \E a \in audit : a.exec = e /\ a.did = made[e]
    \/ \E t \in Turns : Owner(t, e)

AccountInv == \A e \in Execs : made[e] # {} => Accounted(e)

\* While the policy is what it was, an operation without a diff is a denied
\* one, and a denied one does not get past the second evaluation.
CalmTurn(t) ==
    /\ at[t] \in {"evaluating", "applying"} => stood[t] = denied
    /\ at[t] = "planning" =>
         \A k \in 1..Len(ops[t]) : k < i[t] => k \in previewed[t] \/ ops[t][k] \in denied

CalmRow(p) ==
    /\ rows[p].stored => \A k \in 1..Len(rows[p].ops) :
                            k \in rows[p].diffs \/ rows[p].ops[k] \in denied
    /\ touched[p] \subseteq rows[p].diffs

CalmInv ==
    edits = 0 /\ stops = 0 =>
        /\ ~editing
        /\ \A t \in Turns : CalmTurn(t)
        /\ \A p \in PlanIds : CalmRow(p)

\* The inductive invariant.
PlanInv == /\ TypeOK /\ RowInv /\ OwnInv /\ ProgressInv /\ TouchedInv
           /\ DenyBlocksPlan /\ AuditTruthful /\ ExecInv /\ AccountInv /\ CalmInv

-----------------------------------------------------------------------------
(* Operations and their lengths                                            *)

\* A plan's operations are a sequence of at most MaxOps.
LEMMA OpSeqFacts ==
    ASSUME NEW s \in OpSeqs
    PROVE  /\ s \in Seq(Ops)
           /\ Len(s) \in Nat
           /\ Len(s) <= MaxOps
           /\ \A k \in 1..Len(s) : s[k] \in Ops
<1>1. PICK n \in 0..MaxOps : s \in [1..n -> Ops]
  BY DEF OpSeqs
<1>2. n \in Nat /\ n <= MaxOps
  BY <1>1, PlanConstants
<1>3. s \in Seq(Ops)
  BY <1>1, <1>2, SeqDef
<1>4. Len(s) = n
  BY <1>1, <1>2, <1>3, LenProperties
<1> QED
  BY <1>1, <1>2, <1>3, <1>4

LEMMA EmptyPlan == <<>> \in OpSeqs /\ Len(<<>>) = 0
<1>1. <<>> \in [1..0 -> Ops]
  OBVIOUS
<1>2. 0 \in 0..MaxOps
  BY PlanConstants
<1> QED
  BY <1>1, <1>2 DEF OpSeqs

\* What TypeOK says of the lengths.
LEMMA Lengths ==
    ASSUME TypeOK
    PROVE  /\ \A t \in Turns : Len(ops[t]) \in Nat /\ Len(ops[t]) <= MaxOps
           /\ \A p \in PlanIds : Len(rows[p].ops) \in Nat /\ Len(rows[p].ops) <= MaxOps
<1>1. \A t \in Turns : ops[t] \in OpSeqs
  BY DEF TypeOK
<1>2. \A p \in PlanIds : rows[p].ops \in OpSeqs
  BY DEF TypeOK, Row
<1> QED
  BY <1>1, <1>2, OpSeqFacts

-----------------------------------------------------------------------------
(* Types                                                                   *)

LEMMA InitTypes == Init => TypeOK
<1> SUFFICES ASSUME Init PROVE TypeOK
  OBVIOUS
<1>1. NoRow \in Row
  BY EmptyPlan DEF NoRow, Row
<1>2. /\ at \in [Turns -> Places] /\ ops \in [Turns -> OpSeqs]
      /\ i \in [Turns -> 1..(MaxOps + 1)] /\ plan \in [Turns -> 0..MaxPlans]
  BY EmptyPlan, PlanConstants DEF Init, Places
<1>3. /\ previewed \in [Turns -> SUBSET Steps] /\ did \in [Turns -> SUBSET Steps]
      /\ stood \in [Turns -> SUBSET Ops] /\ touched \in [PlanIds -> SUBSET Steps]
      /\ made \in [Execs -> SUBSET Steps] /\ exec \in [Turns -> 0..MaxExecs]
      /\ audit \in SUBSET AuditRow /\ denied \in SUBSET Ops /\ newDenied \in SUBSET Ops
  BY PlanConstants DEF Init
<1>4. /\ left \in [Turns -> BOOLEAN] /\ editing \in BOOLEAN
  BY Zenon DEF Init
<1>5. /\ rows \in [PlanIds -> Row]
  BY <1>1 DEF Init
<1>6. /\ nextPlan \in 1..(MaxPlans + 1) /\ execs \in 0..MaxExecs
      /\ edits \in 0..MaxEdits /\ stops \in 0..MaxStops
  BY PlanConstants DEF Init
<1> QED
  BY <1>2, <1>3, <1>4, <1>5, <1>6 DEF TypeOK

\* A loop that has an operation left is within its plan.
LEMMA InRange ==
    ASSUME TypeOK, NEW t \in Turns, i[t] <= Len(ops[t])
    PROVE  i[t] \in Steps /\ i[t] + 1 \in 1..(MaxOps + 1)
<1>1. i[t] \in 1..(MaxOps + 1)
  BY DEF TypeOK
<1>2. Len(ops[t]) \in Nat /\ Len(ops[t]) <= MaxOps
  BY Lengths
<1> QED
  BY <1>1, <1>2, PlanConstants DEF Steps

LEMMA TypeStep ==
    ASSUME TypeOK, OwnInv, ExecInv, [Next]_vars
    PROVE  TypeOK'
<1> USE DEF TypeOK, turnVars, planVars, policyVars
<1>1. ASSUME NEW t \in Turns, BeginTurn(t) \/ EndTurn(t) \/ ExecDenied(t) \/ AllApplied(t)
      PROVE  TypeOK'
  BY <1>1 DEF BeginTurn, EndTurn, ExecDenied, AllApplied, Places, Executing
<1>2. ASSUME NEW t \in Turns, Leave(t)
      PROVE  TypeOK'
  BY <1>2 DEF Leave
<1>3. ASSUME NEW t \in Turns, PlanWrite(t)
      PROVE  TypeOK'
  BY <1>3, PlanConstants DEF PlanWrite, Places
<1>4. ASSUME NEW t \in Turns, PlanDenied(t) \/ PlanDryRun(t) \/ Evaluated(t)
      PROVE  TypeOK'
  <2>1. i[t] \in Steps /\ i[t] + 1 \in 1..(MaxOps + 1)
    BY <1>4, InRange DEF PlanDenied, PlanDryRun, Evaluated
  <2>2. i' \in [Turns -> 1..(MaxOps + 1)]
    BY <1>4, <2>1 DEF PlanDenied, PlanDryRun, Evaluated
  <2> DEFINE seen == previewed[t] \cup {i[t]}
  <2>3. seen \in SUBSET Steps
    BY <2>1
  <2>4. previewed' = previewed \/ previewed' = [previewed EXCEPT ![t] = seen]
    BY <1>4 DEF PlanDenied, PlanDryRun, Evaluated
  <2>5. previewed' \in [Turns -> SUBSET Steps]
    <3> HIDE DEF seen
    <3> QED BY <2>3, <2>4
  <2> QED
    BY <1>4, <2>2, <2>5 DEF PlanDenied, PlanDryRun, Evaluated
<1>5. ASSUME NEW t \in Turns, PlanFails(t)
      PROVE  TypeOK'
  BY <1>5 DEF PlanFails, Places
<1>6. ASSUME NEW t \in Turns, CreatePlan(t)
      PROVE  TypeOK'
  <2>1. [stored |-> TRUE, ops |-> ops[t], diffs |-> previewed[t], status |-> "pending"] \in Row
    BY DEF Row
  <2>2. rows' \in [PlanIds -> Row]
    BY <1>6, <2>1 DEF CreatePlan
  <2>3. at' \in [Turns -> Places] /\ previewed' \in [Turns -> SUBSET Steps]
    BY <1>6 DEF CreatePlan, Places
  <2> QED
    BY <1>6, <2>2, <2>3 DEF CreatePlan
<1>7. ASSUME NEW t \in Turns, Decided(t)
      PROVE  TypeOK'
  BY <1>7 DEF Decided, Places
<1>8. ASSUME NEW t \in Turns, LoadPlan(t)
      PROVE  TypeOK'
  <2>1. \A p \in PlanIds : rows[p].ops \in OpSeqs /\ p \in 0..MaxPlans
    BY PlanConstants DEF Row, PlanIds
  <2>2. plan' \in [Turns -> 0..MaxPlans] /\ ops' \in [Turns -> OpSeqs]
    BY <1>8, <2>1 DEF LoadPlan
  <2>3. /\ i' \in [Turns -> 1..(MaxOps + 1)] /\ execs' \in 0..MaxExecs
        /\ exec' \in [Turns -> 0..MaxExecs]
    BY <1>8, PlanConstants DEF LoadPlan
  <2>4. /\ did' \in [Turns -> SUBSET Steps] /\ stood' \in [Turns -> SUBSET Ops]
        /\ at' \in [Turns -> Places]
    BY <1>8 DEF LoadPlan, Places, Executing
  <2> QED
    BY <1>8, <2>2, <2>3, <2>4 DEF LoadPlan
<1>9. ASSUME NEW t \in Turns, AllPassed(t)
      PROVE  TypeOK'
  BY <1>9, PlanConstants DEF AllPassed, Places, Executing
<1>10. ASSUME NEW t \in Turns, Applied(t)
       PROVE  TypeOK'
  <2>1. {i[t]} \subseteq Steps
    BY <1>10, InRange DEF Applied
  <2>2. /\ did' \in [Turns -> SUBSET Steps] /\ touched' \in [PlanIds -> SUBSET Steps]
        /\ made' \in [Execs -> SUBSET Steps]
    BY <1>10, <2>1 DEF Applied
  <2> QED
    BY <1>10, <2>2, InRange DEF Applied
<1>11. ASSUME NEW t \in Turns, ApplyFails(t)
       PROVE  TypeOK'
  <2>1. PICK d \in {{}, {i[t]}} :
          /\ did' = [did EXCEPT ![t] = did[t] \cup d]
          /\ touched' = [touched EXCEPT ![plan[t]] = touched[plan[t]] \cup d]
          /\ made' = [made EXCEPT ![exec[t]] = made[exec[t]] \cup d]
    BY <1>11 DEF ApplyFails
  <2>2. d \subseteq Steps
    BY <1>11, <2>1, InRange DEF ApplyFails
  <2>3. /\ did' \in [Turns -> SUBSET Steps] /\ touched' \in [PlanIds -> SUBSET Steps]
        /\ made' \in [Execs -> SUBSET Steps]
    BY <2>1, <2>2
  <2> QED
    BY <1>11, <2>3 DEF ApplyFails, Places, Executing
<1>12. ASSUME NEW t \in Turns, AuditFailed(t) \/ AuditOk(t)
       PROVE  TypeOK'
  <2>1. plan[t] \in PlanIds /\ exec[t] \in Execs
    BY <1>12 DEF OwnInv, ExecInv, AuditFailed, AuditOk, Executing
  <2>2. \A s \in {"ok", "failed"} :
          [plan |-> plan[t], status |-> s, exec |-> exec[t], did |-> did[t]] \in AuditRow
    BY <2>1 DEF AuditRow
  <2>3. audit' \in SUBSET AuditRow
    BY <1>12, <2>2 DEF AuditFailed, AuditOk
  <2> QED
    BY <1>12, <2>3 DEF AuditFailed, AuditOk, Places, Executing
<1>13. ASSUME NEW t \in Turns, MarkExecuted(t)
       PROVE  TypeOK'
  <2>1. rows' \in [PlanIds -> Row]
    <3>1. CASE left[t]
      BY <1>13, <3>1 DEF MarkExecuted
    <3>2. CASE ~left[t]
      <4>1. rows' = [rows EXCEPT ![plan[t]].status = "executed"]
        BY <1>13, <3>2 DEF MarkExecuted
      <4>2. \A w \in Row : [w EXCEPT !.status = "executed"] \in Row
        BY DEF Row
      <4> QED
        BY <4>1, <4>2
    <3> QED
      BY <3>1, <3>2
  <2> QED
    BY <1>13, <2>1 DEF MarkExecuted, Places
<1>14. CASE Stop
  <2>1. editing' \in BOOLEAN
    BY <1>14, Zenon DEF Stop
  <2>2. at' \in [Turns -> Places]
    BY <1>14 DEF Stop, Places
  <2>3. stops' \in 0..MaxStops
    BY <1>14, PlanConstants DEF Stop
  <2> QED
    BY <1>14, <2>1, <2>2, <2>3 DEF Stop
<1>15. CASE BeginEdit \/ EndEdit
  <2>1. editing' \in BOOLEAN
    BY <1>15, Zenon DEF BeginEdit, EndEdit
  <2>2. edits' \in 0..MaxEdits
    BY <1>15, PlanConstants DEF BeginEdit, EndEdit
  <2> QED
    BY <1>15, <2>1, <2>2 DEF BeginEdit, EndEdit
<1>16. CASE UNCHANGED vars
  BY <1>16 DEF vars
<1> QED
  BY <1>1, <1>2, <1>3, <1>4, <1>5, <1>6, <1>7, <1>8, <1>9, <1>10, <1>11, <1>12,
     <1>13, <1>14, <1>15, <1>16 DEF Next, TurnStep, AllOver

-----------------------------------------------------------------------------
(* Rows and their owners                                                   *)

LEMMA RowStep ==
    ASSUME TypeOK, RowInv, OwnInv, [Next]_vars
    PROVE  RowInv'
<1> USE DEF turnVars, planVars, policyVars
<1>1. ASSUME NEW t \in Turns,
             \/ BeginTurn(t) \/ EndTurn(t) \/ Leave(t) \/ PlanDenied(t) \/ PlanDryRun(t)
             \/ PlanFails(t) \/ Decided(t) \/ LoadPlan(t) \/ Evaluated(t) \/ ExecDenied(t)
             \/ AllPassed(t) \/ AllApplied(t)
      PROVE  RowInv'
  <2>1. UNCHANGED <<rows, nextPlan, touched, audit>>
    BY <1>1 DEF BeginTurn, EndTurn, Leave, PlanDenied, PlanDryRun, PlanFails, Decided,
                LoadPlan, Evaluated, ExecDenied, AllPassed, AllApplied
  <2> QED
    BY <2>1 DEF RowInv
<1>2. ASSUME NEW t \in Turns, PlanWrite(t)
      PROVE  RowInv'
  BY <1>2 DEF PlanWrite, RowInv, TypeOK, PlanIds
<1>3. ASSUME NEW t \in Turns, CreatePlan(t)
      PROVE  RowInv'
  <2>1. plan[t] \in PlanIds /\ plan[t] < nextPlan /\ ~rows[plan[t]].stored
    BY <1>3 DEF CreatePlan, OwnInv
  <2>2. \A p \in PlanIds : p # plan[t] => rows'[p] = rows[p]
    BY <1>3 DEF CreatePlan, TypeOK
  <2>3. \/ rows' = rows
        \/ rows'[plan[t]].stored
    BY <1>3, <2>1 DEF CreatePlan, TypeOK
  <2>4. UNCHANGED <<nextPlan, touched, audit>>
    BY <1>3 DEF CreatePlan
  <2>5. \A a \in audit : a.plan \in PlanIds
    BY DEF TypeOK, AuditRow
  <2>6. nextPlan \in Nat /\ PlanIds \subseteq Nat
    BY DEF TypeOK, PlanIds
  <2>7. ASSUME NEW p \in PlanIds
        PROVE  /\ p >= nextPlan => ~rows'[p].stored
               /\ ~rows'[p].stored => touched[p] = {} /\ rows'[p].status = "pending"
    <3>1. CASE p = plan[t]
      BY <2>1, <2>3, <2>6, <3>1 DEF RowInv
    <3>2. CASE p # plan[t]
      BY <2>2, <3>2 DEF RowInv
    <3> QED
      BY <3>1, <3>2
  <2>8. \A a \in audit : rows'[a.plan].stored
    BY <2>1, <2>2, <2>5 DEF RowInv
  <2> QED
    BY <2>4, <2>7, <2>8 DEF RowInv
<1>4. ASSUME NEW t \in Turns, Applied(t) \/ ApplyFails(t)
      PROVE  RowInv'
  <2>1. plan[t] \in PlanIds /\ rows[plan[t]].stored
    BY <1>4 DEF Applied, ApplyFails, OwnInv, Executing
  <2>2. \A p \in PlanIds : p # plan[t] => touched'[p] = touched[p]
    BY <1>4 DEF Applied, ApplyFails, TypeOK
  <2>3. UNCHANGED <<rows, nextPlan, audit>>
    BY <1>4 DEF Applied, ApplyFails
  <2> QED
    BY <2>1, <2>2, <2>3 DEF RowInv
<1>5. ASSUME NEW t \in Turns, AuditFailed(t) \/ AuditOk(t)
      PROVE  RowInv'
  <2>1. rows[plan[t]].stored
    BY <1>5 DEF AuditFailed, AuditOk, OwnInv, Executing
  <2>2. \A a \in audit' : a \in audit \/ a.plan = plan[t]
    BY <1>5 DEF AuditFailed, AuditOk
  <2>3. UNCHANGED <<rows, nextPlan, touched>>
    BY <1>5 DEF AuditFailed, AuditOk
  <2> QED
    BY <2>1, <2>2, <2>3 DEF RowInv
<1>6. ASSUME NEW t \in Turns, MarkExecuted(t)
      PROVE  RowInv'
  <2>1. plan[t] \in PlanIds /\ rows[plan[t]].stored
    BY <1>6 DEF MarkExecuted, OwnInv, Executing
  <2>2. \A p \in PlanIds : /\ rows'[p].stored = rows[p].stored
                           /\ p # plan[t] => rows'[p] = rows[p]
    BY <1>6 DEF MarkExecuted, TypeOK, Row
  <2>3. UNCHANGED <<nextPlan, touched, audit>>
    BY <1>6 DEF MarkExecuted
  <2>4. \A a \in audit : a.plan \in PlanIds
    BY DEF TypeOK, AuditRow
  <2> QED
    BY <2>1, <2>2, <2>3, <2>4 DEF RowInv
<1>7. CASE Stop \/ BeginEdit \/ EndEdit \/ UNCHANGED vars
  <2>1. UNCHANGED <<rows, nextPlan, touched, audit>>
    BY <1>7 DEF Stop, BeginEdit, EndEdit, vars
  <2> QED
    BY <2>1 DEF RowInv
<1> QED
  BY <1>1, <1>2, <1>3, <1>4, <1>5, <1>6, <1>7 DEF Next, TurnStep, AllOver

\* A turn whose loop does not move keeps what it owns.
LEMMA OwnKept ==
    ASSUME TypeOK, OwnInv,
           UNCHANGED <<plan, ops, rows, nextPlan>>,
           \A u \in Turns : /\ at'[u] = "planning" => at[u] = "planning"
                            /\ at'[u] \in Executing => at[u] \in Executing
    PROVE  OwnInv'
BY DEF OwnInv

LEMMA OwnStep ==
    ASSUME TypeOK, RowInv, OwnInv, [Next]_vars
    PROVE  OwnInv'
<1> USE DEF turnVars, planVars, policyVars
<1>1. ASSUME NEW t \in Turns,
             \/ BeginTurn(t) \/ EndTurn(t) \/ PlanFails(t) \/ Decided(t) \/ ExecDenied(t)
             \/ AllPassed(t) \/ ApplyFails(t) \/ AllApplied(t) \/ AuditFailed(t) \/ AuditOk(t)
      PROVE  OwnInv'
  <2>1. UNCHANGED <<plan, ops, rows, nextPlan>>
    BY <1>1 DEF BeginTurn, EndTurn, PlanFails, Decided, ExecDenied, AllPassed, ApplyFails,
                AllApplied, AuditFailed, AuditOk
  <2>2. \A u \in Turns : u # t => at'[u] = at[u]
    BY <1>1 DEF BeginTurn, EndTurn, PlanFails, Decided, ExecDenied, AllPassed, ApplyFails,
                AllApplied, AuditFailed, AuditOk, TypeOK
  <2>3. at'[t] \in {"llm", "over"} \/ (at[t] \in Executing /\ at'[t] \in Executing)
    BY <1>1 DEF BeginTurn, EndTurn, PlanFails, Decided, ExecDenied, AllPassed, ApplyFails,
                AllApplied, AuditFailed, AuditOk, TypeOK, Executing
  <2> QED
    BY <2>1, <2>2, <2>3, OwnKept DEF Executing
<1>2. ASSUME NEW t \in Turns,
             Leave(t) \/ PlanDenied(t) \/ PlanDryRun(t) \/ Evaluated(t) \/ Applied(t)
      PROVE  OwnInv'
  <2>1. UNCHANGED <<at, plan, ops, rows, nextPlan>>
    BY <1>2 DEF Leave, PlanDenied, PlanDryRun, Evaluated, Applied
  <2> QED
    BY <2>1, OwnKept
<1>3. ASSUME NEW t \in Turns, PlanWrite(t)
      PROVE  OwnInv'
  <2>1. /\ at'[t] = "planning" /\ plan'[t] = nextPlan /\ nextPlan' = nextPlan + 1
        /\ UNCHANGED rows
    BY <1>3 DEF PlanWrite, TypeOK
  <2>2. \A u \in Turns : u # t => at'[u] = at[u] /\ plan'[u] = plan[u] /\ ops'[u] = ops[u]
    BY <1>3 DEF PlanWrite, TypeOK
  <2>3. nextPlan \in Nat /\ nextPlan \in PlanIds /\ \A p \in PlanIds : p \in Nat
    BY <1>3, PlanConstants DEF PlanWrite, PlanIds, TypeOK
  <2>4. ~rows[nextPlan].stored
    BY <2>3 DEF RowInv
  <2>5. ASSUME NEW u \in Turns, at[u] = "planning"
        PROVE  plan[u] # nextPlan /\ plan[u] < nextPlan + 1
    <3>1. plan[u] \in Nat /\ plan[u] < nextPlan
      BY <2>3, <2>5 DEF OwnInv
    <3> QED
      BY <2>3, <3>1
  <2>6. ASSUME NEW u \in Turns, at'[u] = "planning"
        PROVE  /\ plan'[u] \in PlanIds /\ plan'[u] < nextPlan' /\ ~rows'[plan'[u]].stored
               /\ \A v \in Turns : at'[v] = "planning" /\ plan'[v] = plan'[u] => v = u
    <3>1. CASE u = t
      BY <2>1, <2>2, <2>3, <2>4, <2>5, <3>1
    <3>2. CASE u # t
      <4>1. at[u] = "planning" /\ plan'[u] = plan[u]
        BY <2>2, <2>6, <3>2
      <4>2. \A v \in Turns : at'[v] = "planning" /\ plan'[v] = plan'[u] => v = u
        BY <2>1, <2>2, <2>5, <4>1 DEF OwnInv
      <4> QED
        BY <2>1, <2>5, <4>1, <4>2 DEF OwnInv
    <3> QED
      BY <3>1, <3>2
  <2>7. ASSUME NEW u \in Turns, at'[u] \in Executing
        PROVE  plan'[u] \in PlanIds /\ rows'[plan'[u]].stored /\ rows'[plan'[u]].ops = ops'[u]
    BY <2>1, <2>2, <2>7 DEF OwnInv, Executing
  <2> QED
    BY <2>6, <2>7 DEF OwnInv
<1>4. ASSUME NEW t \in Turns, CreatePlan(t)
      PROVE  OwnInv'
  <2>1. at[t] = "planning" /\ at'[t] = "waiting" /\ UNCHANGED <<plan, ops, nextPlan>>
    BY <1>4 DEF CreatePlan, TypeOK
  <2>2. \A u \in Turns : u # t => at'[u] = at[u]
    BY <1>4 DEF CreatePlan, TypeOK
  <2>3. \A p \in PlanIds : p # plan[t] => rows'[p] = rows[p]
    BY <1>4 DEF CreatePlan, TypeOK
  <2>4. plan[t] \in PlanIds /\ ~rows[plan[t]].stored
    BY <2>1 DEF OwnInv
  <2> QED
    BY <2>1, <2>2, <2>3, <2>4 DEF OwnInv, Executing
<1>5. ASSUME NEW t \in Turns, LoadPlan(t)
      PROVE  OwnInv'
  <2>1. PICK p \in PlanIds : /\ rows[p].stored
                             /\ plan' = [plan EXCEPT ![t] = p]
                             /\ ops' = [ops EXCEPT ![t] = rows[p].ops]
    BY <1>5 DEF LoadPlan
  <2>2. /\ at'[t] = "evaluating" /\ plan'[t] = p /\ ops'[t] = rows[p].ops
        /\ UNCHANGED <<rows, nextPlan>>
    BY <1>5, <2>1 DEF LoadPlan, TypeOK
  <2>3. \A u \in Turns : u # t => at'[u] = at[u] /\ plan'[u] = plan[u] /\ ops'[u] = ops[u]
    BY <1>5, <2>1 DEF LoadPlan, TypeOK
  <2> QED
    BY <2>1, <2>2, <2>3 DEF OwnInv, Executing
<1>6. ASSUME NEW t \in Turns, MarkExecuted(t)
      PROVE  OwnInv'
  <2>1. \A p \in PlanIds : rows'[p].stored = rows[p].stored /\ rows'[p].ops = rows[p].ops
    BY <1>6 DEF MarkExecuted, TypeOK, Row
  <2>2. at'[t] = "llm" /\ UNCHANGED <<plan, ops, nextPlan>>
    BY <1>6 DEF MarkExecuted, TypeOK
  <2>3. \A u \in Turns : u # t => at'[u] = at[u]
    BY <1>6 DEF MarkExecuted, TypeOK
  <2> QED
    BY <2>1, <2>2, <2>3 DEF OwnInv, Executing
<1>7. CASE Stop
  <2>1. \A u \in Turns : at'[u] \in {"new", "over", "dead"}
    BY <1>7 DEF Stop
  <2> QED
    BY <1>7, <2>1, OwnKept DEF Stop, Executing
<1>8. CASE BeginEdit \/ EndEdit \/ UNCHANGED vars
  <2>1. UNCHANGED <<at, plan, ops, rows, nextPlan>>
    BY <1>8 DEF BeginEdit, EndEdit, vars
  <2> QED
    BY <2>1, OwnKept
<1> QED
  BY <1>1, <1>2, <1>3, <1>4, <1>5, <1>6, <1>7, <1>8 DEF Next, TurnStep, AllOver

-----------------------------------------------------------------------------
(* How far an execution is                                                 *)

\* A turn that does not move is not disturbed by what others apply.
LEMMA ProgressKept ==
    ASSUME OwnInv, NEW u \in Turns, Progress(u),
           at'[u] = at[u], did'[u] = did[u], ops'[u] = ops[u], i'[u] = i[u],
           plan'[u] = plan[u], stood'[u] = stood[u],
           UNCHANGED <<denied, editing>>,
           \A p \in PlanIds : touched[p] \subseteq touched'[p]
    PROVE  Progress(u)'
<1>1. at[u] \in Executing => plan[u] \in PlanIds
  BY DEF OwnInv
<1>2. at[u] \in {"applying", "succeeded", "marking"} => touched[plan[u]] \subseteq touched'[plan[u]]
  BY <1>1 DEF Executing
<1> QED
  BY <1>2 DEF Progress, Clean

LEMMA ProgressIdle ==
    ASSUME NEW u \in Turns, at'[u] \notin Executing
    PROVE  Progress(u)'
BY DEF Progress, Executing

LEMMA ProgressStep ==
    ASSUME TypeOK, OwnInv, ProgressInv, [Next]_vars
    PROVE  ProgressInv'
<1> USE DEF turnVars, planVars, policyVars
<1>1. ASSUME NEW t \in Turns,
             \/ BeginTurn(t) \/ EndTurn(t) \/ PlanWrite(t) \/ PlanFails(t) \/ CreatePlan(t)
             \/ Decided(t) \/ ExecDenied(t) \/ AuditFailed(t) \/ MarkExecuted(t)
      PROVE  ProgressInv'
  <2>1. at'[t] \notin Executing
    BY <1>1 DEF BeginTurn, EndTurn, PlanWrite, PlanFails, CreatePlan, Decided, ExecDenied,
                AuditFailed, MarkExecuted, Executing, TypeOK
  <2>2. ASSUME NEW u \in Turns, u # t
        PROVE  /\ at'[u] = at[u] /\ did'[u] = did[u] /\ ops'[u] = ops[u] /\ i'[u] = i[u]
               /\ plan'[u] = plan[u] /\ stood'[u] = stood[u]
    BY <1>1, <2>2 DEF BeginTurn, EndTurn, PlanWrite, PlanFails, CreatePlan, Decided, ExecDenied,
                AuditFailed, MarkExecuted, TypeOK
  <2>3. UNCHANGED <<denied, editing, touched>>
    BY <1>1 DEF BeginTurn, EndTurn, PlanWrite, PlanFails, CreatePlan, Decided, ExecDenied,
                AuditFailed, MarkExecuted
  <2>4. ASSUME NEW u \in Turns, u # t
        PROVE  Progress(u)'
    BY <2>2, <2>3, <2>4, ProgressKept DEF ProgressInv
  <2> QED
    BY <2>1, <2>4, ProgressIdle DEF ProgressInv
<1>2. ASSUME NEW t \in Turns, PlanDenied(t) \/ PlanDryRun(t)
      PROVE  ProgressInv'
  <2>1. at'[t] \notin Executing
    BY <1>2 DEF PlanDenied, PlanDryRun, Executing
  <2>2. ASSUME NEW u \in Turns, u # t
        PROVE  Progress(u)'
    <3>1. i'[u] = i[u]
      BY <1>2, <2>2 DEF PlanDenied, PlanDryRun, TypeOK
    <3>2. UNCHANGED <<at, did, ops, plan, stood, denied, editing, touched>>
      BY <1>2 DEF PlanDenied, PlanDryRun
    <3> QED
      BY <3>1, <3>2, ProgressKept DEF ProgressInv
  <2> QED
    BY <2>1, <2>2, ProgressIdle DEF ProgressInv
<1>3. ASSUME NEW t \in Turns, LoadPlan(t)
      PROVE  ProgressInv'
  <2>1. /\ at'[t] = "evaluating" /\ did'[t] = {} /\ i'[t] = 1
        /\ stood'[t] = (IF editing THEN {} ELSE denied)
        /\ UNCHANGED <<denied, editing, touched>>
    BY <1>3 DEF LoadPlan, TypeOK
  <2>2. ASSUME NEW u \in Turns, u # t
        PROVE  Progress(u)'
    <3>1. /\ at'[u] = at[u] /\ did'[u] = did[u] /\ ops'[u] = ops[u] /\ i'[u] = i[u]
          /\ plan'[u] = plan[u] /\ stood'[u] = stood[u]
      BY <1>3, <2>2 DEF LoadPlan, TypeOK
    <3> QED
      BY <2>1, <3>1, ProgressKept DEF ProgressInv
  <2>3. Progress(t)'
    BY <2>1 DEF Progress
  <2> QED
    BY <2>2, <2>3 DEF ProgressInv
<1>4. ASSUME NEW t \in Turns, Evaluated(t)
      PROVE  ProgressInv'
  <2>1. /\ at[t] = "evaluating" /\ i'[t] = i[t] + 1 /\ i[t] <= Len(ops[t])
        /\ MayPass(ops[t][i[t]])
        /\ UNCHANGED <<at, ops, did, plan, stood, denied, editing, touched>>
    BY <1>4 DEF Evaluated, TypeOK
  <2>2. ASSUME NEW u \in Turns, u # t
        PROVE  Progress(u)'
    <3>1. i'[u] = i[u]
      BY <1>4, <2>2 DEF Evaluated, TypeOK
    <3> QED
      BY <2>1, <3>1, ProgressKept DEF ProgressInv
  <2>3. Progress(t)
    BY DEF ProgressInv
  <2>4. ops[t][i[t]] \notin stood[t]
    BY <2>1, <2>3 DEF Progress, MayPass
  <2>5. i[t] \in Nat
    BY DEF TypeOK
  <2>6. \A k \in 1..Len(ops[t]) : k < i[t] + 1 => ops[t][k] \notin stood[t]
    <3> SUFFICES ASSUME NEW k \in 1..Len(ops[t]), k < i[t] + 1
                 PROVE  ops[t][k] \notin stood[t]
      OBVIOUS
    <3>1. k = i[t] \/ k < i[t]
      BY <2>5, Lengths
    <3> QED
      BY <2>1, <2>3, <2>4, <3>1 DEF Progress
  <2>7. Progress(t)'
    BY <2>1, <2>3, <2>6 DEF Progress
  <2> QED
    BY <2>2, <2>7 DEF ProgressInv
<1>5. ASSUME NEW t \in Turns, AllPassed(t)
      PROVE  ProgressInv'
  <2>1. /\ at[t] = "evaluating" /\ at'[t] = "applying" /\ i'[t] = 1 /\ i[t] > Len(ops[t])
        /\ UNCHANGED <<ops, did, plan, stood, denied, editing, touched>>
    BY <1>5 DEF AllPassed, TypeOK
  <2>2. ASSUME NEW u \in Turns, u # t
        PROVE  Progress(u)'
    <3>1. at'[u] = at[u] /\ i'[u] = i[u]
      BY <1>5, <2>2 DEF AllPassed, TypeOK
    <3> QED
      BY <2>1, <3>1, ProgressKept DEF ProgressInv
  <2>3. Progress(t)
    BY DEF ProgressInv
  <2>4. \A k \in 1..Len(ops[t]) : k < i[t]
    BY <2>1, Lengths DEF TypeOK
  <2>5. did[t] = {} /\ Clean(t)
    BY <2>1, <2>3, <2>4 DEF Progress, Clean
  <2>6. Len(ops[t]) \in Nat /\ 1..(1 - 1) = {}
    BY Lengths
  <2>7. Progress(t)'
    BY <2>1, <2>5, <2>6 DEF Progress, Clean
  <2> QED
    BY <2>2, <2>7 DEF ProgressInv
<1>6. ASSUME NEW t \in Turns, Applied(t)
      PROVE  ProgressInv'
  <2>1. /\ at[t] = "applying" /\ i'[t] = i[t] + 1 /\ i[t] <= Len(ops[t])
        /\ did'[t] = did[t] \cup {i[t]}
        /\ UNCHANGED <<at, ops, plan, stood, denied, editing>>
    BY <1>6 DEF Applied, TypeOK
  <2>2. plan[t] \in PlanIds
    BY <2>1 DEF OwnInv, Executing
  <2>3. /\ \A p \in PlanIds : touched[p] \subseteq touched'[p]
        /\ touched'[plan[t]] = touched[plan[t]] \cup {i[t]}
    BY <1>6, <2>2 DEF Applied, TypeOK
  <2>4. ASSUME NEW u \in Turns, u # t
        PROVE  Progress(u)'
    <3>1. did'[u] = did[u] /\ i'[u] = i[u]
      BY <1>6, <2>4 DEF Applied, TypeOK
    <3> QED
      BY <2>1, <2>3, <3>1, ProgressKept DEF ProgressInv
  <2>5. /\ did[t] = 1..(i[t] - 1) /\ did[t] \subseteq touched[plan[t]] /\ Clean(t)
    BY <2>1 DEF ProgressInv, Progress
  <2>6. i[t] \in Nat \ {0} /\ Len(ops[t]) \in Nat
    BY Lengths DEF TypeOK
  <2>7. did'[t] = 1..(i'[t] - 1) /\ i'[t] <= Len(ops'[t]) + 1
    BY <2>1, <2>5, <2>6
  <2>8. Progress(t)'
    BY <2>1, <2>3, <2>5, <2>7 DEF Progress, Clean
  <2> QED
    BY <2>4, <2>8 DEF ProgressInv
<1>7. ASSUME NEW t \in Turns, ApplyFails(t)
      PROVE  ProgressInv'
  <2>1. PICK d \in {{}, {i[t]}} :
          /\ did' = [did EXCEPT ![t] = did[t] \cup d]
          /\ touched' = [touched EXCEPT ![plan[t]] = touched[plan[t]] \cup d]
    BY <1>7 DEF ApplyFails
  <2>2. /\ at[t] = "applying" /\ at'[t] = "failed" /\ i[t] <= Len(ops[t])
        /\ UNCHANGED <<ops, i, plan, stood, denied, editing>>
    BY <1>7 DEF ApplyFails, TypeOK
  <2>3. \A p \in PlanIds : touched[p] \subseteq touched'[p]
    BY <2>1 DEF TypeOK
  <2>4. ASSUME NEW u \in Turns, u # t
        PROVE  Progress(u)'
    <3>1. did'[u] = did[u] /\ at'[u] = at[u]
      BY <1>7, <2>1, <2>4 DEF ApplyFails, TypeOK
    <3> QED
      BY <2>2, <2>3, <3>1, ProgressKept DEF ProgressInv
  <2>5. did[t] = 1..(i[t] - 1)
    BY <2>2 DEF ProgressInv, Progress
  <2>6. i[t] \in Nat \ {0} /\ Len(ops[t]) \in Nat
    BY Lengths DEF TypeOK
  <2>7. did'[t] = did[t] \cup d
    BY <2>1 DEF TypeOK
  <2>8. CASE d = {}
    <3>1. did'[t] = 1..(i[t] - 1) /\ i[t] - 1 \in 0..Len(ops[t])
      BY <2>2, <2>5, <2>6, <2>7, <2>8
    <3> QED
      BY <2>2, <2>4, <3>1 DEF ProgressInv, Progress
  <2>9. CASE d = {i[t]}
    <3>1. did'[t] = 1..i[t] /\ i[t] \in 0..Len(ops[t])
      BY <2>2, <2>5, <2>6, <2>7, <2>9
    <3> QED
      BY <2>2, <2>4, <3>1 DEF ProgressInv, Progress
  <2> QED
    BY <2>1, <2>8, <2>9
<1>8. ASSUME NEW t \in Turns, AllApplied(t) \/ AuditOk(t)
      PROVE  ProgressInv'
  <2>1. UNCHANGED <<ops, i, did, plan, stood, denied, editing, touched>>
    BY <1>8 DEF AllApplied, AuditOk
  <2>2. ASSUME NEW u \in Turns, u # t
        PROVE  Progress(u)'
    <3>1. at'[u] = at[u]
      BY <1>8, <2>2 DEF AllApplied, AuditOk, TypeOK
    <3> QED
      BY <2>1, <3>1, ProgressKept DEF ProgressInv
  <2>3. \/ at[t] = "applying" /\ at'[t] = "succeeded" /\ i[t] > Len(ops[t])
        \/ at[t] = "succeeded" /\ at'[t] = "marking"
    BY <1>8 DEF AllApplied, AuditOk, TypeOK
  <2>4. i[t] \in Nat /\ Len(ops[t]) \in Nat /\ Progress(t)
    BY Lengths DEF TypeOK, ProgressInv
  <2>5. at[t] = "applying" => i[t] - 1 = Len(ops[t])
    BY <2>3, <2>4 DEF Progress
  <2>6. did[t] = 1..Len(ops[t]) /\ did[t] \subseteq touched[plan[t]]
    BY <2>3, <2>4, <2>5 DEF Progress
  <2>7. Progress(t)'
    BY <2>1, <2>3, <2>6 DEF Progress
  <2> QED
    BY <2>2, <2>7 DEF ProgressInv
<1>9. CASE Stop
  <2>1. \A u \in Turns : at'[u] \notin Executing
    BY <1>9 DEF Stop, Executing
  <2> QED
    BY <2>1, ProgressIdle DEF ProgressInv
<1>10. CASE BeginEdit
  <2>1. UNCHANGED <<at, ops, i, did, plan, denied, touched>>
    BY <1>10 DEF BeginEdit
  <2>2. \A u \in Turns : stood'[u] = {}
    BY <1>10 DEF BeginEdit
  <2> QED
    BY <2>1, <2>2 DEF ProgressInv, Progress, Clean
<1>11. CASE EndEdit
  <2>1. editing /\ UNCHANGED <<at, ops, i, did, plan, stood, touched>>
    BY <1>11 DEF EndEdit
  <2>2. \A u \in Turns : at[u] = "evaluating" => stood[u] = {}
    BY <2>1 DEF ProgressInv, Progress
  <2> QED
    BY <2>1, <2>2 DEF ProgressInv, Progress, Clean
<1>12. CASE UNCHANGED vars
  BY <1>12 DEF vars, ProgressInv, Progress, Clean
<1>13. ASSUME NEW t \in Turns, Leave(t)
       PROVE  ProgressInv'
  BY <1>13 DEF Leave, ProgressInv, Progress, Clean
<1> QED
  BY <1>1, <1>2, <1>3, <1>4, <1>5, <1>6, <1>7, <1>8, <1>9, <1>10, <1>11, <1>12, <1>13
     DEF Next, TurnStep, AllOver

-----------------------------------------------------------------------------
(* The cluster, the denials and the records                                *)

LEMMA TouchedStep ==
    ASSUME TypeOK, RowInv, OwnInv, ProgressInv, TouchedInv, [Next]_vars
    PROVE  TouchedInv'
<1> USE DEF turnVars, planVars, policyVars
<1>1. ASSUME NEW t \in Turns,
             \/ BeginTurn(t) \/ EndTurn(t) \/ Leave(t) \/ PlanWrite(t) \/ PlanDenied(t)
             \/ PlanDryRun(t) \/ PlanFails(t) \/ Decided(t) \/ LoadPlan(t) \/ Evaluated(t)
             \/ ExecDenied(t) \/ AllPassed(t) \/ AllApplied(t) \/ AuditFailed(t) \/ AuditOk(t)
      PROVE  TouchedInv'
  <2>1. UNCHANGED <<rows, touched>>
    BY <1>1 DEF BeginTurn, EndTurn, Leave, PlanWrite, PlanDenied, PlanDryRun, PlanFails,
                Decided, LoadPlan, Evaluated, ExecDenied, AllPassed, AllApplied,
                AuditFailed, AuditOk
  <2> QED
    BY <2>1 DEF TouchedInv
<1>2. ASSUME NEW t \in Turns, CreatePlan(t)
      PROVE  TouchedInv'
  <2>1. plan[t] \in PlanIds /\ touched[plan[t]] = {}
    BY <1>2 DEF CreatePlan, OwnInv, RowInv
  <2>2. \A p \in PlanIds : p # plan[t] => rows'[p] = rows[p]
    BY <1>2 DEF CreatePlan, TypeOK
  <2>3. rows'[plan[t]] = rows[plan[t]] \/ rows'[plan[t]].status = "pending"
    BY <1>2, <2>1 DEF CreatePlan, TypeOK
  <2>4. UNCHANGED touched
    BY <1>2 DEF CreatePlan
  <2> QED
    BY <2>1, <2>2, <2>3, <2>4 DEF TouchedInv
<1>3. ASSUME NEW t \in Turns, Applied(t) \/ ApplyFails(t)
      PROVE  TouchedInv'
  <2>1. plan[t] \in PlanIds /\ rows[plan[t]].ops = ops[t]
    BY <1>3 DEF Applied, ApplyFails, OwnInv, Executing
  <2>2. \A p \in PlanIds : p # plan[t] => touched'[p] = touched[p]
    BY <1>3 DEF Applied, ApplyFails, TypeOK
  <2>3. /\ touched[plan[t]] \subseteq touched'[plan[t]]
        /\ touched'[plan[t]] \subseteq touched[plan[t]] \cup {i[t]}
    BY <1>3, <2>1 DEF Applied, ApplyFails, TypeOK
  <2>4. i[t] \in 1..Len(ops[t])
    BY <1>3, Lengths DEF Applied, ApplyFails, TypeOK
  <2>5. UNCHANGED rows
    BY <1>3 DEF Applied, ApplyFails
  <2>6. ASSUME NEW p \in PlanIds
        PROVE  /\ touched'[p] \subseteq 1..Len(rows[p].ops)
               /\ rows[p].status = "executed" => 1..Len(rows[p].ops) \subseteq touched'[p]
    <3>1. CASE p = plan[t]
      BY <2>1, <2>3, <2>4, <3>1 DEF TouchedInv
    <3>2. CASE p # plan[t]
      BY <2>2, <3>2 DEF TouchedInv
    <3> QED
      BY <3>1, <3>2
  <2> QED
    BY <2>5, <2>6 DEF TouchedInv
<1>4. ASSUME NEW t \in Turns, MarkExecuted(t)
      PROVE  TouchedInv'
  <2>1. plan[t] \in PlanIds /\ rows[plan[t]].ops = ops[t]
    BY <1>4 DEF MarkExecuted, OwnInv, Executing
  <2>2. 1..Len(ops[t]) \subseteq touched[plan[t]]
    BY <1>4 DEF MarkExecuted, ProgressInv, Progress
  <2>3. \A p \in PlanIds : /\ rows'[p].ops = rows[p].ops
                           /\ p # plan[t] => rows'[p] = rows[p]
    BY <1>4 DEF MarkExecuted, TypeOK, Row
  <2>4. UNCHANGED touched
    BY <1>4 DEF MarkExecuted
  <2> QED
    BY <2>1, <2>2, <2>3, <2>4 DEF TouchedInv
<1>5. CASE Stop \/ BeginEdit \/ EndEdit \/ UNCHANGED vars
  <2>1. UNCHANGED <<rows, touched>>
    BY <1>5 DEF Stop, BeginEdit, EndEdit, vars
  <2> QED
    BY <2>1 DEF TouchedInv
<1> QED
  BY <1>1, <1>2, <1>3, <1>4, <1>5 DEF Next, TurnStep, AllOver

LEMMA DenyStep ==
    ASSUME TypeOK, ProgressInv, DenyBlocksPlan, [Next]_vars
    PROVE  DenyBlocksPlan'
<1> USE DEF turnVars, planVars, policyVars
<1>1. ASSUME NEW t \in Turns,
             \/ BeginTurn(t) \/ EndTurn(t) \/ Leave(t) \/ PlanDenied(t) \/ PlanDryRun(t)
             \/ PlanFails(t) \/ CreatePlan(t) \/ Decided(t) \/ Evaluated(t) \/ ExecDenied(t)
             \/ AllPassed(t) \/ AllApplied(t) \/ AuditFailed(t) \/ AuditOk(t) \/ MarkExecuted(t)
      PROVE  DenyBlocksPlan'
  <2>1. UNCHANGED <<did, ops, stood>>
    BY <1>1 DEF BeginTurn, EndTurn, Leave, PlanDenied, PlanDryRun, PlanFails, CreatePlan,
                Decided, Evaluated, ExecDenied, AllPassed, AllApplied, AuditFailed, AuditOk,
                MarkExecuted
  <2> QED
    BY <2>1 DEF DenyBlocksPlan
<1>2. ASSUME NEW t \in Turns, PlanWrite(t) \/ LoadPlan(t)
      PROVE  DenyBlocksPlan'
  <2>1. did'[t] = {}
    BY <1>2 DEF PlanWrite, LoadPlan, TypeOK
  <2>2. \A u \in Turns : u # t => did'[u] = did[u] /\ ops'[u] = ops[u] /\ stood'[u] = stood[u]
    BY <1>2 DEF PlanWrite, LoadPlan, TypeOK
  <2> QED
    BY <2>1, <2>2 DEF DenyBlocksPlan
<1>3. ASSUME NEW t \in Turns, Applied(t) \/ ApplyFails(t)
      PROVE  DenyBlocksPlan'
  <2>1. Clean(t)
    BY <1>3 DEF Applied, ApplyFails, ProgressInv, Progress
  <2>2. \A u \in Turns : u # t => did'[u] = did[u]
    BY <1>3 DEF Applied, ApplyFails, TypeOK
  <2>3. UNCHANGED <<ops, stood>>
    BY <1>3 DEF Applied, ApplyFails
  <2> QED
    BY <2>1, <2>2, <2>3 DEF DenyBlocksPlan, Clean
<1>4. CASE BeginEdit
  BY <1>4 DEF BeginEdit, DenyBlocksPlan
<1>5. CASE Stop \/ EndEdit \/ UNCHANGED vars
  <2>1. UNCHANGED <<did, ops, stood>>
    BY <1>5 DEF Stop, EndEdit, vars
  <2> QED
    BY <2>1 DEF DenyBlocksPlan
<1> QED
  BY <1>1, <1>2, <1>3, <1>4, <1>5 DEF Next, TurnStep, AllOver

\* A row's operations do not change once it is stored.
LEMMA OpsKept ==
    ASSUME TypeOK, OwnInv, [Next]_vars
    PROVE  \A p \in PlanIds : rows[p].stored => rows'[p].ops = rows[p].ops
<1> USE DEF turnVars, planVars, policyVars
<1>1. ASSUME NEW t \in Turns, CreatePlan(t)
      PROVE  \A p \in PlanIds : rows[p].stored => rows'[p].ops = rows[p].ops
  <2>1. ~rows[plan[t]].stored
    BY <1>1 DEF CreatePlan, OwnInv
  <2>2. \A p \in PlanIds : p # plan[t] => rows'[p] = rows[p]
    BY <1>1 DEF CreatePlan, TypeOK
  <2> QED
    BY <2>1, <2>2
<1>2. ASSUME NEW t \in Turns, MarkExecuted(t)
      PROVE  \A p \in PlanIds : rows'[p].ops = rows[p].ops
  BY <1>2 DEF MarkExecuted, TypeOK, Row
<1>3. ASSUME NEW t \in Turns, TurnStep(t), ~CreatePlan(t), ~MarkExecuted(t)
      PROVE  UNCHANGED rows
  BY <1>3 DEF TurnStep, BeginTurn, EndTurn, Leave, PlanWrite, PlanDenied, PlanDryRun,
              PlanFails, Decided, LoadPlan, Evaluated, ExecDenied, AllPassed, Applied,
              ApplyFails, AllApplied, AuditFailed, AuditOk
<1>4. CASE Stop \/ BeginEdit \/ EndEdit \/ UNCHANGED vars
  BY <1>4 DEF Stop, BeginEdit, EndEdit, vars
<1> QED
  BY <1>1, <1>2, <1>3, <1>4 DEF Next, AllOver

LEMMA AuditStep ==
    ASSUME TypeOK, RowInv, OwnInv, ProgressInv, AuditTruthful, [Next]_vars
    PROVE  AuditTruthful'
<1> USE DEF turnVars, planVars, policyVars
<1>1. \A a \in audit : rows'[a.plan].ops = rows[a.plan].ops
  <2>1. \A a \in audit : a.plan \in PlanIds
    BY DEF TypeOK, AuditRow
  <2> QED
    BY <2>1, OpsKept DEF RowInv
<1>2. ASSUME NEW t \in Turns, AuditFailed(t)
      PROVE  AuditTruthful'
  <2>1. rows[plan[t]].ops = ops[t] /\ \E k \in 0..Len(ops[t]) : did[t] = 1..k
    BY <1>2 DEF AuditFailed, OwnInv, Executing, ProgressInv, Progress
  <2>2. \A a \in audit' : \/ a \in audit
                         \/ a = [plan |-> plan[t], status |-> "failed",
                                 exec |-> exec[t], did |-> did[t]]
    BY <1>2 DEF AuditFailed
  <2>3. UNCHANGED rows
    BY <1>2 DEF AuditFailed
  <2> QED
    BY <2>1, <2>2, <2>3 DEF AuditTruthful
<1>3. ASSUME NEW t \in Turns, AuditOk(t)
      PROVE  AuditTruthful'
  <2>1. rows[plan[t]].ops = ops[t] /\ did[t] = 1..Len(ops[t])
    BY <1>3 DEF AuditOk, OwnInv, Executing, ProgressInv, Progress
  <2>2. \A a \in audit' : \/ a \in audit
                         \/ a = [plan |-> plan[t], status |-> "ok",
                                 exec |-> exec[t], did |-> did[t]]
    BY <1>3 DEF AuditOk
  <2>3. UNCHANGED rows
    BY <1>3 DEF AuditOk
  <2> QED
    BY <2>1, <2>2, <2>3 DEF AuditTruthful
<1>4. ASSUME UNCHANGED audit
      PROVE  AuditTruthful'
  BY <1>1, <1>4 DEF AuditTruthful
<1>5. ASSUME NEW t \in Turns, TurnStep(t), ~AuditFailed(t), ~AuditOk(t)
      PROVE  UNCHANGED audit
  BY <1>5 DEF TurnStep, BeginTurn, EndTurn, Leave, PlanWrite, PlanDenied, PlanDryRun,
              PlanFails, CreatePlan, Decided, LoadPlan, Evaluated, ExecDenied, AllPassed,
              Applied, ApplyFails, AllApplied, MarkExecuted
<1>6. CASE Stop \/ BeginEdit \/ EndEdit \/ UNCHANGED vars
  BY <1>4, <1>6 DEF Stop, BeginEdit, EndEdit, vars
<1> QED
  BY <1>2, <1>3, <1>4, <1>5, <1>6 DEF Next, AllOver

LEMMA ExecStep ==
    ASSUME TypeOK, OwnInv, ProgressInv, ExecInv, [Next]_vars
    PROVE  ExecInv'
<1> USE DEF turnVars, planVars, policyVars
<1>1. ASSUME UNCHANGED <<exec, execs, made>>,
             \A u \in Turns : at'[u] \in Executing => at[u] \in Executing /\ did'[u] = did[u]
      PROVE  ExecInv'
  BY <1>1 DEF ExecInv
<1>2. ASSUME NEW t \in Turns,
             \/ BeginTurn(t) \/ EndTurn(t) \/ Leave(t) \/ PlanWrite(t) \/ PlanDenied(t)
             \/ PlanDryRun(t) \/ PlanFails(t) \/ CreatePlan(t) \/ Decided(t) \/ Evaluated(t)
             \/ ExecDenied(t) \/ AllPassed(t) \/ AllApplied(t) \/ AuditFailed(t) \/ AuditOk(t)
             \/ MarkExecuted(t)
      PROVE  ExecInv'
  <2>1. UNCHANGED <<exec, execs, made>>
    BY <1>2 DEF BeginTurn, EndTurn, Leave, PlanWrite, PlanDenied, PlanDryRun, PlanFails,
                CreatePlan, Decided, Evaluated, ExecDenied, AllPassed, AllApplied,
                AuditFailed, AuditOk, MarkExecuted
  <2>2. \A u \in Turns : at'[u] \in Executing => at[u] \in Executing /\ did'[u] = did[u]
    BY <1>2 DEF BeginTurn, EndTurn, Leave, PlanWrite, PlanDenied, PlanDryRun, PlanFails,
                CreatePlan, Decided, Evaluated, ExecDenied, AllPassed, AllApplied,
                AuditFailed, AuditOk, MarkExecuted, TypeOK, Executing
  <2> QED
    BY <1>1, <2>1, <2>2
<1>3. ASSUME NEW t \in Turns, LoadPlan(t)
      PROVE  ExecInv'
  <2>1. /\ execs' = execs + 1 /\ exec'[t] = execs + 1 /\ did'[t] = {} /\ UNCHANGED made
        /\ execs \in Nat /\ execs + 1 \in Execs
    BY <1>3, PlanConstants DEF LoadPlan, TypeOK, Execs
  <2>2. \A u \in Turns : u # t => at'[u] = at[u] /\ exec'[u] = exec[u] /\ did'[u] = did[u]
    BY <1>3 DEF LoadPlan, TypeOK
  <2>3. \A u \in Turns : exec[u] \in Nat /\ exec[u] <= execs
    BY PlanConstants DEF TypeOK, ExecInv
  <2>4. made[execs + 1] = {} /\ \A e \in Execs : e > execs + 1 => made[e] = {}
    BY <2>1 DEF ExecInv, Execs
  <2>5. \A u \in Turns : exec'[u] <= execs'
    BY <2>1, <2>2, <2>3
  <2>6. \A v, u \in Turns : exec'[v] # 0 /\ exec'[v] = exec'[u] => v = u
    BY <2>1, <2>2, <2>3 DEF ExecInv
  <2>7. \A u \in Turns : at'[u] \in Executing =>
                            exec'[u] \in Execs /\ made'[exec'[u]] = did'[u]
    BY <2>1, <2>2, <2>4 DEF ExecInv
  <2> QED
    BY <2>1, <2>4, <2>5, <2>6, <2>7 DEF ExecInv
<1>4. ASSUME NEW t \in Turns, Applied(t) \/ ApplyFails(t)
      PROVE  ExecInv'
  <2>1. PICK d \in SUBSET Steps :
          /\ did' = [did EXCEPT ![t] = did[t] \cup d]
          /\ made' = [made EXCEPT ![exec[t]] = made[exec[t]] \cup d]
    BY <1>4, InRange DEF Applied, ApplyFails
  <2>2. at[t] \in Executing /\ exec[t] \in Execs /\ made[exec[t]] = did[t]
    BY <1>4 DEF Applied, ApplyFails, Executing, ExecInv
  <2>3. exec[t] # 0 /\ exec[t] <= execs
    BY <2>2 DEF Execs, ExecInv
  <2>4. UNCHANGED <<exec, execs>> /\ \A u \in Turns : u # t => at'[u] = at[u]
    BY <1>4 DEF Applied, ApplyFails, TypeOK
  <2>5. /\ \A u \in Turns : u # t => did'[u] = did[u]
        /\ did'[t] = did[t] \cup d
        /\ \A e \in Execs : e # exec[t] => made'[e] = made[e]
        /\ made'[exec[t]] = did[t] \cup d
    BY <2>1, <2>2 DEF TypeOK
  <2>6. \A e \in Execs : e > execs => made'[e] = {}
    <3>1. \A e \in Execs : e > execs => e # exec[t]
      BY <2>3, PlanConstants DEF TypeOK, Execs
    <3> QED
      BY <3>1, <2>5 DEF ExecInv
  <2>7. \A u \in Turns : at'[u] \in Executing => exec[u] \in Execs /\ made'[exec[u]] = did'[u]
    BY <2>2, <2>3, <2>4, <2>5 DEF ExecInv
  <2> QED
    BY <2>4, <2>6, <2>7 DEF ExecInv
<1>5. CASE Stop
  <2>1. \A u \in Turns : at'[u] \notin Executing
    BY <1>5 DEF Stop, Executing
  <2> QED
    BY <1>1, <1>5, <2>1 DEF Stop
<1>6. CASE BeginEdit \/ EndEdit \/ UNCHANGED vars
  BY <1>1, <1>6 DEF BeginEdit, EndEdit, vars
<1> QED
  BY <1>2, <1>3, <1>4, <1>5, <1>6 DEF Next, TurnStep, AllOver

\* A step that changes nothing of an execution's record keeps it accounted for
\* when its turn stays what it is.
LEMMA AccountKept ==
    ASSUME AccountInv, UNCHANGED made, audit \subseteq audit',
           \A u \in Turns, e \in Execs : Owner(u, e) => Accounted(e)'
    PROVE  AccountInv'
BY DEF AccountInv, Accounted

LEMMA AccountStep ==
    ASSUME TypeOK, OwnInv, ExecInv, AccountInv, [Next]_vars
    PROVE  AccountInv'
<1> USE DEF turnVars, planVars, policyVars
<1>1. ASSUME NEW t \in Turns,
             \/ BeginTurn(t) \/ EndTurn(t) \/ PlanWrite(t) \/ PlanDenied(t) \/ PlanDryRun(t)
             \/ PlanFails(t) \/ CreatePlan(t) \/ Decided(t) \/ Leave(t) \/ Evaluated(t)
             \/ ExecDenied(t) \/ AllPassed(t) \/ AllApplied(t) \/ MarkExecuted(t)
      PROVE  AccountInv'
  <2>1. UNCHANGED <<audit, exec, made>> /\ \A u \in Turns : left[u] => left'[u]
    BY <1>1 DEF BeginTurn, EndTurn, PlanWrite, PlanDenied, PlanDryRun, PlanFails, CreatePlan,
                Decided, Leave, Evaluated, ExecDenied, AllPassed, AllApplied, MarkExecuted,
                TypeOK
  <2>2. \A u \in Turns : at[u] \in Recording \cup {"dead"} => at'[u] \in Recording \cup {"dead"}
    BY <1>1 DEF BeginTurn, EndTurn, PlanWrite, PlanDenied, PlanDryRun, PlanFails, CreatePlan,
                Decided, Leave, Evaluated, ExecDenied, AllPassed, AllApplied, MarkExecuted,
                Recording, TypeOK
  <2> QED
    BY <2>1, <2>2, AccountKept DEF Accounted, Owner
<1>2. ASSUME NEW t \in Turns, LoadPlan(t)
      PROVE  AccountInv'
  <2>1. /\ UNCHANGED <<audit, left, made>> /\ ~left[t] /\ at[t] = "llm"
        /\ \A u \in Turns : u # t => at'[u] = at[u] /\ exec'[u] = exec[u]
    BY <1>2 DEF LoadPlan, TypeOK
  <2>2. \A e \in Execs : ~Owner(t, e)
    BY <2>1 DEF Owner, Recording
  <2>3. \A u \in Turns, e \in Execs : Owner(u, e) => Owner(u, e)'
    BY <2>1, <2>2 DEF Owner
  <2> QED
    BY <2>1, <2>3, AccountKept DEF Accounted
<1>3. ASSUME NEW t \in Turns, Applied(t) \/ ApplyFails(t)
      PROVE  AccountInv'
  <2>1. at'[t] \in Recording /\ UNCHANGED <<exec, audit, left>>
    BY <1>3 DEF Applied, ApplyFails, Recording, TypeOK
  <2>2. \A u \in Turns : u # t => at'[u] = at[u]
    BY <1>3 DEF Applied, ApplyFails, TypeOK
  <2>3. \A e \in Execs : e # exec[t] => made'[e] = made[e]
    BY <1>3 DEF Applied, ApplyFails, TypeOK
  <2>4. Accounted(exec[t])'
    BY <2>1 DEF Accounted, Owner
  <2>5. ASSUME NEW e \in Execs, made'[e] # {}, e # exec[t]
        PROVE  Accounted(e)'
    <3>1. made'[e] = made[e] /\ Accounted(e)
      BY <2>3, <2>5 DEF AccountInv
    <3>2. \A u \in Turns : Owner(u, e) => Owner(u, e)'
      BY <2>1, <2>2, <2>5 DEF Owner
    <3> QED
      BY <2>1, <3>1, <3>2 DEF Accounted
  <2>6. \A e \in Execs : made'[e] # {} => Accounted(e)'
    BY <2>1, <2>4, <2>5
  <2> QED
    BY <2>6 DEF AccountInv
<1>4. ASSUME NEW t \in Turns, AuditFailed(t) \/ AuditOk(t)
      PROVE  AccountInv'
  <2>1. UNCHANGED <<exec, left, made>> /\ audit \subseteq audit'
    BY <1>4 DEF AuditFailed, AuditOk
  <2>2. made[exec[t]] = did[t]
    BY <1>4 DEF AuditFailed, AuditOk, ExecInv, Executing
  <2>3. left[t] \/ \E a \in audit' : a.exec = exec[t] /\ a.did = did[t]
    <3>1. CASE left[t]
      BY <3>1
    <3>2. CASE ~left[t]
      <4>1. PICK s \in {"ok", "failed"} :
              [plan |-> plan[t], status |-> s, exec |-> exec[t], did |-> did[t]] \in audit'
        BY <1>4, <3>2 DEF AuditFailed, AuditOk
      <4> QED
        BY <4>1
    <3> QED
      BY <3>1, <3>2
  <2>4. \A u \in Turns : u # t => at'[u] = at[u]
    BY <1>4 DEF AuditFailed, AuditOk, TypeOK
  <2>5. Accounted(exec[t])'
    BY <2>1, <2>2, <2>3 DEF Accounted, Owner
  <2>6. \A u \in Turns, e \in Execs : Owner(u, e) => Accounted(e)'
    BY <2>1, <2>4, <2>5 DEF Owner, Accounted
  <2> QED
    BY <2>1, <2>6, AccountKept
<1>5. CASE Stop
  <2>1. UNCHANGED <<audit, exec, left, made>>
    BY <1>5 DEF Stop
  <2>2. \A u \in Turns : at[u] \in Recording \cup {"dead"} => at'[u] = "dead"
    BY <1>5 DEF Stop, Recording
  <2> QED
    BY <2>1, <2>2, AccountKept DEF Accounted, Owner
<1>6. CASE BeginEdit \/ EndEdit \/ UNCHANGED vars
  <2>1. UNCHANGED <<at, audit, exec, left, made>>
    BY <1>6 DEF BeginEdit, EndEdit, vars
  <2> QED
    BY <2>1, AccountKept DEF Accounted, Owner
<1> QED
  BY <1>1, <1>2, <1>3, <1>4, <1>5, <1>6 DEF Next, TurnStep, AllOver

-----------------------------------------------------------------------------
(* An unchanged policy                                                     *)

\* A step that keeps every turn's part and every row's part keeps the whole.
LEMMA CalmKept ==
    ASSUME TypeOK, CalmInv, edits = 0, stops = 0,
           UNCHANGED <<denied, editing>>,
           \A u \in Turns : CalmTurn(u) => CalmTurn(u)',
           \A p \in PlanIds : CalmRow(p) => CalmRow(p)'
    PROVE  CalmInv'
BY DEF CalmInv

LEMMA CalmStep ==
    ASSUME TypeOK, RowInv, OwnInv, ProgressInv, CalmInv, [Next]_vars,
           edits' = 0, stops' = 0
    PROVE  CalmInv'
<1> USE DEF turnVars, planVars, policyVars
<1>0. ~Stop /\ ~BeginEdit /\ edits = 0 /\ stops = 0
  <2>1. edits \in Nat /\ stops \in Nat
    BY PlanConstants DEF TypeOK
  <2>2. ~Stop /\ ~BeginEdit
    BY <2>1 DEF Stop, BeginEdit
  <2>3. ASSUME NEW t \in Turns, TurnStep(t)
        PROVE  UNCHANGED <<edits, stops>>
    BY <2>3 DEF TurnStep, BeginTurn, EndTurn, Leave, PlanWrite, PlanDenied, PlanDryRun,
                PlanFails, CreatePlan, Decided, LoadPlan, Evaluated, ExecDenied, AllPassed,
                Applied, ApplyFails, AllApplied, AuditFailed, AuditOk, MarkExecuted
  <2> QED
    BY <2>2, <2>3 DEF Next, EndEdit, AllOver, vars
<1>1. /\ ~editing
      /\ \A u \in Turns : CalmTurn(u)
      /\ \A p \in PlanIds : CalmRow(p)
  BY <1>0 DEF CalmInv
<1>2. ASSUME NEW t \in Turns,
             \/ BeginTurn(t) \/ EndTurn(t) \/ Leave(t) \/ PlanFails(t) \/ Decided(t)
             \/ Evaluated(t) \/ ExecDenied(t) \/ AllPassed(t) \/ AllApplied(t)
             \/ AuditFailed(t) \/ AuditOk(t)
      PROVE  CalmInv'
  <2>1. UNCHANGED <<ops, stood, denied, editing, rows, touched>>
    BY <1>2 DEF BeginTurn, EndTurn, Leave, PlanFails, Decided, Evaluated, ExecDenied, AllPassed,
                AllApplied, AuditFailed, AuditOk
  <2>2. ASSUME NEW u \in Turns
        PROVE  /\ at'[u] = "planning" =>
                    at[u] = "planning" /\ i'[u] = i[u] /\ previewed'[u] = previewed[u]
               /\ at'[u] \in {"evaluating", "applying"} => at[u] \in {"evaluating", "applying"}
    BY <1>2 DEF BeginTurn, EndTurn, Leave, PlanFails, Decided, Evaluated, ExecDenied, AllPassed,
                AllApplied, AuditFailed, AuditOk, TypeOK
  <2>3. \A u \in Turns : CalmTurn(u) => CalmTurn(u)'
    BY <2>1, <2>2 DEF CalmTurn
  <2>4. \A p \in PlanIds : CalmRow(p) => CalmRow(p)'
    BY <2>1 DEF CalmRow
  <2> QED
    BY <1>0, <2>1, <2>3, <2>4, CalmKept
<1>3. ASSUME NEW t \in Turns, PlanWrite(t) \/ LoadPlan(t)
      PROVE  CalmInv'
  <2>1. UNCHANGED <<denied, editing, rows, touched>>
    BY <1>3 DEF PlanWrite, LoadPlan
  <2>2. \A u \in Turns : u # t =>
          /\ at'[u] = at[u] /\ ops'[u] = ops[u] /\ i'[u] = i[u]
          /\ previewed'[u] = previewed[u] /\ stood'[u] = stood[u]
    BY <1>3 DEF PlanWrite, LoadPlan, TypeOK
  <2>3. \/ at'[t] = "planning" /\ i'[t] = 1
        \/ at'[t] = "evaluating" /\ stood'[t] = denied
    BY <1>1, <1>3 DEF PlanWrite, LoadPlan, TypeOK
  <2>4. CalmTurn(t)'
    BY <2>1, <2>3 DEF CalmTurn
  <2>5. \A u \in Turns : CalmTurn(u) => CalmTurn(u)'
    BY <2>1, <2>2, <2>4 DEF CalmTurn
  <2>6. \A p \in PlanIds : CalmRow(p) => CalmRow(p)'
    BY <2>1 DEF CalmRow
  <2> QED
    BY <1>0, <2>1, <2>5, <2>6, CalmKept
<1>4. ASSUME NEW t \in Turns, PlanDenied(t) \/ PlanDryRun(t)
      PROVE  CalmInv'
  <2>1. UNCHANGED <<at, ops, stood, denied, editing, rows, touched>>
    BY <1>4 DEF PlanDenied, PlanDryRun
  <2>2. \A u \in Turns : u # t => i'[u] = i[u] /\ previewed'[u] = previewed[u]
    BY <1>4 DEF PlanDenied, PlanDryRun, TypeOK
  <2>3. at[t] = "planning" /\ i'[t] = i[t] + 1 /\ i[t] \in Nat
    BY <1>4 DEF PlanDenied, PlanDryRun, TypeOK
  <2>4. /\ previewed[t] \subseteq previewed'[t]
        /\ i[t] \in previewed'[t] \/ ops[t][i[t]] \in denied
    BY <1>1, <1>4 DEF PlanDenied, PlanDryRun, MayDeny, TypeOK
  <2>5. ASSUME NEW k \in 1..Len(ops[t]), k < i'[t]
        PROVE  k \in previewed'[t] \/ ops[t][k] \in denied
    <3>1. k = i[t] \/ k < i[t]
      BY <2>3, <2>5, Lengths
    <3> QED
      BY <1>1, <2>3, <2>4, <3>1 DEF CalmTurn
  <2>6. CalmTurn(t)'
    BY <2>1, <2>3, <2>5 DEF CalmTurn
  <2>7. \A u \in Turns : CalmTurn(u) => CalmTurn(u)'
    BY <2>1, <2>2, <2>6 DEF CalmTurn
  <2>8. \A p \in PlanIds : CalmRow(p) => CalmRow(p)'
    BY <2>1 DEF CalmRow
  <2> QED
    BY <1>0, <2>1, <2>7, <2>8, CalmKept
<1>5. ASSUME NEW t \in Turns, CreatePlan(t)
      PROVE  CalmInv'
  <2>1. UNCHANGED <<ops, i, stood, denied, editing, touched>>
    BY <1>5 DEF CreatePlan
  <2>2. \A u \in Turns : u # t => at'[u] = at[u] /\ previewed'[u] = previewed[u]
    BY <1>5 DEF CreatePlan, TypeOK
  <2>3. at[t] = "planning" /\ at'[t] = "waiting" /\ i[t] > Len(ops[t])
    BY <1>5 DEF CreatePlan, TypeOK
  <2>4. plan[t] \in PlanIds /\ touched[plan[t]] = {}
    BY <2>3 DEF OwnInv, RowInv
  <2>5. \A p \in PlanIds : p # plan[t] => rows'[p] = rows[p]
    BY <1>5 DEF CreatePlan, TypeOK
  <2>6. \/ rows'[plan[t]] = rows[plan[t]]
        \/ rows'[plan[t]].ops = ops[t] /\ rows'[plan[t]].diffs = previewed[t]
    BY <1>5, <2>4 DEF CreatePlan, TypeOK
  <2>7. \A k \in 1..Len(ops[t]) : k \in previewed[t] \/ ops[t][k] \in denied
    <3>1. \A k \in 1..Len(ops[t]) : k < i[t]
      BY <2>3, Lengths DEF TypeOK
    <3> QED
      BY <1>1, <2>3, <3>1 DEF CalmTurn
  <2>8. \A u \in Turns : CalmTurn(u) => CalmTurn(u)'
    BY <2>1, <2>2, <2>3 DEF CalmTurn
  <2>9. ASSUME NEW p \in PlanIds
        PROVE  CalmRow(p) => CalmRow(p)'
    BY <2>1, <2>4, <2>5, <2>6, <2>7 DEF CalmRow
  <2> QED
    BY <1>0, <2>1, <2>8, <2>9, CalmKept
<1>6. ASSUME NEW t \in Turns, Applied(t) \/ ApplyFails(t)
      PROVE  CalmInv'
  <2>1. UNCHANGED <<ops, stood, denied, editing, rows>> /\ at[t] = "applying"
    BY <1>6 DEF Applied, ApplyFails
  <2>2. ASSUME NEW u \in Turns
        PROVE  /\ at'[u] = "planning" =>
                    at[u] = "planning" /\ i'[u] = i[u] /\ previewed'[u] = previewed[u]
               /\ at'[u] \in {"evaluating", "applying"} => at[u] = at'[u]
    BY <1>6 DEF Applied, ApplyFails, TypeOK
  <2>3. \A u \in Turns : CalmTurn(u) => CalmTurn(u)'
    BY <2>1, <2>2 DEF CalmTurn
  <2>4. plan[t] \in PlanIds /\ rows[plan[t]].stored /\ rows[plan[t]].ops = ops[t]
    BY <2>1 DEF OwnInv, Executing
  <2>5. i[t] \in 1..Len(ops[t])
    BY <1>6, Lengths DEF Applied, ApplyFails, TypeOK
  <2>6. ops[t][i[t]] \notin denied
    BY <1>1, <2>1, <2>5 DEF ProgressInv, Progress, Clean, CalmTurn
  <2>7. i[t] \in rows[plan[t]].diffs
    BY <1>1, <2>4, <2>5, <2>6 DEF CalmRow
  <2>8. /\ \A p \in PlanIds : p # plan[t] => touched'[p] = touched[p]
        /\ touched'[plan[t]] \subseteq touched[plan[t]] \cup {i[t]}
    BY <1>6, <2>4 DEF Applied, ApplyFails, TypeOK
  <2>9. \A p \in PlanIds : CalmRow(p) => CalmRow(p)'
    BY <2>1, <2>7, <2>8 DEF CalmRow
  <2> QED
    BY <1>0, <2>1, <2>3, <2>9, CalmKept
<1>7. ASSUME NEW t \in Turns, MarkExecuted(t)
      PROVE  CalmInv'
  <2>1. UNCHANGED <<ops, i, previewed, stood, denied, editing, touched>>
    BY <1>7 DEF MarkExecuted
  <2>2. \A u \in Turns : at'[u] = at[u] \/ at'[u] = "llm"
    BY <1>7 DEF MarkExecuted, TypeOK
  <2>3. \A p \in PlanIds : /\ rows'[p].stored = rows[p].stored
                           /\ rows'[p].ops = rows[p].ops /\ rows'[p].diffs = rows[p].diffs
    BY <1>7 DEF MarkExecuted, TypeOK, Row
  <2>4. \A u \in Turns : CalmTurn(u) => CalmTurn(u)'
    BY <2>1, <2>2 DEF CalmTurn
  <2>5. \A p \in PlanIds : CalmRow(p) => CalmRow(p)'
    BY <2>1, <2>3 DEF CalmRow
  <2> QED
    BY <1>0, <2>1, <2>4, <2>5, CalmKept
<1>8. CASE EndEdit
  BY <1>1, <1>8 DEF EndEdit
<1>9. CASE UNCHANGED vars
  BY <1>9 DEF vars, CalmInv, CalmTurn, CalmRow
<1> QED
  BY <1>0, <1>2, <1>3, <1>4, <1>5, <1>6, <1>7, <1>8, <1>9 DEF Next, TurnStep, AllOver

-----------------------------------------------------------------------------
(* The invariant and what follows from it                                  *)

LEMMA PlanInit == Init => PlanInv
<1> SUFFICES ASSUME Init PROVE PlanInv
  OBVIOUS
<1>1. TypeOK
  BY InitTypes
<1>2. /\ \A t \in Turns : at[t] = "new" /\ did[t] = {}
      /\ \A p \in PlanIds : rows[p] = NoRow /\ touched[p] = {}
      /\ audit = {}
      /\ \A t \in Turns : exec[t] = 0
      /\ \A e \in Execs : made[e] = {}
      /\ execs = 0
  BY DEF Init
<1>3. ~editing
  BY Zenon DEF Init
<1>4. RowInv
  BY <1>2 DEF RowInv, NoRow
<1>5. OwnInv /\ ProgressInv
  BY <1>2 DEF OwnInv, ProgressInv, Progress, Executing
<1>6. TouchedInv /\ DenyBlocksPlan /\ AuditTruthful /\ ExecInv /\ AccountInv
  BY <1>2 DEF TouchedInv, DenyBlocksPlan, AuditTruthful, ExecInv, AccountInv, NoRow, Executing
<1>7. CalmInv
  BY <1>2, <1>3 DEF CalmInv, CalmTurn, CalmRow, NoRow
<1> QED
  BY <1>1, <1>4, <1>5, <1>6, <1>7 DEF PlanInv

LEMMA PlanStep == PlanInv /\ [Next]_vars => PlanInv'
<1> SUFFICES ASSUME PlanInv, [Next]_vars PROVE PlanInv'
  OBVIOUS
<1>1. TypeOK' /\ RowInv' /\ OwnInv' /\ ProgressInv' /\ TouchedInv'
  BY TypeStep, RowStep, OwnStep, ProgressStep, TouchedStep DEF PlanInv
<1>2. DenyBlocksPlan' /\ AuditTruthful' /\ ExecInv' /\ AccountInv'
  BY DenyStep, AuditStep, ExecStep, AccountStep DEF PlanInv
<1>3. CalmInv'
  <2>1. CASE edits' = 0 /\ stops' = 0
    BY <2>1, CalmStep DEF PlanInv
  <2>2. CASE ~(edits' = 0 /\ stops' = 0)
    BY <2>2 DEF CalmInv
  <2> QED
    BY <2>1, <2>2
<1> QED
  BY <1>1, <1>2, <1>3 DEF PlanInv

\* The inductive invariant holds in every reachable state of planning and
\* execution.
THEOREM PlanInvariant == Spec => []PlanInv
BY PlanInit, PlanStep, PTL DEF Spec

\* The turns, the plans table, the engine and the audit log stay in their
\* domains: no loop runs past its plan's operations.
THEOREM PlanTypeOK == Spec => []TypeOK
<1>1. PlanInv => TypeOK
  BY DEF PlanInv
<1> QED
  BY <1>1, PlanInvariant, PTL

\* ExecutePlan's second evaluation: an execution that has changed the cluster
\* holds no operation that was denied ever since its plan was loaded.
THEOREM PlanDenyBlocks == Spec => []DenyBlocksPlan
<1>1. PlanInv => DenyBlocksPlan
  BY DEF PlanInv
<1> QED
  BY <1>1, PlanInvariant, PTL

\* ExecutePlan's audit rows: "ok" means all of the plan, "failed" a prefix.
THEOREM PlanAuditTruthful == Spec => []AuditTruthful
<1>1. PlanInv => AuditTruthful
  BY DEF PlanInv
<1> QED
  BY <1>1, PlanInvariant, PTL

\* MarkExecuted: a plan marked executed has been applied in full.
THEOREM PlanExecutedApplied == Spec => []ExecutedMeansApplied
<1>1. PlanInv => ExecutedMeansApplied
  BY DEF PlanInv, TouchedInv, ExecutedMeansApplied
<1> QED
  BY <1>1, PlanInvariant, PTL

\* AppendAudit: an execution that changed the cluster has a row of its own that
\* tells all it did, unless it is still running or its own turn was cut off by
\* its client or the server's stop.
THEOREM PlanChangesAccounted == Spec => []ChangesAccounted
<1>1. PlanInv => ChangesAccounted
  BY DEF PlanInv, AccountInv, Accounted, Owner, Recording, ChangesAccounted, Executing
<1> QED
  BY <1>1, PlanInvariant, PTL

\* The stored plan with its denied operations: under an unchanged policy only
\* operations with a diff reach the cluster.
THEOREM PlanOnlyPreviewed == Spec => []OnlyPreviewedOpsRun
<1>1. PlanInv => OnlyPreviewedOpsRun
  BY DEF PlanInv, CalmInv, CalmRow, OnlyPreviewedOpsRun
<1> QED
  BY <1>1, PlanInvariant, PTL
=============================================================================
