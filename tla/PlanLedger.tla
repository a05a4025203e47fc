------------------------------ MODULE PlanLedger ------------------------------
(***************************************************************************)
(* What k8s_plan_write promises the agent loop, without channels, locks or *)
(* handlers: plans are published one after the other, at most one is open, *)
(* and an open plan is either decided by one resume request, which decides *)
(* nothing else, or aborted when the turn's context ends.                  *)
(***************************************************************************)
EXTENDS Naturals

CONSTANTS Requests, MaxPlans

VARIABLES status, spent

Ids == 1..MaxPlans

Init == /\ status = [p \in Ids |-> "unseen"]
        /\ spent = {}

Open(p) == /\ status[p] = "unseen"
           /\ \A q \in Ids : q < p => status[q] \notin {"unseen", "open"}
           /\ status' = [status EXCEPT ![p] = "open"]
           /\ UNCHANGED spent

Decide(p, r, d) == /\ status[p] = "open"
                   /\ r \notin spent
                   /\ status' = [status EXCEPT ![p] = d]
                   /\ spent' = spent \cup {r}

Abort(p) == /\ status[p] = "open"
            /\ status' = [status EXCEPT ![p] = "aborted"]
            /\ UNCHANGED spent

Next == \E p \in Ids :
            \/ Open(p)
            \/ Abort(p)
            \/ \E r \in Requests, d \in {"confirmed", "cancelled"} : Decide(p, r, d)

Spec == Init /\ [][Next]_<<status, spent>>
=============================================================================
