-------------------------- MODULE SessionGateProofs --------------------------
(***************************************************************************)
(* Proofs about SessionGate, for any set of resume requests and any number *)
(* of plans and questions.                                                 *)
(***************************************************************************)
EXTENDS SessionGate, TLAPS

\* A plan request that has written PlanResult.
Wrote(r) == req[r].kind = "plan" /\ req[r].at \in {"written", "ok", "conflict"}

\* Where the loop is fixes which channel and which plan are current.
LoopInv ==
    /\ chan <= plan
    /\ pc = "published" => plan >= 1 /\ chan < plan
    /\ pc \in {"waitPlan", "released"} => plan >= 1 /\ chan = plan
    /\ pc = "released" => closer[chan] # NoReq
    /\ \A p \in Plans :
         outcome[p] = "none" <=>
            (p > plan \/ (p = plan /\ pc \in {"published", "waitPlan", "released"}))

\* Channels are closed by plan requests that got 204, one channel each, and
\* channels that ResetPlan has not made yet are open.
CloserInv ==
    \A c \in Channels :
        closer[c] # NoReq =>
            /\ c <= chan
            /\ req[closer[c]].kind = "plan"
            /\ req[closer[c]].at = "ok"
            /\ req[closer[c]].during <= c
            /\ \A d \in Channels : closer[d] = closer[c] => d = c

\* A plan that was decided has a closed channel.
DecidedInv == \A p \in Plans : Decided(p) => closer[p] # NoReq

\* PlanResult was written by a request during the current channel, and is
\* empty only if none has written since ResetPlan.
ResultInv ==
    /\ \A r \in Requests : Wrote(r) => req[r].during <= chan
    /\ planResult = "cancelled" =>
         \E r \in Requests : Wrote(r) /\ ~req[r].approved /\ req[r].during = chan
    /\ planResult = "confirmed" =>
         \E r \in Requests : Wrote(r) /\ req[r].approved /\ req[r].during = chan
    /\ planResult = NoResult =>
         \A r \in Requests : Wrote(r) => req[r].during < chan

\* The decisions read so far have their authors.
AuthorInv ==
    \A p \in Plans :
        /\ outcome[p] = "cancelled" =>
             \E r \in Requests : Wrote(r) /\ ~req[r].approved /\ req[r].during = p
        /\ outcome[p] = "confirmed" =>
             \/ \E r \in Requests : Wrote(r) /\ req[r].approved /\ req[r].during = p
             \/ closer[p] \in Requests /\ req[closer[p]].during < p

\* The inductive invariant.
GateInv == TypeOK /\ LoopInv /\ CloserInv /\ DecidedInv /\ ResultInv /\ AuthorInv

-----------------------------------------------------------------------------
\* TypeOK of a request that changes its place in the handler.
LEMMA RequestMoves ==
    ASSUME TypeOK, NEW r \in Requests,
           NEW a \in {"idle", "found", "writing", "written", "ok", "conflict", "notfound"}
    PROVE  [req EXCEPT ![r].at = a] \in [Requests -> Request]
BY DEF TypeOK, Request

\* TypeOK is inductive on its own: the loop, the handlers and the Session's
\* fields stay in their domains whatever interleaves.
LEMMA TypeStep == TypeOK /\ [Next]_vars => TypeOK'
<1> SUFFICES ASSUME TypeOK, [Next]_vars PROVE TypeOK'
  OBVIOUS
<1> USE GateConstants DEF Plans, Asks, Channels, Decisions, NoResult
<1>1. CASE AgentStep
  <2>1. CASE PublishPlan
    BY <2>1 DEF PublishPlan, TypeOK, session
  <2>2. CASE ResetPlan
    BY <2>2 DEF ResetPlan, TypeOK
  <2>3. CASE WaitPlanReleased \/ WaitAskReleased \/ RunReturns
    BY <2>3 DEF WaitPlanReleased, WaitAskReleased, RunReturns, TypeOK, session
  <2>4. CASE WaitPlanCancelled
    BY <2>4 DEF WaitPlanCancelled, TypeOK, session
  <2>5. CASE PlanDecision
    BY <2>5 DEF PlanDecision, TypeOK, session
  <2>6. CASE PublishAsk
    BY <2>6 DEF PublishAsk, TypeOK, session
  <2>7. CASE WaitAskCancelled
    BY <2>7 DEF WaitAskCancelled, TypeOK, session
  <2>8. CASE ReadAnswer
    <3>1. PICK v \in Requests \cup {NoReq, Torn} :
             answered' = [answered EXCEPT ![ask] = v]
      BY <2>8 DEF ReadAnswer, TypeOK
    <3> QED
      BY <2>8, <3>1 DEF ReadAnswer, TypeOK, session
  <2> QED
    BY <1>1, <2>1, <2>2, <2>3, <2>4, <2>5, <2>6, <2>7, <2>8 DEF AgentStep
<1>2. CASE Disconnect \/ HandlerReturns
  BY <1>2 DEF Disconnect, HandlerReturns, TypeOK, loop, session
<1>3. ASSUME NEW r \in Requests, Lookup(r) PROVE TypeOK'
  <2>1. PICK k \in {"plan", "ask_user"}, ok \in BOOLEAN :
           req' = [req EXCEPT ![r] =
                      [at |-> IF registered THEN "found" ELSE "notfound",
                       kind |-> k, approved |-> ok, during |-> 0]]
    BY <1>3 DEF Lookup
  <2>2. req' \in [Requests -> Request]
    BY <2>1 DEF TypeOK, Request
  <2> QED
    BY <1>3, <2>2 DEF Lookup, TypeOK, loop, session
<1>4. ASSUME NEW r \in Requests, ResumeStep(r) PROVE TypeOK'
  <2>1. CASE WritePlanResult(r)
    <3>1. req' \in [Requests -> Request]
      <4>1. req[r] \in Request /\ req \in [Requests -> Request] /\ chan \in Channels
        BY DEF TypeOK
      <4>2. [req[r] EXCEPT !.at = "written", !.during = chan] \in Request
        BY <4>1 DEF Request
      <4>3. req' = [req EXCEPT ![r] = [req[r] EXCEPT !.at = "written", !.during = chan]]
        BY <2>1, <4>1 DEF WritePlanResult
      <4> QED
        BY <4>1, <4>2, <4>3
    <3> QED
      BY <2>1, <3>1 DEF WritePlanResult, TypeOK, loop
  <2>2. CASE ClosePlan(r)
    <3>1. req' \in [Requests -> Request]
      <4>1. PICK a \in {"ok", "conflict"} : req' = [req EXCEPT ![r].at = a]
        BY <2>2 DEF ClosePlan
      <4> QED
        BY <4>1, RequestMoves
    <3> QED
      BY <2>2, <3>1 DEF ClosePlan, TypeOK, loop
  <2>3. CASE BeginAnswer(r)
    <3>1. req' \in [Requests -> Request]
      BY <2>3, RequestMoves DEF BeginAnswer
    <3> QED
      BY <2>3, <3>1 DEF BeginAnswer, TypeOK, loop, session
  <2>4. CASE EndAnswer(r)
    <3>1. req' \in [Requests -> Request]
      BY <2>4, RequestMoves DEF EndAnswer
    <3> QED
      BY <2>4, <3>1 DEF EndAnswer, TypeOK, loop
  <2>5. CASE CloseAsk(r)
    <3>1. req' \in [Requests -> Request]
      <4>1. PICK a \in {"ok", "conflict"} : req' = [req EXCEPT ![r].at = a]
        BY <2>5 DEF CloseAsk
      <4> QED
        BY <4>1, RequestMoves
    <3> QED
      BY <2>5, <3>1 DEF CloseAsk, TypeOK, loop
  <2> QED
    BY <1>4, <2>1, <2>2, <2>3, <2>4, <2>5 DEF ResumeStep
<1>5. CASE UNCHANGED vars
  BY <1>5 DEF vars, loop, session, TypeOK
<1> QED
  BY <1>1, <1>2, <1>3, <1>4, <1>5 DEF Next, Over

\* The initial state satisfies the inductive invariant.
LEMMA GateInit == Init => GateInv
<1> SUFFICES ASSUME Init PROVE GateInv
  OBVIOUS
<1> USE GateConstants DEF Init, Plans, Asks, Channels, Decisions, NoResult, Idle
<1>1. TypeOK
  <2>1. Idle \in Request
    BY DEF Request
  <2>2. req \in [Requests -> Request]
    BY <2>1
  <2>3. registered \in BOOLEAN /\ ctxDone \in BOOLEAN
    BY Zenon
  <2>4. /\ closer \in [Channels -> Requests \cup {NoReq}]
        /\ outcome \in [Plans -> Decisions \cup {"none", "aborted"}]
        /\ answered \in [Asks -> Requests \cup {NoReq, Torn, "none", "aborted"}]
    BY Zenon
  <2>5. plan \in 0..MaxPlans /\ ask \in 0..MaxAsks /\ chan \in Channels
    OBVIOUS
  <2>6. /\ pc \in {"llm", "published", "waitPlan", "released",
                   "waitAsk", "answerReady", "returned"}
        /\ planResult \in Decisions \cup {NoResult}
        /\ askCloser \in Requests \cup {NoReq}
        /\ askAnswer \in Requests \cup {NoReq}
    BY Zenon
  <2> QED
    BY <2>2, <2>3, <2>4, <2>5, <2>6, Zenon DEF TypeOK
<1>2. LoopInv /\ CloserInv /\ DecidedInv
  BY DEF LoopInv, CloserInv, DecidedInv, Decided
<1>3. ResultInv /\ AuthorInv
  BY DEF ResultInv, AuthorInv, Wrote
<1> QED
  BY <1>1, <1>2, <1>3 DEF GateInv

\* The steps of the agent loop keep the invariant.
LEMMA AgentKeeps == ASSUME GateInv, TypeOK', AgentStep PROVE GateInv'
<1> USE GateConstants DEF GateInv, Plans, Channels, Decisions, NoResult
<1>1. CASE PublishPlan
  <2>1. LoopInv'
    BY <1>1 DEF PublishPlan, TypeOK, LoopInv, session
  <2> QED
    BY <1>1, <2>1 DEF PublishPlan, session, CloserInv, DecidedInv, Decided,
                      ResultInv, AuthorInv, Wrote
<1>2. CASE ResetPlan
  <2>1. LoopInv'
    BY <1>2 DEF ResetPlan, TypeOK, LoopInv
  <2>2. CloserInv' /\ DecidedInv'
    BY <1>2 DEF ResetPlan, TypeOK, LoopInv, CloserInv, DecidedInv, Decided
  <2>3. ResultInv'
    <3>1. chan < chan' /\ chan \in Nat /\ chan' \in Nat
      BY <1>2 DEF ResetPlan, TypeOK, LoopInv
    <3>2. \A r \in Requests : req[r].during \in Nat
      BY DEF TypeOK, Request
    <3> QED
      BY <1>2, <3>1, <3>2 DEF ResetPlan, ResultInv, Wrote
  <2>4. AuthorInv'
    BY <1>2 DEF ResetPlan, AuthorInv, Wrote
  <2> QED
    BY <2>1, <2>2, <2>3, <2>4
<1>3. CASE WaitPlanReleased
  BY <1>3 DEF WaitPlanReleased, TypeOK, session, LoopInv, CloserInv, DecidedInv,
              Decided, ResultInv, AuthorInv, Wrote
<1>4. CASE WaitPlanCancelled
  <2>1. plan \in Plans /\ \A p \in Plans : p # plan => outcome'[p] = outcome[p]
    BY <1>4 DEF WaitPlanCancelled, TypeOK, LoopInv
  <2>2. outcome'[plan] = "aborted"
    BY <1>4, <2>1 DEF WaitPlanCancelled, TypeOK
  <2>3. LoopInv'
    BY <1>4, <2>1, <2>2 DEF WaitPlanCancelled, TypeOK, LoopInv, session
  <2>4. CloserInv' /\ DecidedInv'
    BY <1>4, <2>1, <2>2 DEF WaitPlanCancelled, session, CloserInv, DecidedInv, Decided
  <2>5. ResultInv' /\ AuthorInv'
    BY <1>4, <2>1, <2>2 DEF WaitPlanCancelled, session, ResultInv, AuthorInv, Wrote
  <2> QED
    BY <2>3, <2>4, <2>5
<1>5. CASE PlanDecision
  <2>1. /\ plan \in Plans /\ chan = plan /\ closer[plan] # NoReq
        /\ \A p \in Plans : p # plan => outcome'[p] = outcome[p]
    BY <1>5 DEF PlanDecision, TypeOK, LoopInv
  <2>2. /\ planResult = NoResult => outcome'[plan] = "confirmed"
        /\ planResult # NoResult => outcome'[plan] = planResult
        /\ outcome'[plan] \in Decisions
    BY <1>5, <2>1 DEF PlanDecision, TypeOK
  <2>3. LoopInv'
    BY <1>5, <2>1, <2>2 DEF PlanDecision, TypeOK, LoopInv, session
  <2>4. CloserInv' /\ DecidedInv'
    BY <1>5, <2>1 DEF PlanDecision, session, CloserInv, DecidedInv, Decided
  <2>5. ResultInv'
    BY <1>5 DEF PlanDecision, session, ResultInv, Wrote
  <2>6. closer[plan] \in Requests /\ Wrote(closer[plan])
    BY <2>1 DEF TypeOK, CloserInv, Wrote
  <2>7. AuthorInv'
    <3> SUFFICES ASSUME NEW p \in Plans
                 PROVE  /\ outcome'[p] = "cancelled" =>
                            \E r \in Requests :
                               Wrote(r) /\ ~req[r].approved /\ req[r].during = p
                        /\ outcome'[p] = "confirmed" =>
                            \/ \E r \in Requests :
                                  Wrote(r) /\ req[r].approved /\ req[r].during = p
                            \/ closer[p] \in Requests /\ req[closer[p]].during < p
      BY <1>5 DEF PlanDecision, session, AuthorInv, Wrote
    <3>1. CASE p # plan
      BY <2>1, <3>1 DEF AuthorInv
    <3>2. CASE p = plan
      BY <2>1, <2>2, <2>6, <3>2 DEF ResultInv
    <3> QED
      BY <3>1, <3>2
  <2> QED
    BY <2>3, <2>4, <2>5, <2>7
<1>6. CASE PublishAsk
  BY <1>6 DEF PublishAsk, session, LoopInv, CloserInv, DecidedInv, Decided,
              ResultInv, AuthorInv, Wrote
<1>7. CASE WaitAskReleased \/ WaitAskCancelled \/ ReadAnswer \/ RunReturns
  BY <1>7 DEF WaitAskReleased, WaitAskCancelled, ReadAnswer, RunReturns, session,
              LoopInv, CloserInv, DecidedInv, Decided, ResultInv, AuthorInv, Wrote
<1> QED
  BY <1>1, <1>2, <1>3, <1>4, <1>5, <1>6, <1>7 DEF AgentStep

\* The steps of the resume handlers keep the invariant.
LEMMA ResumeKeeps ==
    ASSUME GateInv, TypeOK', NEW r \in Requests, Lookup(r) \/ ResumeStep(r)
    PROVE  GateInv'
<1> USE GateConstants DEF GateInv, Plans, Channels, Decisions, NoResult
<1>0. \A s \in Requests : req[s].during \in Nat /\ req'[s].during \in Nat
  BY DEF TypeOK, Request
<1>1. CASE Lookup(r)
  <2>1. /\ \A s \in Requests : s # r => req'[s] = req[s]
        /\ req[r].at = "idle" /\ req'[r].at \in {"found", "notfound"}
    BY <1>1 DEF Lookup, TypeOK
  <2>2. \A s \in Requests : Wrote(s)' <=> Wrote(s)
    BY <2>1 DEF Wrote
  <2>3. \A s \in Requests : Wrote(s) => req'[s] = req[s]
    BY <2>1 DEF Wrote
  <2>4. \A c \in Channels : closer[c] # NoReq =>
             closer[c] \in Requests /\ req'[closer[c]] = req[closer[c]]
    BY <2>1 DEF CloserInv, TypeOK
  <2>5. LoopInv' /\ DecidedInv'
    BY <1>1 DEF Lookup, loop, session, LoopInv, DecidedInv, Decided
  <2>6. CloserInv'
    BY <1>1, <2>4 DEF Lookup, loop, session, CloserInv
  <2>7. ResultInv'
    BY <1>1, <2>2, <2>3 DEF Lookup, session, ResultInv
  <2>8. AuthorInv'
    <3>1. \A p \in Plans : closer[p] \in Requests => req'[closer[p]] = req[closer[p]]
      BY <2>4
    <3> QED
      BY <1>1, <2>2, <2>3, <3>1 DEF Lookup, loop, session, AuthorInv
  <2> QED
    BY <2>5, <2>6, <2>7, <2>8
<1>2. CASE WritePlanResult(r)
  <2>1. /\ \A s \in Requests : s # r => req'[s] = req[s]
        /\ req[r].at = "found" /\ req'[r].at = "written"
        /\ req[r].kind = "plan" /\ req'[r].kind = "plan"
        /\ req'[r].during = chan /\ req'[r].approved = req[r].approved
    BY <1>2 DEF WritePlanResult, TypeOK, Request
  <2>2. Wrote(r)' /\ \A s \in Requests : s # r => (Wrote(s)' <=> Wrote(s))
    BY <2>1 DEF Wrote
  <2>3. ~Wrote(r)
    BY <2>1 DEF Wrote
  <2>4. \A c \in Channels : closer[c] # NoReq =>
             closer[c] \in Requests /\ req'[closer[c]] = req[closer[c]]
    BY <2>1 DEF CloserInv, TypeOK
  <2>5. LoopInv' /\ DecidedInv'
    BY <1>2 DEF WritePlanResult, loop, LoopInv, DecidedInv, Decided
  <2>9. closer' = closer /\ chan' = chan /\ outcome' = outcome
    BY <1>2 DEF WritePlanResult, loop
  <2>6. CloserInv'
    BY <2>4, <2>9 DEF CloserInv
  <2>7. ResultInv'
    <3>1. /\ req[r].approved => planResult' = "confirmed"
          /\ ~req[r].approved => planResult' = "cancelled"
      BY <1>2 DEF WritePlanResult
    <3>2. \A s \in Requests : Wrote(s)' => req'[s].during <= chan'
      BY <1>2, <2>1, <2>2 DEF WritePlanResult, ResultInv, TypeOK
    <3>3. chan' = chan
      BY <1>2 DEF WritePlanResult
    <3> QED
      BY <2>1, <2>2, <3>1, <3>2, <3>3 DEF ResultInv
  <2>8. AuthorInv'
    <3>1. \A p \in Plans : closer[p] \in Requests => req'[closer[p]] = req[closer[p]]
      BY <2>4
    <3> QED
      BY <2>1, <2>2, <2>3, <2>9, <3>1 DEF AuthorInv
  <2> QED
    BY <2>5, <2>6, <2>7, <2>8
<1>3. CASE ClosePlan(r)
  <2>1. /\ \A s \in Requests : s # r => req'[s] = req[s]
        /\ req[r].at = "written" /\ req'[r].at \in {"ok", "conflict"}
        /\ req[r].kind = "plan" /\ req'[r].kind = "plan"
        /\ req'[r].during = req[r].during /\ req'[r].approved = req[r].approved
    <3>1. PICK a \in {"ok", "conflict"} : req' = [req EXCEPT ![r].at = a]
      BY <1>3 DEF ClosePlan
    <3>2. req[r].at = "written" /\ req[r].kind = "plan"
      BY <1>3 DEF ClosePlan
    <3> QED
      BY <3>1, <3>2 DEF TypeOK, Request
  <2>2. \A s \in Requests : /\ Wrote(s)' <=> Wrote(s)
                            /\ req'[s].during = req[s].during
                            /\ req'[s].approved = req[s].approved
    BY <2>1 DEF Wrote
  <2>3. \A c \in Channels : closer[c] # NoReq =>
             /\ closer[c] \in Requests /\ closer[c] # r
             /\ req'[closer[c]] = req[closer[c]]
             /\ closer'[c] = closer[c]
    BY <1>3, <2>1 DEF ClosePlan, CloserInv, TypeOK
  <2>4. LoopInv'
    BY <1>3, <2>3 DEF ClosePlan, loop, LoopInv, TypeOK
  <2>5. DecidedInv'
    BY <1>3, <2>3 DEF ClosePlan, loop, DecidedInv, Decided, TypeOK
  <2>6. CloserInv'
    <3>1. CASE closer[chan] = NoReq
      <4>1. /\ closer'[chan] = r /\ req'[r].at = "ok" /\ chan' = chan
            /\ \A c \in Channels : c # chan => closer'[c] = closer[c]
            /\ chan \in Channels
        BY <1>3, <3>1 DEF ClosePlan, TypeOK, Request
      <4>2. req'[r].during <= chan
        BY <2>1 DEF ResultInv, Wrote
      <4> QED
        BY <2>1, <2>3, <4>1, <4>2, <3>1 DEF CloserInv, TypeOK
    <3>2. CASE closer[chan] # NoReq
      BY <1>3, <3>2, <2>3 DEF ClosePlan, CloserInv
    <3> QED
      BY <3>1, <3>2
  <2>7. ResultInv'
    BY <1>3, <2>2 DEF ClosePlan, ResultInv
  <2>8. AuthorInv'
    <3>1. \A p \in Plans : closer[p] \in Requests =>
              closer'[p] = closer[p] /\ req'[closer[p]] = req[closer[p]]
      BY <2>3
    <3> QED
      BY <1>3, <2>2, <3>1 DEF ClosePlan, loop, AuthorInv
  <2> QED
    BY <2>4, <2>5, <2>6, <2>7, <2>8
<1>4. CASE BeginAnswer(r) \/ EndAnswer(r) \/ CloseAsk(r)
  <2>1. /\ \A s \in Requests : s # r => req'[s] = req[s]
        /\ req[r].kind = "ask_user" /\ req'[r].kind = "ask_user"
    <3>1. CASE BeginAnswer(r)
      BY <3>1 DEF BeginAnswer, TypeOK, Request
    <3>2. CASE EndAnswer(r)
      BY <3>2 DEF EndAnswer, TypeOK, Request
    <3>3. CASE CloseAsk(r)
      BY <3>3 DEF CloseAsk, TypeOK, Request
    <3> QED
      BY <1>4, <3>1, <3>2, <3>3
  <2>2. closer' = closer /\ chan' = chan /\ planResult' = planResult /\ UNCHANGED loop
    BY <1>4 DEF BeginAnswer, EndAnswer, CloseAsk, session
  <2>3. \A s \in Requests : /\ Wrote(s)' <=> Wrote(s)
                            /\ Wrote(s) => req'[s] = req[s]
    BY <2>1 DEF Wrote
  <2>4. \A c \in Channels : closer[c] # NoReq =>
             closer[c] \in Requests /\ req'[closer[c]] = req[closer[c]]
    BY <2>1 DEF CloserInv, TypeOK
  <2>5. LoopInv' /\ DecidedInv'
    BY <2>2 DEF loop, LoopInv, DecidedInv, Decided
  <2>6. CloserInv'
    BY <2>2, <2>4 DEF CloserInv
  <2>7. ResultInv'
    BY <2>2, <2>3 DEF ResultInv
  <2>8. AuthorInv'
    <3>1. \A p \in Plans : closer[p] \in Requests => req'[closer[p]] = req[closer[p]]
      BY <2>4
    <3> QED
      BY <2>2, <2>3, <3>1 DEF loop, AuthorInv
  <2> QED
    BY <2>5, <2>6, <2>7, <2>8
<1> QED
  BY <1>1, <1>2, <1>3, <1>4 DEF ResumeStep

\* The inductive step.
LEMMA GateStep == GateInv /\ [Next]_vars => GateInv'
<1> SUFFICES ASSUME GateInv, [Next]_vars PROVE GateInv'
  OBVIOUS
<1>0. TypeOK'
  BY TypeStep DEF GateInv
<1>1. CASE AgentStep
  BY <1>0, <1>1, AgentKeeps
<1>2. ASSUME NEW r \in Requests, Lookup(r) \/ ResumeStep(r) PROVE GateInv'
  BY <1>0, <1>2, ResumeKeeps
<1>3. CASE Disconnect \/ HandlerReturns \/ UNCHANGED vars
  <2>1. UNCHANGED <<loop, session, req>>
    BY <1>3 DEF Disconnect, HandlerReturns, vars
  <2> QED
    BY <1>0, <2>1 DEF GateInv, loop, session, LoopInv, CloserInv, DecidedInv,
                      Decided, ResultInv, AuthorInv, Wrote
<1> QED
  BY <1>1, <1>2, <1>3 DEF Next, Over

\* The inductive invariant holds in every reachable state.
THEOREM GateInvariant == Spec => []GateInv
BY GateInit, GateStep, PTL DEF Spec

\* Type correctness of every reachable state.
THEOREM GateTypeOK == Spec => []TypeOK
<1>1. GateInv => TypeOK
  BY DEF GateInv
<1> QED
  BY <1>1, GateInvariant, PTL

\* session.go's "one plan, one decision": every decided plan was released by
\* an accepted plan request that released no other plan.
THEOREM GateOneRequestOnePlan == Spec => []OneRequestOnePlan
<1>1. GateInv => OneRequestOnePlan
  <2> SUFFICES ASSUME GateInv, NEW p \in Plans, Decided(p)
               PROVE  /\ closer[p] \in Requests
                      /\ req[closer[p]].kind = "plan"
                      /\ req[closer[p]].at = "ok"
                      /\ \A q \in Plans : Decided(q) /\ closer[q] = closer[p] => q = p
    BY DEF OneRequestOnePlan
  <2>1. p \in Channels /\ \A q \in Plans : q \in Channels
    BY GateConstants DEF Plans, Channels
  <2>2. closer[p] # NoReq /\ closer[p] \in Requests
    BY <2>1 DEF GateInv, DecidedInv, TypeOK
  <2> QED
    BY <2>1, <2>2 DEF GateInv, CloserInv
<1> QED
  BY <1>1, GateInvariant, PTL

\* A decision was written during its own plan, or is the default for a
\* request that wrote before ResetPlan and closed after it.
THEOREM GateDecisionHasAuthor == Spec => []DecisionHasAuthor
<1>1. GateInv => DecisionHasAuthor
  BY DEF GateInv, AuthorInv, Wrote, DecisionHasAuthor
<1> QED
  BY <1>1, GateInvariant, PTL

-----------------------------------------------------------------------------
(* The answers                                                             *)

\* An answer request past its Lookup.
Asked(r) == r \in Requests /\ req[r].kind = "ask_user" /\ req[r].at # "idle"

\* ResumeAsk is closed only after an answer was written, and the one that is
\* published is not the one being written.
AskInv ==
    /\ \A r \in Requests : req[r].at = "writing" => req[r].kind = "ask_user"
    /\ askAnswer # NoReq => Asked(askAnswer) /\ req[askAnswer].at # "found"
                                            /\ req[askAnswer].at # "writing"
    /\ \A r \in Requests : req[r].kind = "ask_user" /\ req[r].at = "written" => askAnswer # NoReq
    /\ askCloser # NoReq => askAnswer # NoReq
    /\ pc = "answerReady" => askCloser # NoReq

\* What the questions got.
AnswerInv ==
    \A a \in Asks :
        /\ answered[a] # NoReq
        /\ answered[a] \in Requests => Asked(answered[a])
        /\ answered[a] = Torn => \E r, s \in Requests : r # s /\ Asked(r) /\ Asked(s)

\* No step takes back what an answer request is, or what was published of it.
AskedStays == /\ \A r \in Requests : Asked(r) => Asked(r)'
              /\ \A a \in Asks : answered'[a] = answered[a]

LEMMA AnswersStay == ASSUME AnswerInv, AskedStays PROVE AnswerInv'
<1> SUFFICES ASSUME NEW a \in Asks
             PROVE  /\ answered'[a] # NoReq
                    /\ answered'[a] \in Requests => Asked(answered[a])'
                    /\ answered'[a] = Torn => \E r, s \in Requests : r # s /\ Asked(r)' /\ Asked(s)'
  BY DEF AnswerInv
<1>1. answered'[a] = answered[a]
  BY DEF AskedStays
<1>2. answered[a] \in Requests => Asked(answered[a])'
  <2> SUFFICES ASSUME answered[a] \in Requests PROVE Asked(answered[a])'
    OBVIOUS
  <2>1. PICK v \in Requests : v = answered[a]
    OBVIOUS
  <2>2. Asked(v)'
    BY <2>1 DEF AnswerInv, AskedStays
  <2> QED
    BY <1>1, <2>1, <2>2 DEF Asked
<1>3. answered[a] = Torn => \E r, s \in Requests : r # s /\ Asked(r)' /\ Asked(s)'
  BY DEF AnswerInv, AskedStays
<1> QED
  BY <1>1, <1>2, <1>3 DEF AnswerInv

LEMMA AskRequests ==
    ASSUME TypeOK, AskInv, AnswerInv, NEW r \in Requests, Lookup(r) \/ ResumeStep(r)
    PROVE  AskInv' /\ AnswerInv'
<1>0. /\ pc' = pc /\ answered' = answered
      /\ (\A s \in Requests : s # r => req'[s] = req[s])
  BY DEF Lookup, ResumeStep, WritePlanResult, ClosePlan, BeginAnswer, EndAnswer, CloseAsk,
         loop, TypeOK
<1>1. CASE Lookup(r)
  <2>1. /\ req[r].at = "idle" /\ req'[r].at \in {"found", "notfound"}
        /\ UNCHANGED <<askAnswer, askCloser>>
    BY <1>1 DEF Lookup, TypeOK, session
  <2>2. AskInv'
    BY <1>0, <2>1 DEF AskInv, Asked
  <2>3. AskedStays
    BY <1>0, <2>1 DEF AskedStays, Asked
  <2> QED
    BY <2>2, <2>3, AnswersStay
<1>2. CASE WritePlanResult(r) \/ ClosePlan(r)
  <2>1. /\ req[r].kind = "plan" /\ req'[r].kind = "plan"
        /\ req'[r].at \in {"written", "ok", "conflict"}
    <3>1. CASE WritePlanResult(r)
      BY <3>1 DEF WritePlanResult, TypeOK, Request
    <3>2. CASE ClosePlan(r)
      BY <3>2 DEF ClosePlan, TypeOK, Request
    <3> QED
      BY <1>2, <3>1, <3>2
  <2>2. UNCHANGED <<askAnswer, askCloser>>
    BY <1>2 DEF WritePlanResult, ClosePlan
  <2>3. AskInv'
    BY <1>0, <2>1, <2>2 DEF AskInv, Asked
  <2>4. AskedStays
    BY <1>0, <2>1 DEF AskedStays, Asked
  <2> QED
    BY <2>3, <2>4, AnswersStay
<1>3. CASE BeginAnswer(r)
  <2>1. /\ req[r].kind = "ask_user" /\ req[r].at = "found" /\ req'[r].kind = "ask_user"
        /\ req'[r].at = "writing" /\ UNCHANGED <<askAnswer, askCloser>>
    BY <1>3 DEF BeginAnswer, TypeOK, Request, session
  <2>2. AskInv'
    BY <1>0, <2>1 DEF AskInv, Asked
  <2>3. AskedStays
    BY <1>0, <2>1 DEF AskedStays, Asked
  <2> QED
    BY <2>2, <2>3, AnswersStay
<1>4. CASE EndAnswer(r)
  <2>1. /\ req[r].kind = "ask_user" /\ req[r].at = "writing" /\ req'[r].kind = "ask_user"
        /\ req'[r].at = "written" /\ askAnswer' = r /\ askCloser' = askCloser
    BY <1>4 DEF EndAnswer, TypeOK, Request
  <2>2. AskInv'
    BY <1>0, <2>1, GateConstants DEF AskInv, Asked
  <2>3. AskedStays
    BY <1>0, <2>1 DEF AskedStays, Asked
  <2> QED
    BY <2>2, <2>3, AnswersStay
<1>5. CASE CloseAsk(r)
  <2>1. /\ req[r].kind = "ask_user" /\ req[r].at = "written" /\ req'[r].kind = "ask_user"
        /\ req'[r].at \in {"ok", "conflict"} /\ askAnswer' = askAnswer
        /\ (askCloser' = NoReq => askCloser = NoReq) /\ (askCloser' = askCloser \/ askCloser' = r)
    BY <1>5, GateConstants DEF CloseAsk, TypeOK, Request
  <2>2. AskInv'
    BY <1>0, <2>1 DEF AskInv, Asked
  <2>3. AskedStays
    BY <1>0, <2>1 DEF AskedStays, Asked
  <2> QED
    BY <2>2, <2>3, AnswersStay
<1> QED
  BY <1>1, <1>2, <1>3, <1>4, <1>5 DEF ResumeStep

LEMMA AskStep == TypeOK /\ AskInv /\ AnswerInv /\ [Next]_vars => AskInv' /\ AnswerInv'
<1> SUFFICES ASSUME TypeOK, AskInv, AnswerInv, [Next]_vars PROVE AskInv' /\ AnswerInv'
  OBVIOUS
<1>1. ASSUME NEW r \in Requests, Lookup(r) \/ ResumeStep(r) PROVE AskInv' /\ AnswerInv'
  BY <1>1, AskRequests
<1>2. CASE ReadAnswer
  <2>1. PICK v : /\ \/ v = askAnswer
                    \/ (v = Torn /\ ~MuFree)
                    \/ (v \in Requests /\ req[v].at = "writing")
                 /\ answered' = [answered EXCEPT ![ask] = v]
    BY <1>2 DEF ReadAnswer
  <2>2. /\ pc = "answerReady" /\ pc' = "llm"
        /\ UNCHANGED <<req, askAnswer, askCloser>>
    BY <1>2 DEF ReadAnswer, session
  <2>3. AskInv'
    BY <2>2 DEF AskInv, Asked
  <2>4. askAnswer # NoReq /\ Asked(askAnswer) /\ req[askAnswer].at # "writing"
    BY <2>2 DEF AskInv
  <2>5. ~MuFree => \E r, s \in Requests : r # s /\ Asked(r) /\ Asked(s)
    BY <2>4 DEF MuFree, AskInv, Asked
  <2>6. \A a \in Asks : answered'[a] = answered[a] \/ answered'[a] = v
    BY <2>1 DEF TypeOK
  <2>7. /\ v # NoReq
        /\ v \in Requests => Asked(v)
        /\ v = Torn => \E r, s \in Requests : r # s /\ Asked(r) /\ Asked(s)
    BY <2>1, <2>4, <2>5, GateConstants DEF AskInv, Asked
  <2>8. \A a \in Asks :
          /\ answered'[a] # NoReq
          /\ answered'[a] \in Requests => Asked(answered'[a])
          /\ answered'[a] = Torn => \E r, s \in Requests : r # s /\ Asked(r) /\ Asked(s)
    BY <2>6, <2>7 DEF AnswerInv
  <2>9. AnswerInv'
    BY <2>2, <2>8 DEF AnswerInv, Asked
  <2> QED
    BY <2>3, <2>9
<1>3. CASE WaitAskCancelled
  <2>1. /\ answered' = [answered EXCEPT ![ask] = "aborted"] /\ pc' = "llm"
        /\ UNCHANGED <<req, askAnswer, askCloser>>
    BY <1>3 DEF WaitAskCancelled, session
  <2>2. AskInv'
    BY <2>1 DEF AskInv, Asked
  <2>3. \A a \in Asks : answered'[a] = answered[a] \/ answered'[a] = "aborted"
    BY <2>1 DEF TypeOK
  <2>4. "aborted" # NoReq /\ "aborted" # Torn /\ "aborted" \notin Requests
    BY GateConstants
  <2>5. AnswerInv'
    BY <2>1, <2>3, <2>4 DEF AnswerInv, Asked
  <2> QED
    BY <2>2, <2>5
<1>4. CASE \/ PublishPlan \/ ResetPlan \/ WaitPlanReleased \/ WaitPlanCancelled
           \/ PlanDecision \/ PublishAsk \/ WaitAskReleased \/ RunReturns
           \/ Disconnect \/ HandlerReturns \/ UNCHANGED vars
  <2>1. /\ UNCHANGED <<req, askAnswer, askCloser, answered>>
        /\ pc' = "answerReady" => askCloser # NoReq
    BY <1>4 DEF PublishPlan, ResetPlan, WaitPlanReleased, WaitPlanCancelled, PlanDecision,
                PublishAsk, WaitAskReleased, RunReturns, Disconnect, HandlerReturns,
                vars, loop, session, AskInv
  <2>2. AskInv'
    BY <2>1 DEF AskInv, Asked
  <2>3. AskedStays
    BY <2>1 DEF AskedStays, Asked
  <2> QED
    BY <2>2, <2>3, AnswersStay
<1> QED
  BY <1>1, <1>2, <1>3, <1>4 DEF Next, AgentStep, Over

\* What k8s_ask_user returns was written by an answer request, never the empty
\* AskAnswer of a new Session, although the tool reads it without s.mu; it is
\* a mixture only if two answer requests raced.
THEOREM GateAnswerPublished == Spec => []AnswerPublished
<1>1. Init => AskInv /\ AnswerInv
  BY GateConstants DEF Init, AskInv, AnswerInv, Asked, Idle
<1>2. AnswerInv => AnswerPublished
  BY DEF AnswerInv, AnswerPublished, Asked
<1> QED
  BY <1>1, <1>2, AskStep, GateTypeOK, PTL DEF Spec

-----------------------------------------------------------------------------
(* The refinement                                                          *)

\* A function that differs from another at one point is an EXCEPT of it.
LEMMA OnePointUpdate ==
    ASSUME NEW S, NEW f, NEW g, NEW k \in S, NEW v,
           f = [x \in S |-> f[x]], g = [x \in S |-> g[x]],
           g[k] = v, \A x \in S : x # k => g[x] = f[x]
    PROVE  g = [f EXCEPT ![k] = v]
OBVIOUS

\* The ledger's view of one plan, before and after a step.
LEMMA StatusAt ==
    /\ PlanStatus = [p \in Plans |-> PlanStatus[p]]
    /\ PlanStatus' = [p \in Plans |-> PlanStatus'[p]]
    /\ \A p \in Plans :
         PlanStatus[p] = IF p > plan THEN "unseen"
                         ELSE IF outcome[p] = "none" THEN "open" ELSE outcome[p]
    /\ \A p \in Plans :
         PlanStatus'[p] = IF p > plan' THEN "unseen"
                          ELSE IF outcome'[p] = "none" THEN "open" ELSE outcome'[p]
BY DEF PlanStatus

\* Steps that leave plans, outcomes and the channels of decided plans alone
\* leave the ledger alone.
LEMMA LedgerStutters ==
    ASSUME plan' = plan, outcome' = outcome,
           \A p \in Plans : Decided(p) => closer'[p] = closer[p]
    PROVE  PlanStatus' = PlanStatus /\ Spent' = Spent
<1>1. PlanStatus' = PlanStatus
  BY DEF PlanStatus
<1>2. \A p \in Plans : Decided(p)' <=> Decided(p)
  BY DEF Decided
<1>3. Spent' = Spent
  BY <1>2 DEF Spent, Decided
<1> QED
  BY <1>1, <1>3

\* Every step of the turn is a step of the ledger or leaves it alone.
LEMMA LedgerStep ==
    ASSUME GateInv, GateInv', [Next]_vars
    PROVE  [Ledger!Next]_<<PlanStatus, Spent>>
<1> USE GateConstants DEF Plans, Decisions
<1>1. CASE PublishPlan
  <2>1. plan' = plan + 1 /\ plan' \in Plans /\ plan \in Nat /\ outcome' = outcome
    BY <1>1 DEF PublishPlan, GateInv, TypeOK
  <2>2. \A q \in Plans : outcome[q] = "none" <=> q > plan
    BY <1>1 DEF PublishPlan, GateInv, LoopInv
  <2>3. Spent' = Spent
    BY <1>1 DEF PublishPlan, session, Spent, Decided
  <2>4. PlanStatus[plan'] = "unseen"
    BY <2>1 DEF PlanStatus
  <2>5. \A q \in Plans : q < plan' => PlanStatus[q] \notin {"unseen", "open"}
    <3> SUFFICES ASSUME NEW q \in Plans, q < plan'
                 PROVE  PlanStatus[q] \notin {"unseen", "open"}
      OBVIOUS
    <3>1. ~(q > plan) /\ outcome[q] # "none" /\ outcome[q] \in Decisions \cup {"aborted"}
      BY <2>1, <2>2 DEF GateInv, TypeOK
    <3> QED
      BY <3>1 DEF PlanStatus
  <2>6. PlanStatus' = [PlanStatus EXCEPT ![plan'] = "open"]
    <3>1. \A q \in Plans : q # plan' => PlanStatus'[q] = PlanStatus[q]
      BY <2>1, StatusAt
    <3>2. PlanStatus'[plan'] = "open"
      BY <2>1, <2>2, StatusAt
    <3> QED
      BY <2>1, <3>1, <3>2, StatusAt, OnePointUpdate
  <2>7. Ledger!Open(plan')
    BY <2>3, <2>4, <2>5, <2>6 DEF Ledger!Open, Ledger!Ids
  <2> QED
    BY <2>1, <2>7 DEF Ledger!Next, Ledger!Ids
<1>2. CASE WaitPlanCancelled
  <2>1. /\ plan \in Plans /\ plan' = plan /\ outcome[plan] = "none"
        /\ outcome' = [outcome EXCEPT ![plan] = "aborted"] /\ closer' = closer
        /\ outcome \in [Plans -> Decisions \cup {"none", "aborted"}]
    BY <1>2 DEF WaitPlanCancelled, GateInv, LoopInv, TypeOK, session
  <2>2. PlanStatus[plan] = "open"
    BY <2>1 DEF PlanStatus
  <2>3. PlanStatus' = [PlanStatus EXCEPT ![plan] = "aborted"]
    <3>1. \A q \in Plans : q # plan => PlanStatus'[q] = PlanStatus[q]
      BY <2>1, StatusAt
    <3>2. PlanStatus'[plan] = "aborted"
      BY <2>1, StatusAt
    <3> QED
      BY <2>1, <3>1, <3>2, StatusAt, OnePointUpdate
  <2>4. Spent' = Spent
    <3>1. \A p \in Plans : outcome'[p] \in Decisions <=> outcome[p] \in Decisions
      BY <2>1
    <3> QED
      BY <2>1, <3>1 DEF Spent, Decided
  <2>5. Ledger!Abort(plan)
    BY <2>2, <2>3, <2>4 DEF Ledger!Abort
  <2> QED
    BY <2>1, <2>5 DEF Ledger!Next, Ledger!Ids
<1>3. CASE PlanDecision
  <2>1. /\ plan \in Plans /\ plan' = plan /\ outcome[plan] = "none" /\ chan = plan
        /\ closer' = closer
    BY <1>3 DEF PlanDecision, GateInv, LoopInv, TypeOK, session
  <2>2. PICK d \in Decisions : outcome' = [outcome EXCEPT ![plan] = d]
    BY <1>3 DEF PlanDecision, GateInv, TypeOK, NoResult
  <2>3. PlanStatus[plan] = "open"
    BY <2>1 DEF PlanStatus
  <2>4. outcome \in [Plans -> Decisions \cup {"none", "aborted"}]
    BY DEF GateInv, TypeOK
  <2>5. PlanStatus' = [PlanStatus EXCEPT ![plan] = d]
    <3>1. \A q \in Plans : q # plan => PlanStatus'[q] = PlanStatus[q]
      BY <2>1, <2>2, <2>4, StatusAt
    <3>2. PlanStatus'[plan] = d
      BY <2>1, <2>2, <2>4, StatusAt
    <3> QED
      BY <2>1, <3>1, <3>2, StatusAt, OnePointUpdate
  <2>6. closer[plan] \in Requests /\ closer[plan] \notin Spent
    <3>1. plan \in Channels /\ \A q \in Plans : q \in Channels
      BY <2>1 DEF Channels
    <3>2. closer[plan] # NoReq
      BY <1>3, <2>1 DEF PlanDecision, GateInv, LoopInv
    <3>3. closer[plan] \in Requests
      BY <3>1, <3>2 DEF GateInv, TypeOK
    <3>4. ASSUME NEW q \in Plans, Decided(q), closer[q] = closer[plan] PROVE FALSE
      BY <2>1, <3>1, <3>2, <3>4 DEF GateInv, CloserInv, Decided
    <3> QED
      BY <3>3, <3>4 DEF Spent
  <2>7. Spent' = Spent \cup {closer[plan]}
    <3>1. \A p \in Plans : Decided(p)' <=> (Decided(p) \/ p = plan)
      BY <2>1, <2>2, <2>4 DEF Decided
    <3> QED
      BY <2>1, <3>1 DEF Spent
  <2>8. Ledger!Decide(plan, closer[plan], d)
    BY <2>3, <2>5, <2>6, <2>7 DEF Ledger!Decide
  <2> QED
    BY <2>1, <2>2, <2>6, <2>8 DEF Ledger!Next, Ledger!Ids
<1>4. CASE \/ ResetPlan \/ WaitPlanReleased \/ PublishAsk \/ WaitAskReleased
          \/ WaitAskCancelled \/ ReadAnswer \/ RunReturns
          \/ Disconnect \/ HandlerReturns \/ UNCHANGED vars
  <2>1. plan' = plan /\ outcome' = outcome /\ closer' = closer
    BY <1>4 DEF ResetPlan, WaitPlanReleased, PublishAsk, WaitAskReleased,
                WaitAskCancelled, ReadAnswer, RunReturns, Disconnect,
                HandlerReturns, vars, loop, session
  <2> QED
    BY <2>1, LedgerStutters
<1>5. ASSUME NEW r \in Requests, Lookup(r) \/ ResumeStep(r)
      PROVE  PlanStatus' = PlanStatus /\ Spent' = Spent
  <2>1. plan' = plan /\ outcome' = outcome
    BY <1>5 DEF Lookup, ResumeStep, WritePlanResult, ClosePlan, BeginAnswer,
                EndAnswer, CloseAsk, loop
  <2>2. \A p \in Plans : Decided(p) => closer'[p] = closer[p]
    <3>1. \A p \in Plans : Decided(p) => closer[p] # NoReq
      BY DEF GateInv, DecidedInv
    <3>2. closer' = closer \/
             (closer[chan] = NoReq /\ closer' = [closer EXCEPT ![chan] = r])
      BY <1>5 DEF Lookup, ResumeStep, WritePlanResult, ClosePlan, BeginAnswer,
                  EndAnswer, CloseAsk, session
    <3>3. /\ closer \in [Channels -> Requests \cup {NoReq}] /\ chan \in Channels
          /\ \A p \in Plans : p \in Channels
      BY DEF GateInv, TypeOK, Channels
    <3>4. \A p \in Plans : closer[p] # NoReq => closer'[p] = closer[p]
      BY <3>2, <3>3
    <3> QED
      BY <3>1, <3>4
  <2> QED
    BY <2>1, <2>2, LedgerStutters
<1> QED
  BY <1>1, <1>2, <1>3, <1>4, <1>5 DEF Next, AgentStep, Over

\* k8s_plan_write, its Session and the resume handler together implement the
\* ledger: plans open one at a time and each is decided at most once, by a
\* request spent on it alone, or aborted with its turn.
THEOREM GateImplementsLedger == Spec => LedgerSpec
<1>1. Init => Ledger!Init
  <2> SUFFICES ASSUME Init PROVE Ledger!Init
    OBVIOUS
  <2>1. PlanStatus = [p \in Plans |-> "unseen"]
    BY GateConstants DEF Init, PlanStatus, Plans
  <2>2. Spent = {}
    BY DEF Init, Spent, Decided, Decisions
  <2> QED
    BY <2>1, <2>2 DEF Ledger!Init, Ledger!Ids, Plans
<1>2. GateInv /\ GateInv' /\ [Next]_vars => [Ledger!Next]_<<PlanStatus, Spent>>
  BY LedgerStep
<1> QED
  BY <1>1, <1>2, GateInvariant, PTL DEF Spec, LedgerSpec, Ledger!Spec
=============================================================================
