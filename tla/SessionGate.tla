----------------------------- MODULE SessionGate -----------------------------
(***************************************************************************)
(* The blocking points of one chat turn: the agent loop runs               *)
(* k8s_plan_write and k8s_ask_user, which publish an event and then wait   *)
(* on the Session's channels, while POST /sessions/{id}/resume requests    *)
(* write the user's decision and close those channels, the client may      *)
(* disconnect, and the chat handler drops the Session when it returns.     *)
(*                                                                         *)
(* One Session is one turn: chatHandler builds a fresh one per request.    *)
(* Handlers run in goroutines of their own, so ConfirmPlan, CancelPlan and *)
(* AnswerAsk are split where they release s.mu.  ConfirmPlan reads         *)
(* s.ResumePlan without s.mu; a racing ResetPlan makes the read see the    *)
(* old or the new channel, and both outcomes are interleavings below.      *)
(***************************************************************************)
EXTENDS Naturals, FiniteSets

CONSTANTS
    Requests,   \* the resume requests the turn receives
    NoReq,      \* no request
    Torn,       \* an answer read while it was being written
    MaxPlans,   \* bound: k8s_plan_write calls of the turn
    MaxAsks     \* bound: k8s_ask_user calls of the turn

ASSUME GateConstants ==
    /\ NoReq \notin Requests
    /\ Torn \notin Requests \cup {NoReq}
    /\ \A v \in {"none", "aborted"} : v \notin Requests \cup {NoReq, Torn}
    /\ MaxPlans \in Nat
    /\ MaxAsks \in Nat

Plans    == 1..MaxPlans
Asks     == 1..MaxAsks
\* ResumePlan's values: 0 is NewSession's channel, p the one ResetPlan makes
\* during the p-th k8s_plan_write.
Channels == 0..MaxPlans

VARIABLES
    pc,          \* where the agent loop is
    plan,        \* plans published so far; the last one is the current plan
    ask,         \* questions published so far
    chan,        \* Session.ResumePlan
    closer,      \* per channel: the request that closed it, or NoReq
    planResult,  \* Session.PlanResult
    askCloser,   \* the request that closed Session.ResumeAsk, or NoReq
    askAnswer,   \* Session.AskAnswer, named by the request that carried it
    req,         \* the resume requests
    registered,  \* the Session is in the SessionManager
    ctxDone,     \* the chat request's context is cancelled
    outcome,     \* per plan: what k8s_plan_write returned
    answered     \* per question: what k8s_ask_user returned

session == <<chan, closer, planResult, askCloser, askAnswer>>
loop    == <<pc, plan, ask, outcome, answered>>
vars    == <<loop, session, req, registered, ctxDone>>

Decisions == {"confirmed", "cancelled"}
NoResult  == "unset"   \* PlanResult as the empty string

Request ==
    [at: {"idle", "found", "writing", "written", "ok", "conflict", "notfound"},
     kind: {"plan", "ask_user"},
     approved: BOOLEAN,
     during: Channels]           \* history: the channel in place at its write

Idle == [at |-> "idle", kind |-> "plan", approved |-> FALSE, during |-> 0]

TypeOK ==
    /\ pc \in {"llm", "published", "waitPlan", "released",
               "waitAsk", "answerReady", "returned"}
    /\ plan \in 0..MaxPlans
    /\ ask \in 0..MaxAsks
    /\ chan \in Channels
    /\ closer \in [Channels -> Requests \cup {NoReq}]
    /\ planResult \in Decisions \cup {NoResult}
    /\ askCloser \in Requests \cup {NoReq}
    /\ askAnswer \in Requests \cup {NoReq}
    /\ req \in [Requests -> Request]
    /\ registered \in BOOLEAN
    /\ ctxDone \in BOOLEAN
    /\ outcome \in [Plans -> Decisions \cup {"none", "aborted"}]
    /\ answered \in [Asks -> Requests \cup {NoReq, Torn, "none", "aborted"}]

\* chatHandler: NewSession, SessionManager.Set, go runner.Run
Init ==
    /\ pc = "llm"
    /\ plan = 0
    /\ ask = 0
    /\ chan = 0
    /\ closer = [c \in Channels |-> NoReq]
    /\ planResult = NoResult
    /\ askCloser = NoReq
    /\ askAnswer = NoReq
    /\ req = [r \in Requests |-> Idle]
    /\ registered = TRUE
    /\ ctxDone = FALSE
    /\ outcome = [p \in Plans |-> "none"]
    /\ answered = [a \in Asks |-> "none"]

\* Session.mu is free: AnswerAsk holds it while it writes AskAnswer.  (The
\* other critical sections are single steps.)
MuFree == \A r \in Requests : req[r].at # "writing"

-----------------------------------------------------------------------------
(* The agent loop                                                          *)

\* k8s_plan_write up to its Emit calls: the plan is stored and its
\* plan_awaiting_confirm event is on its way to the client.
PublishPlan ==
    /\ pc = "llm"
    /\ plan < MaxPlans
    /\ plan' = plan + 1
    /\ pc' = "published"
    /\ UNCHANGED <<ask, outcome, answered, session, req, registered, ctxDone>>

\* Mutants of ResetPlan: the old channel is kept; the old result is kept.
ResetPlanKeepsChannel ==
    /\ pc = "published"
    /\ MuFree
    /\ planResult' = NoResult
    /\ pc' = "waitPlan"
    /\ UNCHANGED <<plan, ask, outcome, answered, chan, closer,
                   askCloser, askAnswer, req, registered, ctxDone>>

ResetPlanKeepsResult ==
    /\ pc = "published"
    /\ MuFree
    /\ chan' = plan
    /\ pc' = "waitPlan"
    /\ UNCHANGED <<plan, ask, outcome, answered, closer, planResult,
                   askCloser, askAnswer, req, registered, ctxDone>>

\* Session.ResetPlan: a fresh channel and an empty result, under s.mu.
ResetPlan ==
    /\ pc = "published"
    /\ MuFree
    /\ chan' = plan
    /\ planResult' = NoResult
    /\ pc' = "waitPlan"
    /\ UNCHANGED <<plan, ask, outcome, answered, closer,
                   askCloser, askAnswer, req, registered, ctxDone>>

\* WaitPlan returns nil: the channel is closed.
WaitPlanReleased ==
    /\ pc = "waitPlan"
    /\ closer[chan] # NoReq
    /\ pc' = "released"
    /\ UNCHANGED <<plan, ask, outcome, answered, session, req, registered, ctxDone>>

\* WaitPlan returns ctx.Err(): the tool fails and the loop goes on.
WaitPlanCancelled ==
    /\ pc = "waitPlan"
    /\ ctxDone
    /\ outcome' = [outcome EXCEPT ![plan] = "aborted"]
    /\ pc' = "llm"
    /\ UNCHANGED <<plan, ask, answered, session, req, registered, ctxDone>>

\* Mutant: the result is returned as it stands.
PlanDecisionRaw ==
    /\ pc = "released"
    /\ MuFree
    /\ outcome' = [outcome EXCEPT ![plan] = planResult]
    /\ pc' = "llm"
    /\ UNCHANGED <<plan, ask, answered, session, req, registered, ctxDone>>

\* ToolDeps.planDecision: an empty result counts as a confirmation.
PlanDecision ==
    /\ pc = "released"
    /\ MuFree
    /\ outcome' = [outcome EXCEPT ![plan] =
                      IF planResult = NoResult THEN "confirmed" ELSE planResult]
    /\ pc' = "llm"
    /\ UNCHANGED <<plan, ask, answered, session, req, registered, ctxDone>>

\* k8s_ask_user up to its Emit call.  ResumeAsk is never replaced.
PublishAsk ==
    /\ pc = "llm"
    /\ ask < MaxAsks
    /\ ask' = ask + 1
    /\ pc' = "waitAsk"
    /\ UNCHANGED <<plan, outcome, answered, session, req, registered, ctxDone>>

\* Mutant: WaitAsk that does not wait.
WaitAskSkipped ==
    /\ pc = "waitAsk"
    /\ pc' = "answerReady"
    /\ UNCHANGED <<plan, ask, outcome, answered, session, req, registered, ctxDone>>

WaitAskReleased ==
    /\ pc = "waitAsk"
    /\ askCloser # NoReq
    /\ pc' = "answerReady"
    /\ UNCHANGED <<plan, ask, outcome, answered, session, req, registered, ctxDone>>

\* Mutant: WaitAsk that does not watch the context.
WaitAskDeaf == FALSE /\ UNCHANGED vars

WaitAskCancelled ==
    /\ pc = "waitAsk"
    /\ ctxDone
    /\ answered' = [answered EXCEPT ![ask] = "aborted"]
    /\ pc' = "llm"
    /\ UNCHANGED <<plan, ask, outcome, session, req, registered, ctxDone>>

\* k8s_ask_user reads Session.AskAnswer without s.mu: while another AnswerAsk
\* is writing it, the read sees the old answer, the new one, or a mixture.
ReadAnswer ==
    /\ pc = "answerReady"
    /\ \E v \in {askAnswer} \cup
                (IF MuFree THEN {}
                 ELSE {Torn} \cup {r \in Requests : req[r].at = "writing"}) :
          answered' = [answered EXCEPT ![ask] = v]
    /\ pc' = "llm"
    /\ UNCHANGED <<plan, ask, outcome, session, req, registered, ctxDone>>

\* Runner.Run returns: a final message, or an error of the stream or store.
RunReturns ==
    /\ pc = "llm"
    /\ pc' = "returned"
    /\ UNCHANGED <<plan, ask, outcome, answered, session, req, registered, ctxDone>>

-----------------------------------------------------------------------------
(* The chat handler and its client                                         *)

\* The client goes away: net/http cancels the request's context.
Disconnect ==
    /\ ~ctxDone
    /\ ctxDone' = TRUE
    /\ UNCHANGED <<loop, session, req, registered>>

\* chatHandler returns, because the run is over or because emitSSE failed,
\* and runs its deferred Drop; net/http then cancels the context.
HandlerReturns ==
    /\ registered
    /\ registered' = FALSE
    /\ ctxDone' = TRUE
    /\ UNCHANGED <<loop, session, req>>

-----------------------------------------------------------------------------
(* resumeHandler                                                           *)

\* Lookup, for a decision on a plan or an answer to a question, at any time of the
\* turn: a plan_id must be there but is compared with nothing, so it is left out,
\* and an answer carries no id at all.  (approved means nothing for an answer.)
Lookup(r) ==
    /\ req[r].at = "idle"
    /\ \E k \in {"plan", "ask_user"}, ok \in BOOLEAN :
         /\ k = "ask_user" => ok
         /\ req' = [req EXCEPT ![r] =
                      [at |-> IF registered THEN "found" ELSE "notfound",
                       kind |-> k, approved |-> ok, during |-> 0]]
    /\ UNCHANGED <<loop, session, registered, ctxDone>>

\* ConfirmPlan and CancelPlan: the write under s.mu.
WritePlanResult(r) ==
    /\ req[r].at = "found"
    /\ req[r].kind = "plan"
    /\ MuFree
    /\ planResult' = IF req[r].approved THEN "confirmed" ELSE "cancelled"
    /\ req' = [req EXCEPT ![r].at = "written", ![r].during = chan]
    /\ UNCHANGED <<loop, chan, closer, askCloser, askAnswer, registered, ctxDone>>

\* Mutant: a second close that takes the channel over instead of panicking.
ClosePlanAgain(r) ==
    /\ req[r].at = "written"
    /\ req[r].kind = "plan"
    /\ \E c \in {chan} \cup {d \in Channels : d <= chan /\ closer[d] # NoReq} :
          closer' = [closer EXCEPT ![c] = r]
    /\ req' = [req EXCEPT ![r].at = "ok"]
    /\ UNCHANGED <<loop, chan, planResult, askCloser, askAnswer, registered, ctxDone>>

\* Mutant: the handler answers without closing the channel.
ClosePlanForgotten(r) ==
    /\ req[r].at = "written"
    /\ req[r].kind = "plan"
    /\ req' = [req EXCEPT ![r].at = "ok"]
    /\ UNCHANGED <<loop, session, registered, ctxDone>>

\* ... and the close after it: 204, or a recovered panic and 409.
ClosePlan(r) ==
    /\ req[r].at = "written"
    /\ req[r].kind = "plan"
    /\ IF closer[chan] = NoReq
         THEN /\ closer' = [closer EXCEPT ![chan] = r]
              /\ req' = [req EXCEPT ![r].at = "ok"]
         ELSE /\ req' = [req EXCEPT ![r].at = "conflict"]
              /\ UNCHANGED closer
    /\ UNCHANGED <<loop, chan, planResult, askCloser, askAnswer, registered, ctxDone>>

\* AnswerAsk: the write under s.mu, as the window in which it can be seen.
BeginAnswer(r) ==
    /\ req[r].at = "found"
    /\ req[r].kind = "ask_user"
    /\ MuFree
    /\ req' = [req EXCEPT ![r].at = "writing"]
    /\ UNCHANGED <<loop, session, registered, ctxDone>>

EndAnswer(r) ==
    /\ req[r].at = "writing"
    /\ req[r].kind = "ask_user"
    /\ askAnswer' = r
    /\ req' = [req EXCEPT ![r].at = "written"]
    /\ UNCHANGED <<loop, chan, closer, planResult, askCloser, registered, ctxDone>>

CloseAsk(r) ==
    /\ req[r].at = "written"
    /\ req[r].kind = "ask_user"
    /\ IF askCloser = NoReq
         THEN /\ askCloser' = r
              /\ req' = [req EXCEPT ![r].at = "ok"]
         ELSE /\ req' = [req EXCEPT ![r].at = "conflict"]
              /\ UNCHANGED askCloser
    /\ UNCHANGED <<loop, chan, closer, planResult, askAnswer, registered, ctxDone>>

-----------------------------------------------------------------------------
AgentStep ==
    \/ PublishPlan \/ ResetPlan \/ WaitPlanReleased \/ WaitPlanCancelled
    \/ PlanDecision \/ PublishAsk \/ WaitAskReleased \/ WaitAskCancelled
    \/ ReadAnswer \/ RunReturns

\* What a resume request does once the handler has found the Session.
ResumeStep(r) ==
    \/ WritePlanResult(r) \/ ClosePlan(r)
    \/ BeginAnswer(r) \/ EndAnswer(r) \/ CloseAsk(r)

\* The turn is over and every request has been answered or never came.
Over == /\ pc = "returned" /\ ~registered
        /\ \A r \in Requests : req[r].at \in {"idle", "ok", "conflict", "notfound"}
        /\ UNCHANGED vars

Next ==
    \/ AgentStep
    \/ Disconnect
    \/ HandlerReturns
    \/ \E r \in Requests : Lookup(r) \/ ResumeStep(r)
    \/ Over

Spec == Init /\ [][Next]_vars

\* The Go scheduler runs every runnable goroutine; the LLM stream ends or
\* fails; nothing makes the user answer or disconnect.
FairSpec == /\ Spec
            /\ WF_vars(AgentStep)
            /\ \A r \in Requests : WF_vars(ResumeStep(r))
            /\ WF_vars(pc = "returned" /\ HandlerReturns)

-----------------------------------------------------------------------------
(* Properties                                                              *)

Decided(p) == outcome[p] \in Decisions

\* "One plan, one decision" (session.go): every decided plan was released by a
\* plan request of its own, which was answered 204; no click releases two
\* plans, however requests, resets and reads interleave.
OneRequestOnePlan ==
    \A p \in Plans : Decided(p) =>
        /\ closer[p] \in Requests
        /\ req[closer[p]].kind = "plan"
        /\ req[closer[p]].at = "ok"
        /\ \A q \in Plans : Decided(q) /\ closer[q] = closer[p] => q = p

\* A decision is never inherited from an earlier plan: a cancellation was
\* written while this plan's channel was in place, and so was a confirmation,
\* unless the releasing request wrote before ResetPlan and the empty result
\* was read as "confirmed".
DecisionHasAuthor ==
    \A p \in Plans :
        /\ outcome[p] = "cancelled" =>
             \E r \in Requests : /\ req[r].kind = "plan" /\ ~req[r].approved
                                 /\ req[r].during = p
        /\ outcome[p] = "confirmed" =>
             \/ \E r \in Requests : /\ req[r].kind = "plan" /\ req[r].approved
                                    /\ req[r].during = p
             \/ closer[p] \in Requests /\ req[closer[p]].during < p

\* What k8s_ask_user returns was written by an answer request; it is a mixture
\* of two answers only if two answer requests raced.
AnswerPublished ==
    \A a \in Asks :
        /\ answered[a] # NoReq
        /\ answered[a] \in Requests => req[answered[a]].kind = "ask_user"
        /\ answered[a] = Torn =>
             \E r, s \in Requests :
                 r # s /\ req[r].kind = "ask_user" /\ req[s].kind = "ask_user"

\* A resume request that meets a waiting loop releases it: whichever of
\* several clicks wins, the turn goes on.
ResumeReleases ==
    \A r \in Requests :
        (pc = "waitPlan" /\ req[r].kind = "plan" /\ req[r].at \in {"found", "written"})
            ~> pc # "waitPlan"

\* No goroutine is left behind: once the handler has returned the run ends,
\* wherever it was waiting.
TurnUnwinds == ~registered ~> pc = "returned"

\* CancelPlan "signals that the user has rejected the pending plan": if nobody
\* ever approved anything, no plan comes back confirmed.
CancelIsHonoured ==
    (\A r \in Requests : ~(req[r].kind = "plan" /\ req[r].approved))
        => \A p \in Plans : outcome[p] # "confirmed"

-----------------------------------------------------------------------------
(* The abstract promise: PlanLedger                                        *)

PlanStatus == [p \in Plans |->
    IF p > plan THEN "unseen" ELSE IF outcome[p] = "none" THEN "open" ELSE outcome[p]]

Spent == {closer[p] : p \in {q \in Plans : Decided(q)}}

Ledger == INSTANCE PlanLedger WITH status <- PlanStatus, spent <- Spent

\* The turn implements the ledger: plans open one at a time, and each is
\* decided at most once, by a request spent on it alone, or aborted.
LedgerSpec == Ledger!Spec
=============================================================================
