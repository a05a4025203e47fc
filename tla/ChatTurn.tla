------------------------------- MODULE ChatTurn -------------------------------
(***************************************************************************)
(* One turn of the agent loop and everything that runs beside it: the      *)
(* goroutine that feeds fantasyStream's channel from the provider, Runner. *)
(* Run with its tool calls, retries and persistence, the bounded events    *)
(* channel, and chatHandler, which forwards the events to the client.  A   *)
(* turn started by the scheduler has the same loop, but nobody reads its   *)
(* events, nobody can resume it, and its context is never cancelled.       *)
(*                                                                         *)
(* What the model says is a sequence of parts: text (tokens and reasoning) *)
(* and tool calls, each numbered in the order the provider sends it.  A    *)
(* call is "plain" (the tool returns or fails) or "ask": k8s_plan_write    *)
(* and k8s_ask_user, which send a prompt with the blocking Emit and wait   *)
(* for the user.  Inside SessionGate the wait is taken apart.              *)
(***************************************************************************)
EXTENDS Naturals, Sequences, SequencesExt

CONSTANTS
    EventCap,    \* capacity of Runner.Events (64)
    StreamCap,   \* capacity of fantasyStream.ch (32)
    StepLimit,   \* outerStepLimit (32)
    MaxRetries,  \* Runner.MaxRetries after its default (1)
    MaxParts     \* bound: parts the provider sends in one turn

ASSUME TurnConstants ==
    /\ EventCap \in Nat \ {0} /\ StreamCap \in Nat \ {0}
    /\ StepLimit \in Nat \ {0} /\ MaxRetries \in Nat /\ MaxParts \in Nat

VARIABLES
    origin,    \* "chat" or "job"
    client,    \* the browser: "here" or "gone"
    ctxDone,   \* the context Run was given is cancelled
    handler,   \* chatHandler
    events,    \* the contents of Runner.Events
    sent,      \* history: prompts and errors written to the client
    run,       \* where Runner.Run is
    step,      \* iterations of the outer loop so far
    attempt,   \* attempts of this iteration so far
    assistant, \* pendingAssistant
    results,   \* pendingToolResults: the numbers of the calls answered
    cause,     \* how consumeStream ended
    stream,    \* fantasyStream: its goroutine, channel, error and context
    parts,     \* parts the provider has sent in this turn
    rows       \* history: per LLM call, what persistTurn stored and was due

loop == <<run, step, attempt, assistant, results, cause, rows>>
http == <<client, handler, sent>>
vars == <<origin, ctxDone, events, http, loop, stream, parts>>

Part   == [kind: {"text", "plain", "ask"}, n: 1..MaxParts]
End    == [kind: {"finish", "error"}, n: {0}]
Calls(s) == SelectSeq(s, LAMBDA p : p.kind # "text")

\* An event is a prompt, named by the number of its call, an error (0), or
\* anything else: a token, tool_call, tool_result or message_end (Other).
Other == MaxParts + 1
Event == 0..Other
Error == 0

\* feed: the goroutine runs ("open"), has seen the provider's last part
\* ("last") or has returned ("closed").  said: history, all the provider has
\* said in this response, sent on or given up.  ended: it came to its own end.
Stream == [feed: {"open", "last", "closed"}, ch: Seq(Part \cup End),
           failed: BOOLEAN, cancelled: BOOLEAN, said: Seq(Part \cup End),
           ended: BOOLEAN]
NoStream == [feed |-> "closed", ch |-> <<>>, failed |-> FALSE, cancelled |-> FALSE,
             said |-> <<>>, ended |-> FALSE]

TypeOK ==
    /\ origin \in {"chat", "job"}
    /\ client \in {"here", "gone"}
    /\ ctxDone \in BOOLEAN
    /\ handler \in {"request", "select", "waitDone", "returned", "none"}
    /\ events \in Seq(Event) /\ Len(events) <= EventCap
    /\ sent \subseteq Event
    /\ run \in {"start", "chat", "next", "tool", "emit", "wait", "close", "persist",
                "ok", "failed", "cancelled", "limit", "refused"}
    /\ step \in 0..StepLimit
    /\ attempt \in 0..MaxRetries
    /\ assistant \in Seq(Part)
    /\ results \in Seq(1..MaxParts)
    /\ cause \in {"none", "end", "calls", "error", "cancelled"}
    /\ stream \in Stream /\ Len(stream.ch) <= StreamCap
    /\ parts \in 0..MaxParts
    /\ rows \in Seq([assistant: Seq(Part), results: Seq(1..MaxParts),
                     said: Seq(Part \cup End), ended: BOOLEAN])

Init ==
    /\ origin \in {"chat", "job"}
    /\ client = "here"
    /\ ctxDone = FALSE
    /\ handler = IF origin = "chat" THEN "request" ELSE "none"
    /\ events = <<>>
    /\ sent = {}
    /\ run = IF origin = "chat" THEN "start" ELSE "chat"
    /\ step = 0
    /\ attempt = 0
    /\ assistant = <<>>
    /\ results = <<>>
    /\ cause = "none"
    /\ stream = NoStream
    /\ parts = 0
    /\ rows = <<>>

Returned == run \in {"ok", "failed", "cancelled", "limit", "refused"}

-----------------------------------------------------------------------------
(* chatHandler and the client                                              *)

\* The session is found or created and the user's message stored, the
\* channel made, and Run started; or an error is answered and nothing runs.
Receive ==
    /\ handler = "request"
    /\ \/ /\ handler' = "select" /\ run' = "chat" /\ ctxDone' = ctxDone
       \/ /\ handler' = "returned" /\ run' = "refused" /\ ctxDone' = TRUE
    /\ UNCHANGED <<origin, client, events, sent, step, attempt, assistant, results,
                   cause, rows, stream, parts>>

\* select takes an event and emitSSE writes it.
Forward ==
    /\ handler = "select"
    /\ events # <<>>
    /\ events' = Tail(events)
    /\ sent' = sent \cup ({Head(events)} \ {Other})
    /\ UNCHANGED <<origin, ctxDone, client, handler, loop, stream, parts>>

\* emitSSE fails: the handler returns without waiting for the runner, and
\* net/http cancels the request's context.
ForwardFails ==
    /\ handler = "select"
    /\ events # <<>>
    /\ client = "gone"
    /\ events' = Tail(events)
    /\ handler' = "returned"
    /\ ctxDone' = TRUE
    /\ UNCHANGED <<origin, client, sent, loop, stream, parts>>

\* select sees ctx.Done and blocks in <-done ...
SeesDisconnect ==
    /\ handler = "select"
    /\ ctxDone
    /\ handler' = "waitDone"
    /\ UNCHANGED <<origin, ctxDone, client, events, sent, loop, stream, parts>>

\* ... until Run has returned.  select may see done first, whatever is left
\* in the channel.
SeesDone ==
    /\ handler \in {"select", "waitDone"}
    /\ Returned
    /\ handler' = "returned"
    /\ ctxDone' = TRUE
    /\ UNCHANGED <<origin, client, events, sent, loop, stream, parts>>

\* The browser goes away, and net/http notices.
Leave ==
    /\ origin = "chat"
    /\ client = "here"
    /\ client' = "gone"
    /\ UNCHANGED <<origin, ctxDone, events, handler, sent, loop, stream, parts>>

Disconnect ==
    /\ client = "gone"
    /\ ~ctxDone
    /\ ctxDone' = TRUE
    /\ UNCHANGED <<origin, events, http, loop, stream, parts>>

-----------------------------------------------------------------------------
(* fantasyStream                                                           *)

Cancelled == ctxDone \/ stream.cancelled

\* The goroutine sends out on s.ch and goes on to feed, or gives up because
\* its context is done.
Send(out, feed, ended) ==
    \/ /\ Len(stream.ch) < StreamCap
       /\ stream' = [stream EXCEPT !.ch = Append(@, out), !.said = Append(@, out),
                                   !.feed = feed, !.ended = ended]
    \/ /\ Cancelled
       /\ stream' = [stream EXCEPT !.said = Append(@, out), !.feed = "closed"]

\* The provider sends text or a tool call.
FeedPart ==
    /\ stream.feed = "open"
    /\ parts < MaxParts
    /\ parts' = parts + 1
    /\ \E k \in {"text", "plain", "ask"} :
         Send([kind |-> k, n |-> parts + 1], "open", stream.ended)
    /\ UNCHANGED <<origin, ctxDone, events, http, loop>>

\* It finishes the message or reports an error.
FeedEnd ==
    /\ stream.feed = "open"
    /\ \E e \in End : Send(e, "last", e.kind = "finish")
    /\ UNCHANGED <<origin, ctxDone, events, http, loop, parts>>

\* Text thinkSplitter still holds is sent when the provider has sent its last
\* part: after message_end, or as the last part of a stream without one.
FeedFlush ==
    /\ stream.feed # "closed"
    /\ parts < MaxParts
    /\ parts' = parts + 1
    /\ Send([kind |-> "text", n |-> parts + 1], "closed",
            stream.ended \/ (stream.feed = "open" /\ ~Cancelled))
    /\ UNCHANGED <<origin, ctxDone, events, http, loop>>

\* The goroutine returns and closes the channel: after the last part, when
\* the provider's stream stops without one, or when its context is done.
FeedReturns ==
    /\ stream.feed # "closed"
    /\ stream' = [stream EXCEPT !.feed = "closed", !.ended = @ \/ (~Cancelled /\ stream.feed = "open")]
    /\ UNCHANGED <<origin, ctxDone, events, http, loop, parts>>

-----------------------------------------------------------------------------
(* Runner.Run                                                              *)

\* Runner.emit: an event that finds the channel full is dropped.
Emit(q, e) == IF Len(q) < EventCap THEN Append(q, e) ELSE q

\* Client.Chat: a stream; an error that is retried; or the end of the turn.
Chat ==
    /\ run = "chat"
    /\ \/ \E failed \in BOOLEAN :
            /\ stream' = [NoStream EXCEPT !.feed = IF failed THEN "closed" ELSE "open",
                                          !.failed = failed]
            /\ run' = "next"
            /\ UNCHANGED <<attempt, events>>
       \/ /\ attempt < MaxRetries
          /\ attempt' = attempt + 1
          /\ UNCHANGED <<run, stream, events>>
       \/ /\ events' = Emit(events, Error)
          /\ run' = "failed"
          /\ UNCHANGED <<attempt, stream>>
    /\ UNCHANGED <<origin, ctxDone, http, step, assistant, results, cause, rows, parts>>

Ending(how) == IF how = "end" /\ Calls(assistant) # <<>> THEN "calls" ELSE how

\* consumeStream: Next returns text, which is passed on.
NextText ==
    /\ run = "next"
    /\ stream.ch # <<>>
    /\ LET p == Head(stream.ch) IN
         /\ p.kind = "text"
         /\ assistant' = Append(assistant, p)
         /\ events' = Emit(events, Other)
    /\ stream' = [stream EXCEPT !.ch = Tail(@)]
    /\ UNCHANGED <<origin, ctxDone, http, run, step, attempt, results, cause, rows, parts>>

\* ... or a tool call, which is announced and dispatched.
NextCall ==
    /\ run = "next"
    /\ stream.ch # <<>>
    /\ LET p == Head(stream.ch) IN
         /\ p.kind \in {"plain", "ask"}
         /\ assistant' = Append(assistant, p)
         /\ events' = Emit(events, Other)
    /\ stream' = [stream EXCEPT !.ch = Tail(@)]
    /\ run' = "tool"
    /\ UNCHANGED <<origin, ctxDone, http, step, attempt, results, cause, rows, parts>>

\* ... or message_end or an error, which end the response.
NextEnd ==
    /\ run = "next"
    /\ stream.ch # <<>>
    /\ \/ /\ Head(stream.ch).kind = "finish"
          /\ events' = Emit(events, Other)
          /\ cause' = Ending("end")
       \/ /\ Head(stream.ch).kind = "error"
          /\ cause' = "error"
          /\ UNCHANGED events
    /\ stream' = [stream EXCEPT !.ch = Tail(@)]
    /\ run' = "close"
    /\ UNCHANGED <<origin, ctxDone, http, step, attempt, assistant, results, rows, parts>>

\* The channel is closed and empty: the stream's error, or io.EOF.
NextClosed ==
    /\ run = "next"
    /\ stream.ch = <<>> /\ stream.feed = "closed"
    /\ cause' = IF stream.failed THEN "error" ELSE Ending("end")
    /\ run' = "close"
    /\ UNCHANGED <<origin, ctxDone, events, http, step, attempt, assistant, results,
                   rows, stream, parts>>

\* Next sees ctx.Done.
NextCancelled ==
    /\ run = "next"
    /\ ctxDone
    /\ cause' = "cancelled"
    /\ run' = "close"
    /\ UNCHANGED <<origin, ctxDone, events, http, step, attempt, assistant, results,
                   rows, stream, parts>>

Call == Last(assistant)

\* Mutant: a failed tool leaves no tool_result behind.
AnsweredUnlessFailed(ok) ==
    /\ results' = IF ok THEN Append(results, Call.n) ELSE results
    /\ events' = Emit(events, Other)
    /\ run' = "next"

\* The tool's output or error becomes its tool_result.
Answered(ok) ==
    /\ results' = Append(results, Call.n)
    /\ events' = Emit(events, Other)
    /\ run' = "next"

\* dispatch: a plain tool returns, fails or is not registered; an ask tool
\* fails before it has asked (invalid input, no cluster, dry run failed).
ToolReturns ==
    /\ run = "tool"
    /\ \E ok \in BOOLEAN : (Call.kind = "ask" => ~ok) /\ Answered(ok)
    /\ UNCHANGED <<origin, ctxDone, http, step, attempt, assistant, cause, rows,
                   stream, parts>>

ToolAsks ==
    /\ run = "tool"
    /\ Call.kind = "ask"
    /\ run' = "emit"
    /\ UNCHANGED <<origin, ctxDone, events, http, step, attempt, assistant, results,
                   cause, rows, stream, parts>>

\* Mutant: the prompt is sent with the emit that drops.
PromptDropped ==
    /\ run = "emit"
    /\ events' = Emit(events, Call.n)
    /\ run' = "wait"
    /\ UNCHANGED <<origin, ctxDone, http, step, attempt, assistant, results, cause,
                   rows, stream, parts>>

\* Deps.Emit: blocks while the channel is full, whatever the context says.
Prompt ==
    /\ run = "emit"
    /\ Len(events) < EventCap
    /\ events' = Append(events, Call.n)
    /\ run' = "wait"
    /\ UNCHANGED <<origin, ctxDone, http, step, attempt, assistant, results, cause,
                   rows, stream, parts>>

\* WaitPlan or WaitAsk: the user who saw the prompt answers it ...
UserAnswers ==
    /\ run = "wait"
    /\ Call.n \in sent
    /\ handler # "returned"
    /\ Answered(TRUE)
    /\ UNCHANGED <<origin, ctxDone, http, step, attempt, assistant, cause, rows,
                   stream, parts>>

\* Mutant: the tool waits again.
WaitAgain == run = "wait" /\ ctxDone /\ UNCHANGED vars

\* ... or the context is done.
WaitCancelled ==
    /\ run = "wait"
    /\ ctxDone
    /\ Answered(FALSE)
    /\ UNCHANGED <<origin, ctxDone, http, step, attempt, assistant, cause, rows,
                   stream, parts>>

\* stream.Close cancels the stream ...
CloseCancels ==
    /\ run = "close"
    /\ ~stream.cancelled
    /\ stream' = [stream EXCEPT !.cancelled = TRUE]
    /\ UNCHANGED <<origin, ctxDone, events, http, loop, parts>>

\* ... and waits for its goroutine.  A failed stream ends the turn, and what
\* its tools did is not stored; a response that came to an end is.
CloseStream ==
    /\ run = "close"
    /\ stream.cancelled
    /\ stream.feed = "closed"
    /\ run' = CASE cause = "error" -> "failed"
                [] cause = "cancelled" -> "cancelled"
                [] OTHER -> "persist"
    /\ events' = IF cause = "error" THEN Emit(events, Error) ELSE events
    /\ UNCHANGED <<origin, ctxDone, http, step, attempt, assistant, results, cause,
                   rows, stream, parts>>

Row == [assistant |-> assistant, results |-> results,
        said |-> stream.said, ended |-> stream.ended]

\* The loop goes on after tool calls, up to outerStepLimit.
Onward == CASE cause # "calls" -> "ok"
            [] step + 1 = StepLimit -> "limit"
            [] OTHER -> "chat"

\* Mutant: the insert does not use the turn's context.
PersistDetached ==
    /\ run = "persist"
    /\ rows' = Append(rows, Row)
    /\ run' = Onward
    /\ step' = step + 1
    /\ attempt' = 0
    /\ assistant' = <<>>
    /\ results' = <<>>
    /\ cause' = "none"
    /\ UNCHANGED <<origin, ctxDone, events, http, stream, parts>>

\* persistTurn: one transaction under the turn's context.
Persist ==
    /\ run = "persist"
    /\ ~ctxDone
    /\ rows' = Append(rows, Row)
    /\ run' = Onward
    /\ step' = step + 1
    /\ attempt' = 0
    /\ assistant' = <<>>
    /\ results' = <<>>
    /\ cause' = "none"
    /\ UNCHANGED <<origin, ctxDone, events, http, stream, parts>>

\* BatchInsertMessages fails: the context is done or the session is gone.
PersistFails ==
    /\ run = "persist"
    /\ events' = Emit(events, Error)
    /\ run' = "failed"
    /\ UNCHANGED <<origin, ctxDone, http, step, attempt, assistant, results, cause,
                   rows, stream, parts>>

-----------------------------------------------------------------------------
HandlerStep == Receive \/ Forward \/ ForwardFails \/ SeesDisconnect \/ SeesDone
FeedStep    == FeedPart \/ FeedEnd \/ FeedFlush \/ FeedReturns
RunStep     == \/ Chat \/ NextText \/ NextCall \/ NextEnd \/ NextClosed \/ NextCancelled
               \/ ToolReturns \/ ToolAsks \/ Prompt \/ WaitCancelled
               \/ CloseCancels \/ CloseStream \/ Persist \/ PersistFails

\* The loop is stuck in a tool's Emit: the channel is full and the handler no
\* longer reads it.
Wedged == run = "emit" /\ Len(events) = EventCap /\ handler \in {"waitDone", "returned"}

\* The turn is over or stuck, or a scheduled one waits for a user it does not have.
Over == /\ \/ Returned /\ handler \in {"returned", "none"} /\ stream.feed = "closed"
           \/ Wedged
           \/ origin = "job" /\ run \in {"emit", "wait"}
        /\ UNCHANGED vars

Next == HandlerStep \/ FeedStep \/ RunStep \/ UserAnswers \/ Leave \/ Disconnect \/ Over

Spec == Init /\ [][Next]_vars

\* The goroutines run, the provider ends its stream and net/http notices a
\* client that is gone; a user neither has to answer nor to leave.
FairSpec == Spec /\ WF_vars(HandlerStep) /\ WF_vars(RunStep) /\ WF_vars(FeedReturns)
                 /\ WF_vars(Disconnect)

-----------------------------------------------------------------------------
(* Properties                                                              *)

\* The parts a of a response of which the provider said s: all of them up to
\* its message_end, after which the splitter may still have had one text.
UpToEnd(a, s) ==
    /\ Len(s) \in Len(a)..(Len(a) + 2)
    /\ \A i \in 1..Len(a) : s[i] = a[i]
    /\ Len(s) > Len(a) => s[Len(a) + 1].kind = "finish"
    /\ Len(s) = Len(a) + 2 => s[Len(s)].kind = "text"

\* A stored assistant message holds all that the provider said before the end
\* of one response that came to its own end: never the head of a response
\* that was cut off (after a disconnect Next may report io.EOF), never two
\* attempts, never a gap.  What may be missing is the one text the splitter
\* flushes after message_end (Start), and nothing when there was none.
OnlyWholeResponsesStored ==
    \A i \in DOMAIN rows : rows[i].ended /\ UpToEnd(rows[i].assistant, rows[i].said)

\* The results answer the calls among the first m parts of s: every result is
\* that of a call, every call has one, and they come once and in call order.
Answers(s, m, res) ==
    /\ \A i \in 1..Len(res) : \E j \in 1..m : s[j].kind # "text" /\ s[j].n = res[i]
    /\ \A j \in 1..m : s[j].kind # "text" => \E i \in 1..Len(res) : res[i] = s[j].n
    /\ \A i, k \in 1..Len(res) : i < k => res[i] < res[k]

\* The transcript the next turn loads is one a provider accepts: every stored
\* tool call has its result, in order, whether the tool worked or not.
StoredCallsAnswered ==
    \A i \in DOMAIN rows : LET r == rows[i] IN Answers(r.assistant, Len(r.assistant), r.results)

\* The bounded channels keep what matters: neither exceeds its capacity (the
\* state is well typed), and while the loop waits for the user, the prompt it
\* waits on has been sent or will be: no slow client makes it disappear.
PromptNotLost ==
    /\ TypeOK
    /\ run = "wait" /\ handler = "select" =>
        \/ Call.n \in sent
        \/ \E i \in DOMAIN events : events[i] = Call.n

\* A client that leaves ends its turn: stream, tools, loop and handler all
\* unwind, except for the one way to get stuck that Wedged describes.
LeavingEndsTurn ==
    client = "gone" ~> \/ Returned /\ handler = "returned" /\ stream.feed = "closed"
                       \/ Wedged

=============================================================================
