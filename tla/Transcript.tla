------------------------------ MODULE Transcript ------------------------------
(***************************************************************************)
(* The conversation in its three forms: the rows of the messages table,    *)
(* the transcript Runner.Run keeps in memory, and the messages it gives to *)
(* Client.Chat.  Run loads the first into the second (contentToParts),     *)
(* cuts the second to the model's window (truncate) and filters it into    *)
(* the third (toLLMMessages), and persistTurn writes each response back.   *)
(*                                                                         *)
(* A text, a tool's input and its output are their lengths; 0 is empty.    *)
(* Calls and their results are named by a number.                          *)
(* ConversationProofs extends this module beside ThinkSplitter; the names  *)
(* both would use (Init, Next, TypeOK, ...) carry a prefix here.           *)
(***************************************************************************)
EXTENDS Naturals, Sequences, SequencesExt

CONSTANTS
    Sizes,      \* lengths of texts, inputs and outputs
    SystemSize, \* length of the system prompt
    Wrap,       \* what persistTurn's JSON adds to a tool's output
    Limit,      \* 80% of the context window, in tokens of 4 characters
    MaxTurns,   \* bound: turns of the session
    MaxSteps    \* bound: LLM calls of a turn (outerStepLimit)

ASSUME TranscriptConstants ==
    /\ Sizes \subseteq Nat \ {0}
    /\ {SystemSize, Wrap, Limit, MaxTurns, MaxSteps} \subseteq Nat
    /\ Wrap > 0 /\ MaxSteps > 0

VARIABLES
    rows,      \* the session's rows of messages, in ROWID order
    msgs,      \* Run's transcript
    prompt,    \* the messages of the last Client.Chat
    phase,     \* "idle" between turns, "call", "reply"
    turn,      \* turns so far
    step,      \* LLM calls of the turn so far
    calls,     \* tool calls so far: the next one's number is calls + 1
    lived,     \* history: what was said and done in what is stored
    cut        \* history: truncate has dropped a message in this turn

transcriptVars == <<rows, msgs, prompt, phase, turn, step, calls, lived, cut>>

Plus(a, b) == a + b
Total(s) == FoldLeft(Plus, 0, s)

\* llm.ContentPart, and its parts by type.
Part(t, id, text, input, output) ==
    [type |-> t, id |-> id, text |-> text, input |-> input, output |-> output]
Text(n)        == Part("text", 0, n, 0, 0)
Reasoning(n)   == Part("reasoning", 0, n, 0, 0)
ToolCall(c, n) == Part("tool_call", c, 0, n, 0)
Result(c, n)   == Part("tool_result", c, 0, 0, n)

Message(role, parts) == [role |-> role, parts |-> parts]

\* A loop that skips some elements collects If(kept, <<element>>) of each.
If(cond, s) == IF cond THEN s ELSE <<>>

OfType(parts, t) == FlattenSeq([i \in DOMAIN parts |-> If(parts[i].type = t, <<parts[i]>>)])
Ids(parts) == [i \in DOMAIN parts |-> parts[i].id]
Texts(parts) == Total([i \in DOMAIN parts |-> parts[i].text])

-----------------------------------------------------------------------------
(* The messages table                                                      *)

\* store.Message: content and reasoning are lengths, calls the numbers in
\* tool_calls, and a tool row's content holds its result.
Stored(role, content, reasoning, ids, result, output) ==
    [role |-> role, content |-> content, reasoning |-> reasoning, calls |-> ids,
     result |-> result, output |-> output]

UserRow(n) == Stored("user", n, 0, <<>>, 0, 0)

\* tool_calls is one JSON array of a response's calls.  An input that is empty or
\* not JSON makes json.Marshal of the array fail; the error is dropped and the
\* column is empty: none of the calls is stored.
StoredCalls(assistant, valid) ==
    If(valid, Ids(OfType(assistant, "tool_call")))

\* Mutant: the last text of a response replaces the ones before it.
PersistLastText(assistant, results, valid) ==
    LET said == OfType(assistant, "text") IN
    <<Stored("assistant", IF said = <<>> THEN 0 ELSE Last(said).text,
             Texts(OfType(assistant, "reasoning")),
             StoredCalls(assistant, valid), 0, 0)>>
    \o [i \in DOMAIN results |->
          Stored("tool", results[i].output + Wrap, 0, <<>>, results[i].id, results[i].output)]

\* Mutant: the rows of the tool results are left out.
PersistNoResults(assistant, results, valid) ==
    <<Stored("assistant", Texts(OfType(assistant, "text")),
             Texts(OfType(assistant, "reasoning")),
             StoredCalls(assistant, valid), 0, 0)>>

\* persistTurn: one row for the response, one for each tool result.
PersistTurn(assistant, results, valid) ==
    <<Stored("assistant", Texts(OfType(assistant, "text")),
             Texts(OfType(assistant, "reasoning")),
             StoredCalls(assistant, valid), 0, 0)>>
    \o [i \in DOMAIN results |->
          Stored("tool", results[i].output + Wrap, 0, <<>>, results[i].id, results[i].output)]

\* contentToParts.  A call's input is lost (the type assertion on the decoded
\* JSON never holds), and a tool row yields its JSON as text, too.
ContentToParts(m) ==
    If(m.content > 0, <<Text(m.content)>>)
    \o If(m.reasoning > 0, <<Reasoning(m.reasoning)>>)
    \o [i \in DOMAIN m.calls |-> ToolCall(m.calls[i], 0)]
    \o If(m.role = "tool", <<Result(m.result, m.output)>>)

\* Run's history: the rows that have parts.
History(stored) ==
    FlattenSeq([i \in DOMAIN stored |->
        If(ContentToParts(stored[i]) # <<>>,
           <<Message(stored[i].role, ContentToParts(stored[i]))>>)])

-----------------------------------------------------------------------------
(* Run's transcript                                                        *)

SizeOf(m) == Total([i \in DOMAIN m.parts |->
                m.parts[i].text + m.parts[i].input + m.parts[i].output])
EstimateChars(s) == Total([i \in DOMAIN s |-> SizeOf(s[i])])

Fits(chars) == chars \div 4 <= Limit

\* Mutant: the last message is a candidate for dropping like the others.
TruncateLast(s) ==
    IF Fits(EstimateChars(s)) \/ Len(s) <= 2 THEN s
    ELSE LET over(d) == ~Fits(EstimateChars(s) - EstimateChars(SubSeq(s, 2, d + 1)))
             drop == CHOOSE d \in 1..(Len(s) - 1) :
                       /\ d = Len(s) - 1 \/ ~over(d)
                       /\ \A e \in 1..(d - 1) : over(e)
         IN <<Head(s)>> \o SubSeq(s, drop + 2, Len(s))

\* truncate: the first message and the last are kept; of those between, the
\* oldest are dropped one at a time, at least one, until the rest fits.
Truncate(s) ==
    IF Fits(EstimateChars(s)) \/ Len(s) <= 2 THEN s
    ELSE LET over(d) == ~Fits(EstimateChars(s) - EstimateChars(SubSeq(s, 2, d + 1)))
             drop == CHOOSE d \in 1..(Len(s) - 2) :
                       /\ d = Len(s) - 2 \/ ~over(d)
                       /\ \A e \in 1..(d - 1) : over(e)
         IN <<Head(s)>> \o SubSeq(s, drop + 2, Len(s))

\* toLLMMessages: a message none of whose parts has text, input or output is
\* left out.
HasContent(m) == SizeOf(m) > 0
ToLLMMessages(s) == FlattenSeq([i \in DOMAIN s |-> If(HasContent(s[i]), <<s[i]>>)])

-----------------------------------------------------------------------------
(* The session                                                             *)

\* Responses: nothing, or reasoning among text in several deltas, with up to one
\* tool call, whose input may be empty.
Responses(c, n) ==
    LET said == {<<>>, <<Text(n), Reasoning(n), Text(n)>>}
    IN said \cup {s \o <<ToolCall(c, input)>> : s \in said, input \in {0, n}}

\* Whether the inputs of a response's calls are JSON: what the provider sends is
\* not checked, but the empty input is not.
Validities(assistant) ==
    LET called == OfType(assistant, "tool_call") IN
    IF called = <<>> THEN {TRUE}
    ELSE IF \E i \in DOMAIN called : called[i].input = 0 THEN {FALSE}
    ELSE BOOLEAN

\* What a stored response meant, for the record.
Lived(assistant, results, valid) ==
    <<[said |-> Texts(OfType(assistant, "text")),
       thought |-> Texts(OfType(assistant, "reasoning")),
       called |-> Ids(OfType(assistant, "tool_call")),
       valid |-> valid,
       got |-> [i \in DOMAIN results |-> <<results[i].id, results[i].output>>]]>>

TranscriptInit ==
    /\ rows = <<>>
    /\ msgs = <<>>
    /\ prompt = <<>>
    /\ phase = "idle"
    /\ turn = 0
    /\ step = 0
    /\ calls = 0
    /\ lived = <<>>
    /\ cut = FALSE

\* chatHandler stores the user's message, and Run loads the history, which
\* has it already, and adds it once more.  A load that fails gives none.
BeginTurn ==
    /\ phase = "idle"
    /\ turn < MaxTurns
    /\ \E n \in Sizes :
         /\ rows' = Append(rows, UserRow(n))
         /\ \E history \in {History(rows'), <<>>} :
              msgs' = <<Message("system", <<Text(SystemSize)>>)>> \o history
                      \o <<Message("user", <<Text(n)>>)>>
    /\ turn' = turn + 1
    /\ step' = 0
    /\ cut' = FALSE
    /\ phase' = "call"
    /\ UNCHANGED <<prompt, calls, lived>>

\* truncate, toLLMMessages and Client.Chat.
CallModel ==
    /\ phase = "call"
    /\ msgs' = Truncate(msgs)
    /\ cut' = (cut \/ msgs' # msgs)
    /\ prompt' = ToLLMMessages(msgs')
    /\ phase' = "reply"
    /\ UNCHANGED <<rows, turn, step, calls, lived>>

\* The response ends: it is appended, stored, and after a tool call the model
\* is called again.
Reply ==
    /\ phase = "reply"
    /\ \E n, m \in Sizes : \E assistant \in Responses(calls + 1, n) :
       \E valid \in Validities(assistant) :
         LET results == IF OfType(assistant, "tool_call") = <<>> THEN <<>>
                        ELSE <<Result(calls + 1, m)>>
         IN /\ msgs' = msgs \o If(assistant # <<>>, <<Message("assistant", assistant)>>)
                       \o [i \in DOMAIN results |-> Message("tool", <<results[i]>>)]
            /\ rows' = rows \o PersistTurn(assistant, results, valid)
            /\ lived' = lived \o Lived(assistant, results, valid)
            /\ calls' = calls + Len(results)
            /\ phase' = IF results # <<>> /\ step + 1 < MaxSteps THEN "call" ELSE "idle"
    /\ step' = step + 1
    /\ UNCHANGED <<prompt, turn, cut>>

\* The LLM call, the stream or the insert fails: the turn ends and nothing of
\* the response is stored.
ReplyFails ==
    /\ phase = "reply"
    /\ phase' = "idle"
    /\ UNCHANGED <<rows, msgs, prompt, turn, step, calls, lived, cut>>

TranscriptDone == phase = "idle" /\ turn = MaxTurns /\ UNCHANGED transcriptVars

TranscriptNext == BeginTurn \/ CallModel \/ Reply \/ ReplyFails \/ TranscriptDone

TranscriptSpec == TranscriptInit /\ [][TranscriptNext]_transcriptVars

-----------------------------------------------------------------------------
(* Properties                                                              *)

TranscriptTypeOK ==
    /\ phase \in {"idle", "call", "reply"}
    /\ turn \in 0..MaxTurns /\ step \in 0..MaxSteps /\ calls \in 0..(MaxTurns * MaxSteps)
    /\ cut \in BOOLEAN
    /\ \A i \in DOMAIN rows : rows[i].role \in {"user", "assistant", "tool"}
    /\ \A i \in DOMAIN msgs : msgs[i].role \in {"system", "user", "assistant", "tool"}

\* What the model is shown is the system prompt and the newest part of the
\* conversation, ending with the message that is to be answered; it fits the
\* window if that is possible, and nothing is dropped that would have fitted.
PromptIsLongestFit ==
    phase = "call" =>
        LET t == Truncate(msgs)
            more == <<Head(msgs)>> \o SubSeq(msgs, Len(msgs) - Len(t) + 1, Len(msgs))
        IN /\ Head(t) = Head(msgs) /\ Last(t) = Last(msgs)
           /\ IsSuffix(Tail(t), Tail(msgs))
           /\ Fits(EstimateChars(t)) \/ Len(t) = 2
           /\ t # msgs => ~Fits(EstimateChars(more))

Holds(s, t) == {r \in (DOMAIN s) \X (1..calls) : \E k \in DOMAIN s[r[1]].parts :
                  s[r[1]].parts[k].type = t /\ s[r[1]].parts[k].id = r[2]}
CallsIn(s)   == Holds(s, "tool_call")
ResultsIn(s) == Holds(s, "tool_result")

CallsAnswered(s) ==
    \A c \in CallsIn(s) : \E r \in ResultsIn(s) : r[2] = c[2] /\ r[1] > c[1]
ResultsCalled(s, others) ==
    \A r \in ResultsIn(s) : \/ r[2] \in others
                            \/ \E c \in CallsIn(s) : c[2] = r[2] /\ c[1] < r[1]

\* The calls of responses that said nothing, and of those whose inputs were not
\* JSON: both are lost, the first on the way to the model, the second in the table.
MuteCalls       == UNION {ToSet(lived[i].called) :
                            i \in {j \in DOMAIN lived : lived[j].said + lived[j].thought = 0}}
UnreadableCalls == UNION {ToSet(lived[i].called) :
                            i \in {j \in DOMAIN lived : ~lived[j].valid}}

\* Whatever was loaded from the table, cut, or lost, in every prompt each call is
\* answered by a later result; and as long as nothing was cut, each result is
\* preceded by its call, but for the two kinds of calls that the code loses.
CallsAndResultsPaired ==
    phase = "reply" =>
        /\ CallsAnswered(prompt)
        /\ ~cut => ResultsCalled(prompt, MuteCalls \cup UnreadableCalls)

OfRole(s, r) == FlattenSeq([i \in DOMAIN s |-> If(s[i].role = r, <<s[i]>>)])

\* The calls of a response that come back, and the responses of which anything
\* does.
Remembered(t) == If(t.valid, t.called)
Spoken(s) == FlattenSeq([i \in DOMAIN s |->
                If(s[i].said + s[i].thought > 0 \/ Remembered(s[i]) # <<>>, <<s[i]>>)])

\* Loading the table gives back what happened: each response's text and thought,
\* its calls unless one of them had an input that is not JSON, and every result,
\* in order, nothing twice and nothing left out, whatever was cut from the
\* model's view and whichever turns failed (and the state is well typed).
HistoryFaithful ==
    LET turns == Spoken(lived)
        at    == OfRole(History(rows), "assistant")
        got   == OfRole(History(rows), "tool")
    IN /\ TranscriptTypeOK
       /\ Len(at) = Len(turns)
       /\ \A i \in DOMAIN at :
            /\ Texts(OfType(at[i].parts, "text")) = turns[i].said
            /\ Texts(OfType(at[i].parts, "reasoning")) = turns[i].thought
            /\ Ids(OfType(at[i].parts, "tool_call")) = Remembered(turns[i])
       /\ FlattenSeq([i \in DOMAIN lived |-> lived[i].got])
            = [i \in DOMAIN got |-> <<Last(got[i].parts).id, Last(got[i].parts).output>>]

\* "We keep the full ContentPart slice (text, tool_call, tool_result) so the
\* runner can reconstruct the full Message that the LLM provider expects":
\* whatever was stored, a result the model is shown has its call before it (the
\* calls that were not stored at all are left to CallsAndResultsPaired).
NoOrphanResults == phase = "reply" /\ ~cut => ResultsCalled(prompt, UnreadableCalls)
=============================================================================
