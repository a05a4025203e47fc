# A TLA+ model of kubernetes-agent

kubernetes-agent is a Go server in which a language model reads and changes
Kubernetes clusters on a user's behalf. The user chats; the model calls tools;
every write is planned, shown as a diff, decided by the user and checked against
a policy before it reaches a cluster. Tasks can be scheduled to run the model
without a user. The server is one process with a SQLite database behind a single
connection, one goroutine per HTTP request, one per agent run and one per firing
cron entry.

The modules here model how a write is decided and carried out, the policy that
governs it, the scheduler, the chat turn that all of it happens in, the
conversation it leaves behind, the sessions, and the clients of the clusters. `PROJECT.json` maps
each definition to the source lines it stands for.

## 1. Inventory

| Component | State | Operations | Talks to | Hard part | Correct when |
|---|---|---|---|---|---|
| Plan and question gate (`agent/session.go`, two tools of `agent/tools.go`, `server/handler_resume.go`) | `ResumePlan`, `PlanResult`, `ResumeAsk`, `AskAnswer`, `mu`; the registry entry | publish, `ResetPlan`, `WaitPlan`, `planDecision`; `ConfirmPlan`, `CancelPlan`, `AnswerAsk`; disconnect, drop | agent loop, resume requests, client | requests race the loop between an unlock and a close; a close is a one-time event on a channel that may have been replaced | each plan has a decision and a click of its own, and nobody waits for ever |
| Policy engine (`internal/policy`) | `Engine.Rules` | `Evaluate`, `ReloadPolicies` | plan tools, policy handlers | a plain field read and assigned by different goroutines; first match wins | the decision is the rules' |
| Policy table and handlers (`store/policies.go`, `server/handler_policies.go`) | `policies`, `audit_log` | create, update, delete, toggle, seed | engine | four separate statements per edit, under a context that may end; restarts in the middle | what is stored governs, and what was edited is recorded |
| Plan preview and execution (`tools/k8s/plan_write.go`, `execute_plan.go`, `store/plans.go`, `store/audit.go`) | `plans`, `audit_log`, the cluster | evaluate, dry-run, store; load, evaluate, apply, audit, mark | policy engine, Kubernetes API, gate | policy changes in between; one of several operations fails or loses its answer; no rollback; errors of the bookkeeping are dropped | a deny blocks, and the records tell what reached the cluster |
| Scheduler (`scheduler/scheduler.go`, `server/scheduled.go`, `store/scheduled.go`) | `scheduled_tasks`, `scheduled_runs`, cron entries | restore, (un)schedule, create, update, delete, fire, run now, one-shot retirement | agent loop, tools | three places that must agree, edited in separate steps by handlers, restore and jobs | no enabled task is forgotten; counters and rows are true; a one-shot ends |
| Agent loop and event stream (`agent/agent.go`, `server/handler_chat.go`, `llm/anthropic.go`) | `pendingAssistant`, `pendingToolResults`, retry and step counters; `events` channel of 64, stream channel of 32 | call the model, read its stream, dispatch tools, emit, persist; forward, disconnect | everything above, provider, client | three goroutines over two bounded channels, one blocking send, a client that leaves at any step; a cancelled stream looks ended | what is stored is whole, the prompt gets through, leaving ends the turn |
| Conversation (`agent/agent.go`, `store/messages.go`) | `messages` rows, the transcript in memory, the prompt | load, truncate, filter, persist | database, provider | the same conversation in three forms with a lossy conversion between each pair | the history is what happened; the prompt is the longest that fits; calls and results stay paired |
| Stream splitter (`llm/fantasy.go`) | `inside`, `buf`, `reasoning` | `feed`, `flush` | stream | deltas cut tags anywhere | reasoning and answer are told apart, nothing is lost |
| Sessions and registry (`agent/session.go`, `server/handler_sessions.go`, `store/sessions.go`) | `SessionManager.sessions`; `sessions`, `messages`, `plans`, `scheduled_tasks` | resolve, set, drop; create, rename, delete, bulk delete | chat handler, gate, scheduler | two turns of one session share one entry; check-then-delete in separate statements | a live turn is found, a dead one is not, deletes respect what they looked at |
| Clusters and client cache (`server/handler_clusters.go`, `tools/k8s/client.go`, `resolver.go`) | `clusters`, `cache` under `f.mu`, each Resolver's maps under `r.mu` | `clients`, `Resolve`, `IsNamespaced`, `Invalidate`; create, delete | every Kubernetes tool | builds race invalidations; a double-checked load; one lock held while waiting for another | deleted credentials are not served, one discovery per load, nobody hangs |
| Read tools, LLM adapters, skills, encryption, configuration, HTTP plumbing | none that outlives a call | — | — | — | formatting and I/O |
| Web UI (`src/web`) | the view | sends the requests above | REST, SSE | double clicks, stale views | environment of the gate |

The `hazards` of `PROJECT.json` list what goes wrong in these places, each at its
line, with the property that watches it.

## 2. Modules

| Module | What it models | State ↔ code |
|---|---|---|
| `SessionGate` | the blocking points of one chat turn | `chan`/`closer` = `ResumePlan` and who closed it, `planResult`, `askCloser`, `askAnswer`; `pc` = where `Runner.Run` is inside its tools; `req` = resume requests, split where `s.mu` is released |
| `PlanLedger` | what the gate promises: plans open one by one, each decided once by a request spent on it, or aborted | abstract; refined by `SessionGate` through `PlanStatus` and `Spent` |
| `SessionGateProofs` | the theorems about the two | |
| `PolicyRules` | `Rule`, `Match.matches`, `Evaluate`, `JSONPathGet`, `DefaultRules` as operators | |
| `PolicyStore` | table, engine, edit handlers, seeding, restarts | `rows` = `policies`, `rules` = `Engine.Rules`, `h` = the requests, one step per statement |
| `PolicyStoreProofs` | the theorems about it | |
| `PlanExecution` | turns that plan, wait and execute while the policy is edited, clients leave and the server stops | `rows` = `plans`, `audit` = `audit_log`, `touched` = the cluster, `denied`/`editing` = the engine as these tools see it |
| `PlanExecutionProofs` | the theorems about it | |
| `Scheduler` | table, cron entries, restore, handlers, tools, jobs | `task`, `entries`, `req`, `job` (with its `scheduled_runs` row) |
| `SchedulerProofs` | the theorems about it | |
| `ChatTurn` | one turn: provider stream, `Runner.Run`, events channel, `chatHandler`, client; also a turn the scheduler starts | `stream` = `fantasyStream` (goroutine, channel, error, context), `run` = where `Run` is, `events` = `Runner.Events`, `handler` = where the select loop is |
| `ChatTurnProofs` | the theorems about it | |
| `Transcript` | the conversation as rows, as transcript and as prompt | `rows` = `messages`, `msgs` = `Run`'s slice, `prompt` = what `Client.Chat` gets; texts are their lengths |
| `ThinkSplitter` | `thinkSplitter.feed` and `flush` over every cut of a text | `inside`, `buf`, `reasoning` as in the code; `raw` = `feed`'s working string |
| `ConversationProofs` | the theorems about `Transcript` and `ThinkSplitter` | extends both; the names both would use carry a prefix in `Transcript` |
| `SessionRegistry` | sessions, registry, turns and the requests that rename and delete | `registry` = `SessionManager.sessions`, `row`/`msgs`/`plans`/`bound` = the tables, one step per statement |
| `SessionRegistryProofs` | the theorems about it | |
| `ClientCache` | factory, Resolver, tool calls and cluster requests | `cache`, `fmu` = `f.cache`, `f.mu`; `resolver`, `rmu` = each Resolver's `loaded`, maps and `r.mu`; `row` = `clusters` |
| `ClientCacheProofs` | the theorems about it | |
| `MCGate`, `MCPolicy`, `MCPlan`, `MCScheduler`, `MCTurn`, `MCTranscript`, `MCSplitter`, `MCRegistry`, `MCCache` | instances for TLC | |

`PolicyStore` uses `PolicyRules`. `SessionGate` and `PlanExecution` meet at the
decision: in `PlanExecution` a waiting turn goes on at any time, with whichever of the three
results that `SessionGate`'s `outcome` can take: nothing there depends on which. `ChatTurn` is the loop around the
gate: its `wait` is what `SessionGate` takes apart, and its `Persist` is what
`Transcript` looks into. A turn of `SessionRegistry` is a whole `ChatTurn`, from the
request's arrival to the handler's return.

Abstractions worth knowing:

* `SessionGate` takes an `Emit` as a step that completes; that it may block is
  `ChatTurn`'s subject. A `plan_id` must be present in a resume request but the code compares it with nothing, so it
  is left out. A resume may come at any time of the turn, before a plan or a question
  was published too: the handler asks only whether the session is registered.
* `AnswerAsk` is the only critical section split in two, because `k8s_ask_user`
  reads `AskAnswer` without the lock: a read inside the window gives the old
  answer, the new one, or `Torn`. The unlocked read of `ResumePlan` sees the old
  or the new channel, and both are interleavings of `ClosePlan` with `ResetPlan`.
* In `PolicyStore` an operation has the four things a rule looks at, and a
  manifest the three fields the default rules name. `Engine.Rules` is assigned in
  one step there; what a concurrent `Evaluate` can see meanwhile is
  `PlanExecution`'s `editing` window, in which any verdict is possible.
* In `PlanExecution` an operation is a name, and the cluster is the set of
  operations that took effect. A failed apply may have taken effect (lost answer).
  `rollbackOne` changes nothing, so there is no action for it.
* In `Scheduler` `next_run` and `last_run` are display data and left out. The
  tools `schedule_task` and `delete_scheduled_task` get no `Scheduler` from
  `NewRunner`, so they touch the table only.
* `ChatTurn` has parts instead of tokens: text, a call that returns, a call that asks
  the user. An event is a prompt, an error or any other, because only these are told
  apart. `Client.Chat` gives a stream, an error that is retried or one that is not;
  the backoff is no step of its own.
* In `Transcript` a text, an input and an output are lengths, with 0 for empty: size
  decides what `truncate` drops and emptiness what `toLLMMessages` leaves out. The
  JSON around a stored result is `Wrap` more characters. That a call's input does not
  survive the table is modelled as it is (`ContentToParts`), and so is that one input
  which is empty or not JSON takes all calls of its response out of the table, because
  `persistTurn` drops the error of `json.Marshal` (`StoredCalls`; `valid` says what the
  inputs were, of which an empty one is never JSON). A response makes at most one call.
* In `ThinkSplitter` a tag is a `<` and marks that know their tag: the regular
  expression sees no more. Lengths are scaled down with `HoldMax`, and one tag is
  longer than what is held, as `antthinking` is in the code.
* `SessionRegistry` names a session's title after the request that wrote it, and
  messages and plans after the turn. `scheduled_tasks.session_id` is no foreign key.
* `ClientCache` has one resource, which a discovery lists or misses. A read lock is
  held for a map lookup only, so taking and releasing it is one step. A `Resolver` is
  named after the factory call that built it, so an old one stays in use by the calls
  that hold it.
* `did`, `made`, `exec`, `stood`, `touched`, `successes`, `overlap`,
  `during`, `torn`, `old`, `missed`, `said`, `lived` and the like are history variables (marked so where declared): no guard of an action
  that models code reads them.

Definitions introduced by "Mutant:" are plausible mistakes in one operation. They
are not part of any specification; each exists to be put in the operation's place
and show that a property notices.

## 3. Runs

| Run | Instance | Checks | Shows |
|---|---|---|---|
| `gate` | 2 requests, 2 plans, 2 questions, fairness | `TypeOK OneRequestOnePlan DecisionHasAuthor AnswerPublished ResumeReleases TurnUnwinds LedgerSpec` | decisions belong to their plan, waits end, the gate implements the ledger |
| `gate_cancel` | same | `CancelIsHonoured` — violated | a cancel written before `ResetPlan` and closed after it is read as a confirmation |
| `policy` | 2 edits, 2 stops, 2 user rules, 9 operations | `SerialEditsGovern AuditMatchesTable OnlyToggleSwitches RulesKept` | edits that do not overlap govern, keep flags, are recorded; over stops and restarts a rule stays until an edit takes it out |
| `plan` | 2 turns, 1 plan of up to 2 operations, 2 executions, 1 edit, 1 stop | `TypeOK DenyBlocksPlan AuditTruthful ExecutedMeansApplied ChangesAccounted OnlyPreviewedOpsRun` | a standing deny blocks the whole plan; records are true |
| `sched` | 1 task, 2 requests, 1 job, 1 stop, a restore that may fail, fairness | `EnabledIsScheduled OneShotRetires` | no enabled task without an entry, but for those a failed restore left out; a one-shot ends |
| `sched_runs` | 1 task, 1 request, 2 jobs, 1 stop | `RunCountSound RunRowsTruthful` | counters and rows tell what happened |
| `turn` | channels of 2 and 1, 2 LLM calls, 1 retry, 3 parts, chat and job, fairness | `OnlyWholeResponsesStored StoredCallsAnswered PromptNotLost LeavingEndsTurn` | what is stored is whole and answered, a prompt is not dropped, leaving ends the turn or meets the one known jam |
| `transcript` | 2 turns of 2 LLM calls, 2 sizes, inputs that are JSON or not, a window that a few messages fill | `PromptIsLongestFit CallsAndResultsPaired HistoryFaithful` | loading gives back what happened, the cut is exact, calls are answered whatever was cut, results have their calls but for two kinds the code loses |
| `transcript_orphan` | same | `NoOrphanResults` — violated | a stored response that only called a tool is left out of the next prompt, its result is not |
| `splitter` | every text of up to 5 pieces, every cut | `SplitAsWritten NothingLost` | the cut into deltas does not matter |
| `registry` | 2 sessions, 3 turns, 2 requests, 1 task | `TypeOK LiveTurnFound NoStaleEntry NoOrphanRows DeleteSparesLiveTurns TasksKeepSessions` | the registry names live turns, deletes respect what they saw, nothing outlives a session |
| `cache` | 1 cluster, 2 calls of every kind, 2 requests, fairness | `DeletedNotServed NoFalseFallback SingleFetch CallsReturn` | deleted credentials are out of use, one discovery per load, no hang |

In `PolicyStore`, `Scheduler`, `ChatTurn`, `Transcript`, `ThinkSplitter` and
`ClientCache` the type invariant is a conjunct of one of the invariants checked.

A violated property quotes a sentence of the repository's own documentation or
comments; `findings` names the line. `findings` also lists the disagreements met
while modelling that have no run of their own: the models follow the code there, and
the properties are stated so that they hold with it.

**Why the bounds are enough.** The gate's hazards need a request that straddles
one `ResetPlan` and a second one that competes with it: two requests and two
plans. Policy edits interfere in pairs, and two stops allow a second stop during
the seeding a first one interrupted. Executions interfere through one plan and one
engine, so two turns executing the same plan, with one edit falling anywhere
between load, evaluation and application, contain the cases; two operations are
the least with a proper prefix. Tasks do not share state with each other except
`Scheduler.mu`, so one task is enough; its races are pairs of edits, of jobs, and
each of these with restore. A turn needs a channel that its own token, tool call and
prompt overflow (2), a stream channel that fills (1), a second LLM call, and three
parts, so that text, a call and a second call or a flush can meet. The transcript
needs a second turn that reloads what the first stored, and sizes of which some
combinations fit the window and some do not. Five pieces are two blocks with text
around one. Turns interfere through one registry entry: three allow one to overwrite
and another to drop, beside a second session that must not be touched. Cache entries
of different clusters share only `f.mu`, whose holders the two calls and two requests
on one cluster already contend for. Symmetry is used in safety-only runs and only over
sets whose members no definition tells apart.

**Where a property is conditional.** `SerialEditsGovern` and `OnlyToggleSwitches`
are about edits that do not overlap, because the code guarantees no more
(two reloads may assign in the opposite order of their reads, and the update handler
reads before it writes). `OnlyPreviewedOpsRun`
is about an unchanged policy: the stored plan holds the denied operations too.
`EnabledIsScheduled` speaks of each task whose own edits are over, and excepts one whose
edit broke off between unscheduling and writing, the tasks created by the tool since the
server started, and the tasks that were in the table when `restore` could not read it
(`RestoreFails`: `Run` logs the error and starts cron empty), until an update schedules
them; `missed` names them, so the exception covers no other task.
`RunCountSound` gives equality only for runs that did not overlap.
`RulesKept` excepts, of the default rules, those that a stop in the middle of the
seeding left out (`torn`): the next start finds a row and does not seed.
`ChangesAccounted` speaks of each execution: one that changed the cluster has an audit
row of its own, unless it is still running or its own turn was cut off by its client or
by the server's stop, whose bookkeeping errors the code drops; rows of other executions
of the plan and other turns' disconnects count for nothing.
`OnlyWholeResponsesStored` compares with all that the provider said, the flushed tail
included, and excepts only that tail: one text that the splitter still held at
`message_end` (`anthropic.go:121`).
`CallsAndResultsPaired` says without exception that each call the model is shown is
answered by a later result. That each result follows its call it says of turns in which
`truncate` dropped nothing, which it does by size alone, and not of two kinds of calls:
those of responses that said nothing, which `transcript_orphan` shows, and those of
responses with an input that is empty or not JSON, which the table does not keep
(`agent.go:480`). `HistoryFaithful` excepts the latter calls, and nothing else of
those responses. `SplitAsWritten` is about tags short enough to be held and
properly paired; `NothingLost` is about all texts. `LiveTurnFound` and
`DeleteSparesLiveTurns` except turns that shared their session, because the registry
has one entry per session; `DeleteSparesLiveTurns` also excepts the bulk delete, which
does not ask the registry. `LeavingEndsTurn` excepts `Wedged`: the handler waits for the
runner, and the runner is in a send on a full channel that only the handler would
read. Each exception is a behaviour of the code, listed in
`hazards` or `findings`.

**Fairness.** `SessionGate!FairSpec`: the agent loop and the resume handlers are
goroutines, and the Go scheduler runs a runnable goroutine; the stream of a model
call ends or fails (it has a context and retries are bounded); a handler whose run
has returned returns. Nothing makes a user answer or leave, so a plan may wait for
ever while its client stays. `Scheduler!FairSpec`: a job's goroutine runs and its
statements return; its agent run is taken to end, which it does unless a tool in
it waits for a user who is not there. `ChatTurn!FairSpec`: handler and runner are
goroutines, the provider's stream ends, and net/http notices a client that is gone;
nobody has to answer or to leave. `ClientCache!FairSpec`: goroutines run, a free mutex
goes to a waiter, and a discovery query ends because client-go gives it a timeout;
nobody has to start a call or a request. No fairness on requests, firings, clock or
server.

## 4. Proofs

`SessionGateProofs` proves, for any set of requests and any number of plans and
questions (assumption `GateConstants`: the marks `NoReq`, `Torn`, `"none"` and
`"aborted"` are not requests, the bounds are naturals):

* `GateTypeOK`, `GateOneRequestOnePlan`, `GateDecisionHasAuthor`,
  `GateAnswerPublished` — the safety invariants of run `gate`;
* `GateImplementsLedger` — `Spec => LedgerSpec`.

None of the invariants is inductive alone. `GateInv` adds to `TypeOK`:

* `LoopInv` — where the loop is tells which plans have an outcome and which
  channel is in place: the channel lags behind the plan only between publishing
  and `ResetPlan`;
* `CloserInv` — a channel's closer is a plan request answered 204, and two
  channels have different closers: a request closes once, because closing is its
  last step;
* `DecidedInv`, `ResultInv`, `AuthorInv` — a decided plan's channel is closed; a
  non-empty `PlanResult` was written by a request while the present channel was in
  place; and a decision keeps the request that authored it.

`AgentKeeps` and `ResumeKeeps` show that each action keeps each part, `GateStep`
combines them. The refinement maps a step to `Open`, `Decide`, `Abort` or a
stutter: `PublishPlan` opens because every earlier plan has an outcome (`LoopInv`),
and `PlanDecision` decides with a request not yet spent because closers differ
(`CloserInv`). `GateAnswerPublished` has an invariant of its own: `AskInv`, that
`ResumeAsk` is closed only after an answer was written and that a request past its
write is not the one writing, and `AnswerInv`, what each question got.

`PlanExecutionProofs` proves all six properties of run `plan` for any sets of turns
and operations and any bounds (assumption `PlanConstants`: the bounds are naturals).
`PlanInv` adds to them:

* `RowInv`, `OwnInv` — a plan being made is stored by no one and owned by one turn, so
  `CreatePlan` overwrites no row that was executed or audited; a plan being executed
  is the row as it was loaded;
* `ProgressInv` — the operations evaluated so far are not among those that have stood
  denied since the load (they would have to have passed in an edit window, which
  ends their standing), and what an execution has done is the prefix `1..(i - 1)`, all
  of it in the cluster;
* `ExecInv` — each execution has a number of its own, and what is recorded for a running
  one (`made`) is what its turn has done (`did`);
* `TouchedInv`, `AccountInv` — the cluster holds operations of the plan only, and the
  audit row of each execution is there, or still to come from the turn it belongs to;
* `CalmInv` — without edits and stops, an operation stored without a diff is denied,
  and one that is denied does not get past the second evaluation.

One lemma per part shows that every action keeps it; TLC checked the parts on the
instance of run `plan` first.

`SessionRegistryProofs` proves all six properties of run `registry` for any sets of
sessions, turns, requests and tasks (assumption `RegistryConstants`: `None` is not one
of them). Its `IInv` adds to them:

* `SharedSound` — turns that run side by side in one session are all known as shared:
  whoever's entry a `Set` or a `Drop` removes belonged to a turn that `LiveTurnFound`
  excepts;
* `ReqSound` — a DELETE past its `Lookup` saw only shared turns (a turn alone would
  have been in the registry, by `LiveTurnFound`), and past its count it saw no task;
* `EndsSound` — a request that deleted rows is done, so what it saw does not change
  after the fact.

`ClientCacheProofs` proves the three invariants of run `cache` for any sets of clusters,
calls and requests (assumption `CacheAssumption`: `None` is none of them, and no call is
a request, so a lock has one kind of holder). `IInv` adds to them:

* `Progress` — what a call has done when it stands where it stands: a tool that
  resolves a name has its Resolver, and asks for no other afterwards;
* `ReqSound`, `Deletion` — why nothing comes back after a DELETE: the row is gone before
  `Invalidate` takes `f.mu`, so once it holds the mutex no build that read the row is
  under way, and every later build finds no row;
* `ResolverSound` — the double-checked load: whoever queries under `r.mu` found the flag
  down there, and a loaded map without the resource comes from a discovery that missed it.

`SchedulerProofs` proves the three invariants of runs `sched` and `sched_runs` for any
number of tasks, requests, jobs and stops (assumption `SchedConstants`). `IInv` adds:

* `Covered` — what keeps an enabled task from being forgotten while edits are under way:
  its entry, the restore that will make one or that failed (`missed`), or a request
  (`Holds`) that has yet to come to its `ScheduleTask` or its statement.
  `EnabledIsScheduled` is what is left of it once the edits of the task are over;
* `Counting`, `Created` — the counter in the row, the one a job read and the runs that
  ended well, at each point of a job; a task not yet inserted has neither;
* `ReqSound`, `RowSound` — where a request can stand, and the run row at each point of a
  job.

`ChatTurnProofs` proves the three invariants of run `turn` for channels of any capacity,
any step limit and number of retries, and any number of parts (assumption
`TurnConstants`: capacities and step limit are positive). `IInv` adds:

* `WholeSound` — a response is in two places, what `consumeStream` has read and what is
  in the stream's channel. Together they are what the provider said up to its message
  end, which at most one flushed text follows; `said` also records what the goroutine
  gave up when the context ended. A channel that was
  closed without a message end means the provider's own end or a context that is done;
  and under a done context `persistTurn`'s transaction fails. This is why an `io.EOF`
  that is really a cancellation stores nothing;
* `Numbered`, `Answering` — the order of the parts, and that the results so far answer
  exactly the calls read so far;
* `LoopSound`, `Prompted` — what each place of the loop implies, and where the prompt of
  a waiting tool is.

`PolicyStoreProofs` proves the three invariants and the action property of run
`policy` for any handlers, user rules, operations and stops (assumption
`PolicyConstants`: the name order is a sequence that names every rule). Its first part is
about `ORDER BY name`: `EnabledByName` holds each enabled row once and in order, and the
first match of `Evaluate` on it is the table's decision (`ListGoverns`). `IInv` adds to
`TypeOK`:

* `Alone`, `Fresh` — the handlers hold no lock; what one has read is known to be current
  only while no other request overlapped it;
* `Current` — the engine has the table's rules once every edit of this boot is reloaded;
* `Phases`, `Unserved` — a handler's steps, and that no request outlives its server,
  which is what the restarts rest on.

`RulesKept` has an invariant of its own, `KInv`, on top of `IInv`: a handler takes a rule
out only with the statement that commits its edit (`NoneTaken`); while the server seeds,
the table is the default rules inserted so far (`Seeding`), which is why no insert meets a
taken name; a table that is not empty was seeded in full or its seeding was torn
(`SeededOrTorn`); and what has entered is in the table or was taken out (`Kept`). Rules
that were seeded before a stop are found again because the next start counts rows first.

`ConversationProofs` proves both properties of run `splitter` for texts of any length,
any set of tags, any cut into deltas and any limit on what is held (assumption
`SplitterConstants`: a tag has at least two characters, and `"none"` names no tag).
`NothingLost` is a count. `SplitAsWritten` is about the end of the stream; before it,
`Reading` says that the splitter stands between two pieces of the text: what is unread is
a `Window`, the delivered characters from the beginning of a piece on, and what was read
is split as it should be. Three facts keep it so: the first tag found in a window is the
first tag of the text there (`FirstTag`); where none is found, every piece that has
arrived whole is plain (`PlainUntil`); and the cut in front of the last `<` never falls
into a tag whose beginning can be held (`HeldTag`).

The same module proves the three invariants of run `transcript` for any lengths of texts,
inputs and outputs, any window, and any number of turns and steps (assumption
`TranscriptConstants`: lengths are positive, 0 being empty; what the JSON of a result adds
to it is positive; a turn has at least one step). The two share a module because both rest
on the laws of `FlattenSeq`; `Transcript`'s theorems use nothing else of the splitter's.

* The filters (`OfType`, `OfRole`, `Spoken`, `ToLLMMessages`) and the load (`History`) go
  over a list element by element, so each of one list after another is one result after
  the other, and each of a list of one is a case distinction (`KeptConcat`, `KeptOne`,
  `HistoryConcat`, ...); `SizeOf` and `EstimateChars` add up in the same way (`SumOf`).
* `PromptIsLongestFit` needs no more of the state than that a transcript about to be shown
  has two messages: `TruncateSound` says that `truncate` drops a number of messages after
  the first, never the last, that what is left fits or has two, and that with one dropped
  message more it would not have fitted.
* `TranscriptInv` is the inductive invariant of the other two. `Keeps` says that the rows,
  loaded, tell what was lived (`Tale`) and are paired but for the calls that are lost
  (`LostIn`); it holds of the rows of one response (`SaidKept`, `CalledKept`) and of rows
  after rows (`KeepsConcat`), because `persistTurn` stores a call with its result, or the
  result alone. `Paired(s, X)` says that in `s` every call has a later result, and every
  result an earlier call unless it is in `X`; it speaks of all call numbers, so pairs stay
  pairs when lists are joined.
  `PairedSoFar` says it of the transcript in memory, with `Excused` for `X`: the lost calls
  until something is cut, all calls from then on. A turn begins with the loaded history or
  with none, and a call and its result are appended together (`PairedMore`). A cut takes
  messages from the front, so a call that is left keeps the result behind it
  (`AfterPaired`, `PairedRest`).
  `CallsCounted` bounds the calls by the steps, for the type invariant.

**Induction over data.** Three of these arguments are inductions: every place of the name
order is taken, `FlattenSeq` of a list of any length, and the sum of one (`Total`, a
`FoldLeft`). The library's induction theorems
take an operator, which the provers cannot instantiate; `SetInduction` states induction
for a set of naturals and follows from the well-foundedness of `<`. With it the recursive
function inside `FlattenSeq` is shown to exist and to be unique (`ConcatsExist`,
`ConcatsUnique`), which gives the law the rest uses, `FlattenAppend`; the sums are treated
alike (`SumsExist`, `TotalAppend`). `Transcript` writes its filters as `FlattenSeq` of
what is kept of each element, which is what the loops do, and not with `SelectSeq`, about
which the library has no facts.

The inductive invariants were checked by TLC on small instances before they were proved.

**Only model-checked.** All liveness (`ResumeReleases`, `TurnUnwinds`, `OneShotRetires`,
`LeavingEndsTurn`, `CallsReturn`), which is outside the prover's reach. Every safety
property that a passing run checks is also a theorem.

## 5. Not modelled

* Read tools beyond their use of the client cache, LLM adapters beyond the stream and
  its splitter, skills, encryption, configuration, logging, routing, export, listing
  and static files: no state between calls, nothing to interleave.
* `Migrate`: at start, before anything else runs, one transaction per version that
  holds the statements and the version's row: nothing in between can be seen.
* The UI's own state: its requests are the environment of the modules.
* Texts (summaries, risk, diffs, prompts, error messages) and token counts.
* `next_run` and `last_run` of tasks: display data.
* `Engine.Rules` as a Go slice header written in parts is covered by the `editing`
  window of `PlanExecution`, not bit by bit.
* A user of a scheduled run: there is none, and a job that asks waits for ever.
  `ChatTurn` shows the state it stops in; no property claims otherwise.

## 6. Plan

1. Done: all modules of section 2, and the proofs of every safety and action property.
2. Next: a composition of `SessionGate` and `ChatTurn`, so that the wait of the one is
   the gate of the other in a single state space, and the Web UI's view as a module
   instead of an environment.
