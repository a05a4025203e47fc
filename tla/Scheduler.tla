------------------------------ MODULE Scheduler ------------------------------
(***************************************************************************)
(* Scheduled tasks: the scheduled_tasks table, the cron entries of the     *)
(* running server, the HTTP handlers that edit both, the jobs the entries  *)
(* start, and "run now".  Every statement on the database is a step, and   *)
(* so is every call that takes Scheduler.mu.                               *)
(*                                                                         *)
(* A task either recurs (cron_expr) or is one-shot (once_at); which, and   *)
(* whether cron can parse its expression, is chosen when it is created.    *)
(* A changed expression is one more entry like any other update's.  Jobs   *)
(* run under context.Background(); "run now" under its request's context.  *)
(***************************************************************************)
EXTENDS Integers, FiniteSets

CONSTANTS
    Tasks,      \* task ids; each is created at most once
    Reqs,       \* create, update and delete requests and tool calls
    Jobs,       \* firings of cron entries and "run now" requests
    MaxStops    \* bound: server stops

ASSUME SchedConstants == MaxStops \in Nat

VARIABLES
    task,       \* scheduled_tasks, by id
    due,        \* per task: once_at has passed
    entries,    \* per task: its entries in cron and in Scheduler.entries
    server,     \* the server and its Scheduler.Run
    restoring,  \* the tasks restore has read and not yet scheduled
    missed,     \* history: tasks the failed restore of this server left out
    req,        \* the requests
    job,        \* the jobs, each with its scheduled_runs row
    successes,  \* history, per task: agent runs that ended well
    overlap,    \* history, per task: two jobs ran at once, or one was cut off
    stops

vars == <<task, due, entries, server, restoring, missed, req, job, successes, overlap,
          stops>>

Task == [born: BOOLEAN, there: BOOLEAN, enabled: BOOLEAN, once: BOOLEAN,
         parses: BOOLEAN, count: Nat]
Unborn == [born |-> FALSE, there |-> FALSE, enabled |-> FALSE, once |-> FALSE,
           parses |-> TRUE, count |-> 0]

\* HTTP requests, and the calls of the tools schedule_task and
\* delete_scheduled_task, whose ToolDeps have no Scheduler (NewRunner).
Kinds   == {"create", "delete", "update", "toolCreate", "toolDelete"}
Creates == {"create", "toolCreate"}

Request == [at: {"idle", "insert", "unschedule", "write", "read", "schedule",
                 "done", "broken", "dead"},
            kind: Kinds, task: Tasks, enabled: {"keep", "on", "off"}]

Job == [at: {"idle", "fired", "due", "opened", "agent", "ok", "bad", "closed",
             "counted", "done", "dead"},
        task: Tasks, once: BOOLEAN, count: Nat, now: BOOLEAN, left: BOOLEAN,
        ended: {"none", "ok", "bad"},
        row: {"none", "running", "success", "failed"}]

InFlight == {"due", "opened", "agent", "ok", "bad", "closed"}

TypeOK ==
    /\ task \in [Tasks -> Task]
    /\ due \in [Tasks -> BOOLEAN]
    /\ entries \in [Tasks -> Nat]
    /\ server \in {"down", "starting", "restoring", "running"}
    /\ restoring \subseteq Tasks
    /\ missed \subseteq Tasks
    /\ req \in [Reqs -> Request]
    /\ job \in [Jobs -> Job]
    /\ successes \in [Tasks -> Nat]
    /\ overlap \in [Tasks -> BOOLEAN]
    /\ stops \in 0..MaxStops

\* The table as an earlier server may have left it.
Stored == {r \in [born: {TRUE}, there: {TRUE}, enabled: BOOLEAN, once: BOOLEAN,
                  parses: BOOLEAN, count: {0}] : r.once => r.parses}

Init ==
    /\ task \in [Tasks -> {Unborn} \cup Stored]
    /\ due = [k \in Tasks |-> FALSE]
    /\ entries = [k \in Tasks |-> 0]
    /\ server = "down"
    /\ restoring = {}
    /\ missed = {}
    /\ \E k \in Tasks :
         /\ req = [q \in Reqs |-> [at |-> "idle", kind |-> "create", task |-> k,
                                   enabled |-> "keep"]]
         /\ job = [j \in Jobs |-> [at |-> "idle", task |-> k, once |-> FALSE,
                                   count |-> 0, now |-> FALSE, left |-> FALSE,
                                   ended |-> "none", row |-> "none"]]
    /\ successes = [k \in Tasks |-> 0]
    /\ overlap = [k \in Tasks |-> FALSE]
    /\ stops = 0

-----------------------------------------------------------------------------
(* The cron entries                                                        *)

\* scheduleTaskLocked on an enabled task: one more entry, unless the
\* expression does not parse (logged).
Scheduled(k) == [entries EXCEPT ![k] = IF task[k].parses THEN @ + 1 ELSE @]

\* UnscheduleTask: removes the first entry it finds.
Unscheduled(k) == [entries EXCEPT ![k] = IF @ > 0 THEN @ - 1 ELSE 0]

-----------------------------------------------------------------------------
(* The server                                                              *)

\* run(): the HTTP server and Scheduler.Run start side by side.
Start ==
    /\ server = "down"
    /\ server' = "starting"
    /\ UNCHANGED <<task, due, entries, restoring, missed, req, job, successes, overlap, stops>>

\* Mutant: restore reads the recurring tasks only.
RestoreRecurring ==
    /\ server = "starting"
    /\ server' = "restoring"
    /\ restoring' = {k \in Tasks : task[k].there /\ task[k].enabled /\ ~task[k].once}
    /\ UNCHANGED <<task, due, entries, missed, req, job, successes, overlap, stops>>

\* restore: GetEnabledScheduledTasks ...
RestoreRead ==
    /\ server = "starting"
    /\ server' = "restoring"
    /\ restoring' = {k \in Tasks : task[k].there /\ task[k].enabled}
    /\ UNCHANGED <<task, due, entries, missed, req, job, successes, overlap, stops>>

\* ... whose error Run logs: cron starts without the tasks of the table.
RestoreFails ==
    /\ server = "starting"
    /\ server' = "restoring"
    /\ missed' = {k \in Tasks : task[k].there /\ task[k].enabled /\ entries[k] = 0}
    /\ UNCHANGED <<task, due, entries, restoring, req, job, successes, overlap, stops>>

\* ... ScheduleTask for each ...
RestoreOne ==
    /\ server = "restoring"
    /\ \E k \in restoring :
         /\ entries' = Scheduled(k)
         /\ restoring' = restoring \ {k}
    /\ UNCHANGED <<task, due, server, missed, req, job, successes, overlap, stops>>

\* ... and cron.Run.
RestoreDone ==
    /\ server = "restoring"
    /\ restoring = {}
    /\ server' = "running"
    /\ UNCHANGED <<task, due, entries, restoring, missed, req, job, successes, overlap, stops>>

Stop ==
    /\ server # "down"
    /\ stops < MaxStops
    /\ stops' = stops + 1
    /\ server' = "down"
    /\ restoring' = {}
    /\ missed' = {}
    /\ entries' = [k \in Tasks |-> 0]
    /\ req' = [q \in Reqs |-> IF req[q].at = "idle" THEN req[q] ELSE [req[q] EXCEPT !.at = "dead"]]
    /\ job' = [j \in Jobs |-> IF job[j].at \in {"idle", "done"} THEN job[j]
                              ELSE [job[j] EXCEPT !.at = "dead"]]
    /\ overlap' = [k \in Tasks |-> overlap[k] \/
                     \E j \in Jobs : job[j].task = k /\ job[j].at \in InFlight]
    /\ UNCHANGED <<task, due, successes>>

\* Time passes once_at.
Tick(k) ==
    /\ task[k].born /\ task[k].once /\ ~due[k]
    /\ due' = [due EXCEPT ![k] = TRUE]
    /\ UNCHANGED <<task, entries, server, restoring, missed, req, job, successes, overlap, stops>>

-----------------------------------------------------------------------------
(* createScheduledTaskHandler, deleteScheduledTaskHandler,                 *)
(* updateScheduledTaskHandler, and the tools                               *)

\* A valid request arrives; an update that disables and a delete call
\* UnscheduleTask first.
Arrive(q) ==
    /\ server # "down"
    /\ req[q].at = "idle"
    /\ \E k \in Tasks, kind \in Kinds, e \in {"keep", "on", "off"} :
         /\ kind \in Creates <=> ~task[k].born
         /\ kind \in Creates => \A p \in Reqs : ~(req[p].at = "insert" /\ req[p].task = k)
         /\ kind # "update" => e = "keep"
         /\ req' = [req EXCEPT ![q] =
              [kind |-> kind, task |-> k, enabled |-> e,
               at |-> CASE kind \in Creates -> "insert"
                        [] kind = "delete" \/ e = "off" -> "unschedule"
                        [] OTHER -> "write"]]
    /\ UNCHANGED <<task, due, entries, server, restoring, missed, job, successes, overlap, stops>>

\* CreateScheduledTask.
Insert(q) ==
    /\ req[q].at = "insert"
    /\ \E once, parses \in BOOLEAN :
         /\ once => parses
         /\ task' = [task EXCEPT ![req[q].task] =
              [born |-> TRUE, there |-> TRUE, enabled |-> TRUE, once |-> once,
               parses |-> parses, count |-> 0]]
    /\ req' = [req EXCEPT ![q].at = IF req[q].kind = "create" THEN "schedule" ELSE "done"]
    /\ UNCHANGED <<due, entries, server, restoring, missed, job, successes, overlap, stops>>

Unschedule(q) ==
    /\ req[q].at = "unschedule"
    /\ entries' = Unscheduled(req[q].task)
    /\ req' = [req EXCEPT ![q].at = "write"]
    /\ UNCHANGED <<task, due, server, restoring, missed, job, successes, overlap, stops>>

\* DeleteScheduledTask or UpdateScheduledTask; neither minds a missing row.
Write(q) ==
    LET k == req[q].task IN
    /\ req[q].at = "write"
    /\ \/ /\ req[q].kind \in {"delete", "toolDelete"}
          /\ task' = [task EXCEPT ![k].there = FALSE]
          /\ req' = [req EXCEPT ![q].at = "done"]
       \/ /\ req[q].kind = "update"
          /\ task' = [task EXCEPT ![k].enabled =
                        CASE req[q].enabled = "on" -> TRUE
                          [] req[q].enabled = "off" -> FALSE
                          [] OTHER -> @]
          /\ req' = [req EXCEPT ![q].at = "read"]
    /\ UNCHANGED <<due, entries, server, restoring, missed, job, successes, overlap, stops>>

\* The write fails (the client has gone): a 500, after the unscheduling.
WriteFails(q) ==
    /\ req[q].at = "write"
    /\ req' = [req EXCEPT ![q].at = "broken"]
    /\ UNCHANGED <<task, due, entries, server, restoring, missed, job, successes, overlap, stops>>

\* GetScheduledTask after an update; an enabled task is scheduled again.
ReadBack(q) ==
    /\ req[q].at = "read"
    /\ req' = [req EXCEPT ![q].at =
         IF task[req[q].task].there /\ task[req[q].task].enabled THEN "schedule" ELSE "done"]
    /\ UNCHANGED <<task, due, entries, server, restoring, missed, job, successes, overlap, stops>>

\* ... unless the read fails.
ReadBackFails(q) ==
    /\ req[q].at = "read"
    /\ req' = [req EXCEPT ![q].at = "broken"]
    /\ UNCHANGED <<task, due, entries, server, restoring, missed, job, successes, overlap, stops>>

\* Scheduler.ScheduleTask with the task as it was read or inserted.
Schedule(q) ==
    /\ req[q].at = "schedule"
    /\ entries' = Scheduled(req[q].task)
    /\ missed' = missed \ {req[q].task}
    /\ req' = [req EXCEPT ![q].at = "done"]
    /\ UNCHANGED <<task, due, server, restoring, job, successes, overlap, stops>>

-----------------------------------------------------------------------------
(* checkAndTrigger, trigger, triggerTask                                   *)

Busy(k) == \E j \in Jobs : job[j].task = k /\ job[j].at \in InFlight

\* An entry fires in a goroutine of its own.
Fire(j) ==
    /\ server = "running"
    /\ job[j].at = "idle"
    /\ \E k \in Tasks : /\ entries[k] > 0
                        /\ job' = [job EXCEPT ![j].at = "fired", ![j].task = k]
    /\ UNCHANGED <<task, due, entries, server, restoring, missed, req, successes, overlap, stops>>

\* GetScheduledTask, and the early returns: gone, disabled, not due.
Check(j) ==
    LET k  == job[j].task
        go == task[k].there /\ task[k].enabled /\ (task[k].once => due[k])
    IN
    /\ job[j].at = "fired"
    /\ job' = [job EXCEPT ![j].at = IF go THEN "due" ELSE "done",
                          ![j].once = task[k].once, ![j].count = task[k].count]
    /\ overlap' = [overlap EXCEPT ![k] = @ \/ (go /\ Busy(k))]
    /\ UNCHANGED <<task, due, entries, server, restoring, missed, req, successes, stops>>

\* runScheduledTaskHandler: neither enabled nor once_at is looked at.
RunNow(j) ==
    /\ server # "down"
    /\ job[j].at = "idle"
    /\ \E k \in Tasks :
         /\ task[k].there
         /\ job' = [job EXCEPT ![j].at = "due", ![j].task = k, ![j].now = TRUE,
                               ![j].once = task[k].once, ![j].count = task[k].count]
         /\ overlap' = [overlap EXCEPT ![k] = @ \/ Busy(k)]
    /\ UNCHANGED <<task, due, entries, server, restoring, missed, req, successes, stops>>

\* The client of a "run now" goes away: its statements fail from here on.
Leave(j) ==
    /\ job[j].now /\ job[j].at \in InFlight /\ ~job[j].left
    /\ job' = [job EXCEPT ![j].left = TRUE]
    /\ UNCHANGED <<task, due, entries, server, restoring, missed, req, successes, overlap, stops>>

\* CreateScheduledRun: fails when the task is gone (foreign key).
OpenRun(j) ==
    /\ job[j].at = "due"
    /\ job' = IF task[job[j].task].there /\ ~job[j].left
                THEN [job EXCEPT ![j].at = "opened", ![j].row = "running"]
                ELSE [job EXCEPT ![j].at = "done"]
    /\ UNCHANGED <<task, due, entries, server, restoring, missed, req, successes, overlap, stops>>

\* The prompt is stored and the session read; an error fails the run.
Prompt(j) ==
    /\ job[j].at = "opened"
    /\ \E ok \in {~job[j].left, FALSE} :
         job' = [job EXCEPT ![j].at = IF ok THEN "agent" ELSE "bad",
                            ![j].ended = IF ok THEN @ ELSE "bad"]
    /\ UNCHANGED <<task, due, entries, server, restoring, missed, req, successes, overlap, stops>>

\* Runner.Run ends.
AgentEnds(j) ==
    /\ job[j].at = "agent"
    /\ \E ok \in {~job[j].left, FALSE} :
         /\ job' = [job EXCEPT ![j].at = IF ok THEN "ok" ELSE "bad",
                               ![j].ended = IF ok THEN "ok" ELSE "bad"]
         /\ successes' = [successes EXCEPT ![job[j].task] = IF ok THEN @ + 1 ELSE @]
    /\ UNCHANGED <<task, due, entries, server, restoring, missed, req, overlap, stops>>

\* Mutant: the run is closed as a success whatever Run returned.
CloseRunAlwaysOk(j) ==
    /\ job[j].at \in {"ok", "bad"}
    /\ job' = [job EXCEPT ![j].at = IF @ = "ok" THEN "closed" ELSE "done",
                          ![j].row = IF job[j].left THEN @ ELSE "success"]
    /\ UNCHANGED <<task, due, entries, server, restoring, missed, req, successes, overlap, stops>>

\* UpdateScheduledRun with the outcome; a failed run ends here.
CloseRun(j) ==
    /\ job[j].at \in {"ok", "bad"}
    /\ job' = [job EXCEPT ![j].at = IF @ = "ok" THEN "closed" ELSE "done",
                          ![j].row = IF job[j].left THEN @
                                     ELSE IF job[j].at = "ok" THEN "success" ELSE "failed"]
    /\ UNCHANGED <<task, due, entries, server, restoring, missed, req, successes, overlap, stops>>

\* Mutant: the counter is incremented twice.
UpdateTaskStatsTwice(j) ==
    LET k == job[j].task IN
    /\ job[j].at = "closed"
    /\ task' = [task EXCEPT ![k].count = IF job[j].left THEN @ ELSE job[j].count + 2]
    /\ overlap' = [overlap EXCEPT ![k] = @ \/ job[j].left]
    /\ job' = [job EXCEPT ![j].at = "counted"]
    /\ UNCHANGED <<due, entries, server, restoring, missed, req, successes, stops>>

\* updateTaskStats: run_count is the count read at the start, plus one.
UpdateTaskStats(j) ==
    LET k == job[j].task IN
    /\ job[j].at = "closed"
    /\ task' = [task EXCEPT ![k].count = IF job[j].left THEN @ ELSE job[j].count + 1]
    /\ overlap' = [overlap EXCEPT ![k] = @ \/ job[j].left]
    /\ job' = [job EXCEPT ![j].at = "counted"]
    /\ UNCHANGED <<due, entries, server, restoring, missed, req, successes, stops>>

\* Mutant: a one-shot task is left enabled.
RetireNot(j) ==
    /\ job[j].at = "counted"
    /\ job' = [job EXCEPT ![j].at = "done"]
    /\ UNCHANGED <<task, due, entries, server, restoring, missed, req, successes, overlap, stops>>

\* checkAndTrigger's end: a one-shot task is disabled; its entry stays.
Retire(j) ==
    /\ job[j].at = "counted"
    /\ task' = [task EXCEPT ![job[j].task].enabled = @ /\ ~(job[j].once /\ ~job[j].now)]
    /\ job' = [job EXCEPT ![j].at = "done"]
    /\ UNCHANGED <<due, entries, server, restoring, missed, req, successes, overlap, stops>>

-----------------------------------------------------------------------------
ReqStep(q) == \/ Insert(q) \/ Unschedule(q) \/ Write(q) \/ WriteFails(q)
              \/ ReadBack(q) \/ ReadBackFails(q) \/ Schedule(q)

JobStep(j) == \/ Check(j) \/ OpenRun(j) \/ Prompt(j) \/ AgentEnds(j)
              \/ CloseRun(j) \/ UpdateTaskStats(j) \/ Retire(j)

\* Every request and every firing the bounds allow has been served.
Served == /\ server = "running"
          /\ \A q \in Reqs : req[q].at \in {"done", "broken", "dead"}
          /\ \A j \in Jobs : job[j].at \in {"idle", "done", "dead"}
          /\ UNCHANGED vars

Next == \/ Start \/ RestoreRead \/ RestoreFails \/ RestoreOne \/ RestoreDone \/ Stop
        \/ \E k \in Tasks : Tick(k)
        \/ \E q \in Reqs : Arrive(q) \/ ReqStep(q)
        \/ \E j \in Jobs : Fire(j) \/ RunNow(j) \/ Leave(j) \/ JobStep(j)
        \/ Served

Spec == Init /\ [][Next]_vars

\* Goroutines run and statements return; the agent's run is taken to end (it
\* does unless a tool waits for a user who is not there).
FairSpec == Spec /\ \A j \in Jobs : WF_vars(JobStep(j))

-----------------------------------------------------------------------------
(* Properties                                                              *)

\* No edit of k is in flight, and none broke off between its two halves.
Settled(k) == \A q \in Reqs : req[q].task = k => req[q].at \in {"idle", "done", "dead"}

Active(k) == task[k].there /\ task[k].enabled /\ task[k].parses

\* Created by schedule_task since the server came up.
ByTool(k) == \E q \in Reqs : /\ req[q].kind = "toolCreate" /\ req[q].task = k
                             /\ req[q].at # "dead"

\* No task is forgotten: every enabled task that cron can parse has an entry
\* once its own edits are over, whatever happens to the other tasks and
\* however creates, updates, deletes and restore interleaved.  Excepted are a
\* task with an edit that broke off between its two halves, a task of
\* schedule_task, and the tasks in the table when restore could not read it,
\* until an update schedules them (and the state is well typed).
EnabledIsScheduled ==
    /\ TypeOK
    /\ server = "running" =>
        \A k \in Tasks :
            Active(k) /\ Settled(k) /\ ~ByTool(k) /\ k \notin missed => entries[k] > 0

\* run_count never exceeds the successful runs, and equals them once the jobs
\* are over if no two ran at the same time and none was cut off.
RunCountSound ==
    \A k \in Tasks :
        /\ task[k].count <= successes[k]
        /\ ~overlap[k] /\ ~Busy(k) => task[k].count = successes[k]

\* A scheduled_runs row agrees with its run: closed as the run ended, and left
\* "running" only while the job lives, its client left or the server stopped.
RunRowsTruthful ==
    \A j \in Jobs :
        /\ job[j].row = "success" => job[j].ended = "ok"
        /\ job[j].row = "failed" => job[j].ended = "bad"
        /\ job[j].row = "running" /\ job[j].at = "done" => job[j].left

\* A one-shot task that has run well is eventually disabled, unless the
\* server stops first.
OneShotRetires ==
    \A j \in Jobs :
        (job[j].once /\ ~job[j].now /\ job[j].at = "ok")
            ~> (~task[job[j].task].enabled \/ job[j].at = "dead")

=============================================================================
