--------------------------- MODULE SchedulerProofs ---------------------------
(***************************************************************************)
(* The invariants of Scheduler, for any number of tasks, requests, jobs    *)
(* and server stops.                                                       *)
(*                                                                         *)
(* EnabledIsScheduled is about quiet states only; Covered says what keeps  *)
(* an enabled task from being forgotten in between: its entry, the restore *)
(* that is about to make one (or that failed), or the request that has not *)
(* come to its ScheduleTask or to its statement yet.  RunCountSound needs Counting,    *)
(* the three counters (the row's, the one a job read, the runs that ended  *)
(* well) at each point of a job, and Created, that a task which is not yet *)
(* inserted has neither runs nor jobs.  RunRowsTruthful needs RowSound,    *)
(* the run row at each point of a job.                                     *)
(***************************************************************************)
EXTENDS Scheduler, TLAPS

\* A request stands where its kind can be.
ReqSound ==
    \A q \in Reqs :
        /\ req[q].at = "idle" => req[q].kind = "create"
        /\ req[q].at = "insert" => req[q].kind \in Creates
        /\ req[q].at = "unschedule" =>
             req[q].kind = "delete" \/ (req[q].kind = "update" /\ req[q].enabled = "off")
        /\ req[q].at = "write" => req[q].kind \notin Creates

\* Request q will yet give task k its entry, or take it out of use, or broke
\* off half way.
Holds(q, k) ==
    /\ req[q].task = k
    /\ \/ req[q].at \in {"read", "schedule", "broken"}
       \/ /\ req[q].at = "write"
          /\ req[q].kind \in {"delete", "toolDelete"} \/ req[q].enabled = "off"

\* What keeps an enabled task from being forgotten.
Covered ==
    /\ server = "running" => restoring = {}
    /\ \A k \in Tasks :
         Active(k) => \/ server \in {"down", "starting"}
                      \/ k \in restoring \cup missed
                      \/ entries[k] > 0
                      \/ ByTool(k)
                      \/ \E q \in Reqs : Holds(q, k)

\* A task is inserted once, by one request, and has no runs before.
Created ==
    /\ \A k \in Tasks : ~task[k].born =>
         ~task[k].there /\ task[k].count = 0 /\ successes[k] = 0
    /\ \A q \in Reqs : req[q].at = "insert" => ~task[req[q].task].born
    /\ \A p, q \in Reqs :
         req[p].at = "insert" /\ req[q].at = "insert" /\ req[p].task = req[q].task
           => p = q
    /\ \A j \in Jobs : job[j].at \in InFlight => task[job[j].task].born

\* The counters at each point of a job.
Counting ==
    /\ \A j \in Jobs :
         LET k == job[j].task IN
         /\ job[j].at \in InFlight => job[j].count <= successes[k]
         /\ job[j].at \in {"ok", "closed"} => job[j].count + 1 <= successes[k]
         /\ job[j].at \in InFlight /\ ~overlap[k] =>
              /\ task[k].count = job[j].count
              /\ successes[k] = IF job[j].at \in {"ok", "closed"}
                                THEN job[j].count + 1 ELSE job[j].count
    /\ \A i, j \in Jobs :
         job[i].at \in InFlight /\ job[j].at \in InFlight
           /\ job[i].task = job[j].task /\ ~overlap[job[i].task] => i = j

\* The run row at each point of a job.
RowSound ==
    \A j \in Jobs :
        /\ job[j].at \in {"idle", "fired", "due"} => job[j].row = "none"
        /\ job[j].at \in {"opened", "agent", "ok", "bad"} => job[j].row = "running"
        /\ job[j].at \in {"closed", "counted", "done"} /\ job[j].row = "running"
             => job[j].left
        /\ job[j].at = "ok" => job[j].ended = "ok"
        /\ job[j].at = "bad" => job[j].ended = "bad"

IInv == /\ TypeOK /\ ReqSound /\ Covered /\ Created /\ Counting /\ RowSound
        /\ RunCountSound /\ RunRowsTruthful

-----------------------------------------------------------------------------
(* What each step of a job does to the jobs                                *)

OthersKept(j) == \A i \in Jobs : i # j => job'[i] = job[i]

JobAt == {"idle", "fired", "due", "opened", "agent", "ok", "bad", "closed",
          "counted", "done", "dead"}

RunRow == {"none", "running", "success", "failed"}

LEMMA JobUpdate ==
  ASSUME TypeOK, NEW j \in Jobs, NEW new \in Job, job' = [job EXCEPT ![j] = new]
  PROVE  job' \in [Jobs -> Job] /\ job'[j] = new /\ OthersKept(j)
  BY DEF TypeOK, OthersKept

LEMMA FireJob ==
  ASSUME TypeOK, NEW j \in Jobs, Fire(j)
  PROVE  /\ job' \in [Jobs -> Job] /\ OthersKept(j)
         /\ job[j].at = "idle" /\ job'[j].at = "fired"
         /\ job'[j].left = job[j].left /\ job'[j].ended = job[j].ended
         /\ job'[j].row = job[j].row
<1>1. PICK k \in Tasks : job' = [job EXCEPT ![j].at = "fired", ![j].task = k]
  BY DEF Fire
<1>2. job[j].at = "idle" /\ "fired" \in JobAt
  BY DEF Fire, JobAt
<1> DEFINE o == job[j]
           new == [o EXCEPT !.at = "fired", !.task = k]
<1>3. o \in Job /\ job' = [job EXCEPT ![j] = new]
  BY <1>1 DEF TypeOK
<1> HIDE DEF o
<1>4. /\ new \in Job
      /\ new.at = "fired" /\ new.task = k /\ new.once = o.once
      /\ new.count = o.count /\ new.now = o.now /\ new.left = o.left
      /\ new.ended = o.ended /\ new.row = o.row
  BY <1>3, <1>2 DEF Job, JobAt, RunRow
<1> HIDE DEF new
<1>5. job' \in [Jobs -> Job] /\ job'[j] = new /\ OthersKept(j)
  BY <1>3, <1>4, JobUpdate
<1> QED
  BY <1>2, <1>4, <1>5 DEF o

LEMMA CheckJob ==
  ASSUME TypeOK, NEW j \in Jobs, Check(j)
  PROVE  LET k == job[j].task IN
         /\ job' \in [Jobs -> Job] /\ OthersKept(j)
         /\ job[j].at = "fired" /\ job'[j].at \in {"due", "done"}
         /\ job'[j].task = k /\ job'[j].count = task[k].count
         /\ job'[j].left = job[j].left /\ job'[j].ended = job[j].ended
         /\ job'[j].row = job[j].row
         /\ job'[j].at = "due" => task[k].there
<1> DEFINE k == job[j].task
           go == task[k].there /\ task[k].enabled /\ (task[k].once => due[k])
           a == IF go THEN "due" ELSE "done"
<1>1. job' = [job EXCEPT ![j].at = a, ![j].once = task[k].once, ![j].count = task[k].count]
  BY DEF Check
<1>2. job[j].at = "fired" /\ a \in JobAt /\ a \in {"due", "done"} /\ k \in Tasks
  BY DEF TypeOK, Check, JobAt, Job
<1>3. a = "due" => task[k].there
  OBVIOUS
<1>4. task[k].once \in BOOLEAN /\ task[k].count \in Nat
  BY <1>2 DEF TypeOK, Task
<1> HIDE DEF a
<1> DEFINE o == job[j]
           new == [o EXCEPT !.at = a, !.once = task[k].once, !.count = task[k].count]
<1>5. o \in Job /\ job' = [job EXCEPT ![j] = new]
  BY <1>1 DEF TypeOK
<1> HIDE DEF o
<1>6. /\ new \in Job
      /\ new.at = a /\ new.task = o.task /\ new.once = task[k].once
      /\ new.count = task[k].count /\ new.now = o.now /\ new.left = o.left
      /\ new.ended = o.ended /\ new.row = o.row
  BY <1>5, <1>2, <1>4 DEF Job, JobAt, RunRow
<1> HIDE DEF new
<1>7. job' \in [Jobs -> Job] /\ job'[j] = new /\ OthersKept(j)
  BY <1>5, <1>6, JobUpdate
<1> QED
  BY <1>2, <1>3, <1>6, <1>7 DEF o

LEMMA RunNowJob ==
  ASSUME TypeOK, NEW j \in Jobs, RunNow(j)
  PROVE  LET k == job'[j].task IN
         /\ job' \in [Jobs -> Job] /\ OthersKept(j)
         /\ job[j].at = "idle" /\ job'[j].at = "due"
         /\ k \in Tasks /\ task[k].there /\ job'[j].count = task[k].count
         /\ job'[j].left = job[j].left /\ job'[j].ended = job[j].ended
         /\ job'[j].row = job[j].row
         /\ overlap' = [overlap EXCEPT ![k] = @ \/ Busy(k)]
<1>1. PICK k \in Tasks :
        /\ task[k].there
        /\ job' = [job EXCEPT ![j].at = "due", ![j].task = k, ![j].now = TRUE,
                              ![j].once = task[k].once, ![j].count = task[k].count]
        /\ overlap' = [overlap EXCEPT ![k] = @ \/ Busy(k)]
  BY DEF RunNow
<1>2. job[j].at = "idle" /\ "due" \in JobAt
  BY DEF RunNow, JobAt
<1>3. task[k].once \in BOOLEAN /\ task[k].count \in Nat
  BY DEF TypeOK, Task
<1> DEFINE o == job[j]
           new == [o EXCEPT !.at = "due", !.task = k, !.once = task[k].once, !.count = task[k].count, !.now = TRUE]
<1>4. o \in Job /\ job' = [job EXCEPT ![j] = new]
  BY <1>1 DEF TypeOK
<1> HIDE DEF o
<1>5. /\ new \in Job
      /\ new.at = "due" /\ new.task = k /\ new.once = task[k].once
      /\ new.count = task[k].count /\ new.now = TRUE /\ new.left = o.left
      /\ new.ended = o.ended /\ new.row = o.row
  BY <1>4, <1>2, <1>3 DEF Job, JobAt, RunRow
<1> HIDE DEF new
<1>6. job' \in [Jobs -> Job] /\ job'[j] = new /\ OthersKept(j)
  BY <1>4, <1>5, JobUpdate
<1> QED
  BY <1>1, <1>2, <1>5, <1>6 DEF o

LEMMA LeaveJob ==
  ASSUME TypeOK, NEW j \in Jobs, Leave(j)
  PROVE  /\ job' \in [Jobs -> Job] /\ OthersKept(j)
         /\ job'[j].at = job[j].at /\ job'[j].task = job[j].task
         /\ job'[j].count = job[j].count
         /\ job'[j].left /\ job'[j].ended = job[j].ended
         /\ job'[j].row = job[j].row
<1> DEFINE o == job[j]
           new == [o EXCEPT !.left = TRUE]
<1>1. o \in Job /\ job' = [job EXCEPT ![j] = new]
  BY DEF TypeOK, Leave
<1> HIDE DEF o
<1>2. /\ new \in Job
      /\ new.at = o.at /\ new.task = o.task /\ new.count = o.count
      /\ new.left /\ new.ended = o.ended /\ new.row = o.row
  BY <1>1 DEF Job
<1> HIDE DEF new
<1>3. job' \in [Jobs -> Job] /\ job'[j] = new /\ OthersKept(j)
  BY <1>1, <1>2, JobUpdate
<1> QED
  BY <1>2, <1>3 DEF o

LEMMA OpenRunJob ==
  ASSUME TypeOK, NEW j \in Jobs, OpenRun(j)
  PROVE  /\ job' \in [Jobs -> Job] /\ OthersKept(j)
         /\ job[j].at = "due" /\ job'[j].task = job[j].task
         /\ job'[j].count = job[j].count
         /\ job'[j].left = job[j].left /\ job'[j].ended = job[j].ended
         /\ \/ job'[j].at = "opened" /\ job'[j].row = "running"
            \/ job'[j].at = "done" /\ job'[j].row = job[j].row
<1>1. /\ job[j].at = "due" /\ "opened" \in JobAt /\ "done" \in JobAt
      /\ job[j].row \in RunRow /\ "running" \in RunRow
  BY DEF TypeOK, OpenRun, JobAt, RunRow, Job
<1>2. CASE job' = [job EXCEPT ![j].at = "opened", ![j].row = "running"]
  <2> DEFINE o == job[j]
             new == [o EXCEPT !.at = "opened", !.row = "running"]
  <2>1. o \in Job /\ job' = [job EXCEPT ![j] = new]
    BY <1>2 DEF TypeOK
  <2> HIDE DEF o
  <2>2. /\ new \in Job
        /\ new.at = "opened" /\ new.task = o.task /\ new.once = o.once
        /\ new.count = o.count /\ new.now = o.now /\ new.left = o.left
        /\ new.ended = o.ended /\ new.row = "running"
    BY <2>1, <1>1 DEF Job, JobAt, RunRow
  <2> HIDE DEF new
  <2>3. job' \in [Jobs -> Job] /\ job'[j] = new /\ OthersKept(j)
    BY <2>1, <2>2, JobUpdate
  <2> QED
    BY <1>1, <2>2, <2>3 DEF o
<1>3. CASE job' = [job EXCEPT ![j].at = "done"]
  BY <1>1, <1>3 DEF TypeOK, Job, OthersKept
<1> QED
  BY <1>2, <1>3 DEF OpenRun

LEMMA PromptJob ==
  ASSUME TypeOK, NEW j \in Jobs, Prompt(j)
  PROVE  /\ job' \in [Jobs -> Job] /\ OthersKept(j)
         /\ job[j].at = "opened" /\ job'[j].task = job[j].task
         /\ job'[j].count = job[j].count
         /\ job'[j].left = job[j].left /\ job'[j].row = job[j].row
         /\ \/ job'[j].at = "agent"
            \/ job'[j].at = "bad" /\ job'[j].ended = "bad"
<1>1. /\ job[j].at = "opened" /\ "agent" \in JobAt /\ "bad" \in JobAt
      /\ job[j].ended \in {"none", "ok", "bad"}
  BY DEF TypeOK, Prompt, JobAt, Job
<1>2. PICK ok \in {~job[j].left, FALSE} :
        job' = [job EXCEPT ![j].at = IF ok THEN "agent" ELSE "bad",
                           ![j].ended = IF ok THEN @ ELSE "bad"]
  BY DEF Prompt
<1>3. CASE ok
  <2> DEFINE o == job[j]
             new == [o EXCEPT !.at = "agent", !.ended = o.ended]
  <2>1. o \in Job /\ job' = [job EXCEPT ![j] = new]
    BY <1>2, <1>3 DEF TypeOK
  <2> HIDE DEF o
  <2>2. /\ new \in Job
        /\ new.at = "agent" /\ new.task = o.task /\ new.once = o.once
        /\ new.count = o.count /\ new.now = o.now /\ new.left = o.left
        /\ new.ended = o.ended /\ new.row = o.row
    BY <2>1, <1>1 DEF Job, JobAt, RunRow
  <2> HIDE DEF new
  <2>3. job' \in [Jobs -> Job] /\ job'[j] = new /\ OthersKept(j)
    BY <2>1, <2>2, JobUpdate
  <2> QED
    BY <1>1, <2>2, <2>3 DEF o
<1>4. CASE ~ok
  <2> DEFINE o == job[j]
             new == [o EXCEPT !.at = "bad", !.ended = "bad"]
  <2>1. o \in Job /\ job' = [job EXCEPT ![j] = new]
    BY <1>2, <1>4 DEF TypeOK
  <2> HIDE DEF o
  <2>2. /\ new \in Job
        /\ new.at = "bad" /\ new.task = o.task /\ new.once = o.once
        /\ new.count = o.count /\ new.now = o.now /\ new.left = o.left
        /\ new.ended = "bad" /\ new.row = o.row
    BY <2>1, <1>1 DEF Job, JobAt, RunRow
  <2> HIDE DEF new
  <2>3. job' \in [Jobs -> Job] /\ job'[j] = new /\ OthersKept(j)
    BY <2>1, <2>2, JobUpdate
  <2> QED
    BY <1>1, <2>2, <2>3 DEF o
<1> QED
  BY <1>3, <1>4

LEMMA AgentEndsJob ==
  ASSUME TypeOK, NEW j \in Jobs, AgentEnds(j)
  PROVE  LET k == job[j].task IN
         /\ job' \in [Jobs -> Job] /\ OthersKept(j)
         /\ job[j].at = "agent" /\ job'[j].task = k
         /\ job'[j].count = job[j].count
         /\ job'[j].left = job[j].left /\ job'[j].row = job[j].row
         /\ \/ /\ job'[j].at = "ok" /\ job'[j].ended = "ok"
               /\ successes' = [successes EXCEPT ![k] = @ + 1]
            \/ /\ job'[j].at = "bad" /\ job'[j].ended = "bad"
               /\ successes' = successes
<1> DEFINE k == job[j].task
<1>1. /\ job[j].at = "agent" /\ "ok" \in JobAt /\ "bad" \in JobAt
      /\ successes \in [Tasks -> Nat] /\ k \in Tasks
  BY DEF TypeOK, AgentEnds, JobAt, Job
<1>2. PICK ok \in {~job[j].left, FALSE} :
        /\ job' = [job EXCEPT ![j].at = IF ok THEN "ok" ELSE "bad",
                              ![j].ended = IF ok THEN "ok" ELSE "bad"]
        /\ successes' = [successes EXCEPT ![k] = IF ok THEN @ + 1 ELSE @]
  BY DEF AgentEnds
<1>3. CASE ok
  <2> DEFINE o == job[j]
             new == [o EXCEPT !.at = "ok", !.ended = "ok"]
  <2>1. o \in Job /\ job' = [job EXCEPT ![j] = new]
    BY <1>2, <1>3 DEF TypeOK
  <2> HIDE DEF o
  <2>2. /\ new \in Job
        /\ new.at = "ok" /\ new.task = o.task /\ new.once = o.once
        /\ new.count = o.count /\ new.now = o.now /\ new.left = o.left
        /\ new.ended = "ok" /\ new.row = o.row
    BY <2>1, <1>1 DEF Job, JobAt, RunRow
  <2> HIDE DEF new
  <2>3. job' \in [Jobs -> Job] /\ job'[j] = new /\ OthersKept(j)
    BY <2>1, <2>2, JobUpdate
  <2>4. successes' = [successes EXCEPT ![k] = @ + 1]
    BY <1>2, <1>3
  <2> QED
    BY <1>1, <2>2, <2>3, <2>4 DEF o
<1>4. CASE ~ok
  <2> DEFINE o == job[j]
             new == [o EXCEPT !.at = "bad", !.ended = "bad"]
  <2>1. o \in Job /\ job' = [job EXCEPT ![j] = new]
    BY <1>2, <1>4 DEF TypeOK
  <2> HIDE DEF o
  <2>2. /\ new \in Job
        /\ new.at = "bad" /\ new.task = o.task /\ new.once = o.once
        /\ new.count = o.count /\ new.now = o.now /\ new.left = o.left
        /\ new.ended = "bad" /\ new.row = o.row
    BY <2>1, <1>1 DEF Job, JobAt, RunRow
  <2> HIDE DEF new
  <2>3. job' \in [Jobs -> Job] /\ job'[j] = new /\ OthersKept(j)
    BY <2>1, <2>2, JobUpdate
  <2>4. successes' = successes
    BY <1>1, <1>2, <1>4
  <2> QED
    BY <1>1, <2>2, <2>3, <2>4 DEF o
<1> QED
  BY <1>3, <1>4

LEMMA CloseRunJob ==
  ASSUME TypeOK, NEW j \in Jobs, CloseRun(j)
  PROVE  /\ job' \in [Jobs -> Job] /\ OthersKept(j)
         /\ job'[j].task = job[j].task /\ job'[j].count = job[j].count
         /\ job'[j].left = job[j].left /\ job'[j].ended = job[j].ended
         /\ \/ /\ job[j].at = "ok" /\ job'[j].at = "closed"
               /\ job'[j].row = IF job[j].left THEN job[j].row ELSE "success"
            \/ /\ job[j].at = "bad" /\ job'[j].at = "done"
               /\ job'[j].row = IF job[j].left THEN job[j].row ELSE "failed"
<1>1. /\ job[j].at \in {"ok", "bad"} /\ "closed" \in JobAt /\ "done" \in JobAt
      /\ job[j].row \in RunRow /\ "success" \in RunRow /\ "failed" \in RunRow
  BY DEF TypeOK, CloseRun, JobAt, RunRow, Job
<1>2. CASE job[j].at = "ok"
  <2> DEFINE w == IF job[j].left THEN job[j].row ELSE "success"
  <2>1. job' = [job EXCEPT ![j].at = "closed", ![j].row = w]
    BY <1>2 DEF CloseRun
  <2>2. w \in RunRow
    BY <1>1
  <2> HIDE DEF w
  <2> DEFINE o == job[j]
             new == [o EXCEPT !.at = "closed", !.row = w]
  <2>3. o \in Job /\ job' = [job EXCEPT ![j] = new]
    BY <2>1 DEF TypeOK
  <2> HIDE DEF o
  <2>4. /\ new \in Job
        /\ new.at = "closed" /\ new.task = o.task /\ new.once = o.once
        /\ new.count = o.count /\ new.now = o.now /\ new.left = o.left
        /\ new.ended = o.ended /\ new.row = w
    BY <2>3, <1>1, <2>2 DEF Job, JobAt, RunRow
  <2> HIDE DEF new
  <2>5. job' \in [Jobs -> Job] /\ job'[j] = new /\ OthersKept(j)
    BY <2>3, <2>4, JobUpdate
  <2> QED
    BY <1>2, <2>4, <2>5 DEF w, o
<1>3. CASE job[j].at = "bad"
  <2> DEFINE w == IF job[j].left THEN job[j].row ELSE "failed"
  <2>1. job' = [job EXCEPT ![j].at = "done", ![j].row = w]
    BY <1>3 DEF CloseRun
  <2>2. w \in RunRow
    BY <1>1
  <2> HIDE DEF w
  <2> DEFINE o == job[j]
             new == [o EXCEPT !.at = "done", !.row = w]
  <2>3. o \in Job /\ job' = [job EXCEPT ![j] = new]
    BY <2>1 DEF TypeOK
  <2> HIDE DEF o
  <2>4. /\ new \in Job
        /\ new.at = "done" /\ new.task = o.task /\ new.once = o.once
        /\ new.count = o.count /\ new.now = o.now /\ new.left = o.left
        /\ new.ended = o.ended /\ new.row = w
    BY <2>3, <1>1, <2>2 DEF Job, JobAt, RunRow
  <2> HIDE DEF new
  <2>5. job' \in [Jobs -> Job] /\ job'[j] = new /\ OthersKept(j)
    BY <2>3, <2>4, JobUpdate
  <2> QED
    BY <1>3, <2>4, <2>5 DEF w, o
<1> QED
  BY <1>1, <1>2, <1>3

LEMMA UpdateTaskStatsJob ==
  ASSUME TypeOK, NEW j \in Jobs, UpdateTaskStats(j)
  PROVE  /\ job' \in [Jobs -> Job] /\ OthersKept(j)
         /\ job[j].at = "closed" /\ job'[j].at = "counted"
         /\ job'[j].task = job[j].task /\ job'[j].count = job[j].count
         /\ job'[j].left = job[j].left /\ job'[j].ended = job[j].ended
         /\ job'[j].row = job[j].row
<1> DEFINE o == job[j]
           new == [o EXCEPT !.at = "counted"]
<1>1. /\ o \in Job /\ job' = [job EXCEPT ![j] = new] /\ o.at = "closed"
      /\ "counted" \in JobAt
  BY DEF TypeOK, UpdateTaskStats, JobAt
<1> HIDE DEF o
<1>2. /\ new \in Job
      /\ new.at = "counted" /\ new.task = o.task /\ new.count = o.count
      /\ new.left = o.left /\ new.ended = o.ended /\ new.row = o.row
  BY <1>1 DEF Job, JobAt
<1> HIDE DEF new
<1>3. job' \in [Jobs -> Job] /\ job'[j] = new /\ OthersKept(j)
  BY <1>1, <1>2, JobUpdate
<1> QED
  BY <1>1, <1>2, <1>3 DEF o

LEMMA RetireJob ==
  ASSUME TypeOK, NEW j \in Jobs, Retire(j)
  PROVE  /\ job' \in [Jobs -> Job] /\ OthersKept(j)
         /\ job[j].at = "counted" /\ job'[j].at = "done"
         /\ job'[j].task = job[j].task /\ job'[j].count = job[j].count
         /\ job'[j].left = job[j].left /\ job'[j].ended = job[j].ended
         /\ job'[j].row = job[j].row
<1> DEFINE o == job[j]
           new == [o EXCEPT !.at = "done"]
<1>1. /\ o \in Job /\ job' = [job EXCEPT ![j] = new] /\ o.at = "counted"
      /\ "done" \in JobAt
  BY DEF TypeOK, Retire, JobAt
<1> HIDE DEF o
<1>2. /\ new \in Job
      /\ new.at = "done" /\ new.task = o.task /\ new.count = o.count
      /\ new.left = o.left /\ new.ended = o.ended /\ new.row = o.row
  BY <1>1 DEF Job, JobAt
<1> HIDE DEF new
<1>3. job' \in [Jobs -> Job] /\ job'[j] = new /\ OthersKept(j)
  BY <1>1, <1>2, JobUpdate
<1> QED
  BY <1>1, <1>2, <1>3 DEF o

-----------------------------------------------------------------------------
(* What the steps do to the requests and to the tasks                      *)

ReqAt == {"idle", "insert", "unschedule", "write", "read", "schedule",
          "done", "broken", "dead"}

\* Request q moves on to a; the others, and what it asked for, stay.
Moved(q, a) ==
    /\ req' \in [Reqs -> Request]
    /\ req'[q].at = a /\ req'[q].kind = req[q].kind
    /\ req'[q].task = req[q].task /\ req'[q].enabled = req[q].enabled
    /\ \A p \in Reqs : p # q => req'[p] = req[p]

LEMMA ReqMoved ==
  ASSUME TypeOK, NEW q \in Reqs, NEW a \in ReqAt, req' = [req EXCEPT ![q].at = a]
  PROVE  Moved(q, a)
<1> DEFINE o == req[q]
           new == [o EXCEPT !.at = a]
<1>1. o \in Request /\ req' = [req EXCEPT ![q] = new] /\ req \in [Reqs -> Request]
  BY DEF TypeOK
<1> HIDE DEF o
<1>2. /\ new \in Request /\ new.at = a /\ new.kind = o.kind /\ new.task = o.task
      /\ new.enabled = o.enabled
  BY <1>1 DEF Request, ReqAt
<1> HIDE DEF new
<1>3. /\ req' \in [Reqs -> Request] /\ req'[q] = new
      /\ \A p \in Reqs : p # q => req'[p] = req[p]
  BY <1>1, <1>2
<1> QED
  BY <1>2, <1>3 DEF o, Moved

\* Only what a task's owner may switch changes: the counters stay.
CountersKept ==
    /\ task' \in [Tasks -> Task]
    /\ \A k \in Tasks : /\ task'[k].count = task[k].count
                        /\ task'[k].born = task[k].born
                        /\ task'[k].there => task[k].there
                        /\ task'[k].parses = task[k].parses

LEMMA TaskSame == ASSUME TypeOK, UNCHANGED task PROVE CountersKept
  BY DEF TypeOK, CountersKept

LEMMA TaskGone ==
  ASSUME TypeOK, NEW k \in Tasks, task' = [task EXCEPT ![k].there = FALSE]
  PROVE  /\ CountersKept /\ ~task'[k].there
         /\ \A h \in Tasks : h # k => task'[h] = task[h]
<1> DEFINE o == task[k]
           new == [o EXCEPT !.there = FALSE]
<1>1. o \in Task /\ task' = [task EXCEPT ![k] = new] /\ task \in [Tasks -> Task]
  BY DEF TypeOK
<1> HIDE DEF o
<1>2. /\ new \in Task /\ new.there = FALSE /\ new.count = o.count /\ new.born = o.born
      /\ new.parses = o.parses
  BY <1>1 DEF Task
<1> HIDE DEF new
<1>3. task' \in [Tasks -> Task] /\ task'[k] = new /\ \A h \in Tasks : h # k => task'[h] = task[h]
  BY <1>1, <1>2
<1>4. ~task'[k].there
  BY <1>2, <1>3
<1> QED
  BY <1>2, <1>3, <1>4 DEF o, CountersKept

LEMMA TaskSwitched ==
  ASSUME TypeOK, NEW k \in Tasks, NEW b \in BOOLEAN, task' = [task EXCEPT ![k].enabled = b]
  PROVE  /\ CountersKept /\ task'[k].enabled = b /\ task'[k].there = task[k].there
         /\ \A h \in Tasks : h # k => task'[h] = task[h]
<1> DEFINE o == task[k]
           new == [o EXCEPT !.enabled = b]
<1>1. o \in Task /\ task' = [task EXCEPT ![k] = new] /\ task \in [Tasks -> Task]
  BY DEF TypeOK
<1> HIDE DEF o
<1>2. /\ new \in Task /\ new.enabled = b /\ new.count = o.count /\ new.born = o.born
      /\ new.parses = o.parses /\ new.there = o.there
  BY <1>1 DEF Task
<1> HIDE DEF new
<1>3. task' \in [Tasks -> Task] /\ task'[k] = new /\ \A h \in Tasks : h # k => task'[h] = task[h]
  BY <1>1, <1>2
<1>4. task'[k].there => task[k].there
  BY <1>2, <1>3 DEF o
<1> QED
  BY <1>2, <1>3, <1>4 DEF o, CountersKept

LEMMA TaskCounted ==
  ASSUME TypeOK, NEW k \in Tasks, NEW n \in Nat, task' = [task EXCEPT ![k].count = n]
  PROVE  /\ task' \in [Tasks -> Task] /\ task'[k].count = n
         /\ task'[k].born = task[k].born /\ task'[k].there = task[k].there
         /\ task'[k].enabled = task[k].enabled /\ task'[k].parses = task[k].parses
         /\ \A h \in Tasks : h # k => task'[h] = task[h]
<1> DEFINE o == task[k]
           new == [o EXCEPT !.count = n]
<1>1. o \in Task /\ task' = [task EXCEPT ![k] = new] /\ task \in [Tasks -> Task]
  BY DEF TypeOK
<1> HIDE DEF o
<1>2. /\ new \in Task /\ new.enabled = o.enabled /\ new.count = n /\ new.born = o.born
      /\ new.parses = o.parses /\ new.there = o.there
  BY <1>1 DEF Task
<1> HIDE DEF new
<1>3. task' \in [Tasks -> Task] /\ task'[k] = new /\ \A h \in Tasks : h # k => task'[h] = task[h]
  BY <1>1, <1>2
<1> QED
  BY <1>2, <1>3 DEF o

-----------------------------------------------------------------------------
(* The parts of the invariant that a step leaves alone                     *)

RunPart == Counting /\ RowSound /\ RunCountSound /\ RunRowsTruthful

\* Steps of requests and of the server: the jobs and their counters stay.
LEMMA RunPartKept ==
  ASSUME IInv, CountersKept, UNCHANGED <<job, successes, overlap>>
  PROVE  RunPart'
<1>1. \A j \in Jobs : job[j].task \in Tasks
  BY DEF IInv, TypeOK, Job
<1>2. Counting'
  BY <1>1 DEF IInv, CountersKept, Counting
<1>3. RunCountSound'
  BY DEF IInv, CountersKept, RunCountSound, Busy
<1>4. RowSound' /\ RunRowsTruthful'
  BY DEF IInv, RowSound, RunRowsTruthful
<1> QED
  BY <1>2, <1>3, <1>4 DEF RunPart

\* Steps of jobs: nothing new is active, and requests and entries stay.
LEMMA CoveredKept ==
  ASSUME IInv, UNCHANGED <<server, restoring, missed, entries, req>>,
         \A k \in Tasks : Active(k)' => Active(k)
  PROVE  Covered' /\ ReqSound'
<1>1. \A k \in Tasks : ByTool(k)' = ByTool(k)
  BY DEF ByTool
<1>2. \A k \in Tasks, q \in Reqs : Holds(q, k)' = Holds(q, k)
  BY DEF Holds
<1>3. Covered'
  BY <1>1, <1>2 DEF IInv, Covered
<1>4. ReqSound'
  BY DEF IInv, ReqSound
<1> QED
  BY <1>3, <1>4

\* Steps that insert no task and start no job.
LEMMA CreatedKept ==
  ASSUME IInv, CountersKept, UNCHANGED successes,
         \A p \in Reqs : req'[p].at = "insert" => req'[p] = req[p],
         \A j \in Jobs : job'[j].at \in InFlight
                           => job[j].at \in InFlight /\ job'[j].task = job[j].task
  PROVE  Created'
<1>1. \A q \in Reqs : req[q].task \in Tasks
  BY DEF IInv, TypeOK, Request
<1>2. \A j \in Jobs : job[j].task \in Tasks
  BY DEF IInv, TypeOK, Job
<1>3. \A k \in Tasks : ~task'[k].born =>
         ~task'[k].there /\ task'[k].count = 0 /\ successes'[k] = 0
  BY DEF IInv, Created, CountersKept
<1>4. \A q \in Reqs : req'[q].at = "insert" => ~task'[req'[q].task].born
  BY <1>1 DEF IInv, Created, CountersKept
<1>5. \A p, q \in Reqs :
        req'[p].at = "insert" /\ req'[q].at = "insert" /\ req'[p].task = req'[q].task
          => p = q
  BY DEF IInv, Created
<1>6. \A j \in Jobs : job'[j].at \in InFlight => task'[job'[j].task].born
  BY <1>2 DEF IInv, Created, CountersKept
<1> QED
  BY <1>3, <1>4, <1>5, <1>6 DEF Created

-----------------------------------------------------------------------------
(* The requests                                                            *)

LEMMA ArriveOK == ASSUME IInv, NEW q \in Reqs, Arrive(q) PROVE IInv'
<1>1. PICK k \in Tasks, kind \in Kinds, e \in {"keep", "on", "off"} :
        /\ kind \in Creates <=> ~task[k].born
        /\ kind \in Creates => \A p \in Reqs : ~(req[p].at = "insert" /\ req[p].task = k)
        /\ kind # "update" => e = "keep"
        /\ req' = [req EXCEPT ![q] =
             [kind |-> kind, task |-> k, enabled |-> e,
              at |-> CASE kind \in Creates -> "insert"
                       [] kind = "delete" \/ e = "off" -> "unschedule"
                       [] OTHER -> "write"]]
  BY DEF Arrive
<1> DEFINE a == CASE kind \in Creates -> "insert"
                  [] kind = "delete" \/ e = "off" -> "unschedule"
                  [] OTHER -> "write"
           new == [kind |-> kind, task |-> k, enabled |-> e, at |-> a]
<1>2. /\ a \in {"insert", "unschedule", "write"}
      /\ a = "insert" => kind \in Creates
      /\ a = "unschedule" => kind = "delete" \/ (kind = "update" /\ e = "off")
      /\ a = "write" => kind \notin Creates
  <2>1. CASE kind \in Creates
    <3>1. kind # "delete" /\ e # "off"
      BY <1>1, <2>1 DEF Creates
    <3>2. a = "insert"
      BY <2>1, <3>1
    <3> QED
      BY <2>1, <3>2
  <2>2. CASE kind \notin Creates /\ (kind = "delete" \/ e = "off")
    <3>1. a = "unschedule"
      BY <2>2
    <3> QED
      BY <1>1, <2>2, <3>1
  <2>3. CASE kind \notin Creates /\ ~(kind = "delete" \/ e = "off")
    <3>1. a = "write"
      BY <2>3
    <3> QED
      BY <2>3, <3>1
  <2> QED
    BY <2>1, <2>2, <2>3
<1>3. req' = [req EXCEPT ![q] = new]
  BY <1>1
<1> HIDE DEF a
<1>4. /\ new \in Request /\ new.kind = kind /\ new.task = k /\ new.enabled = e
      /\ new.at = a
  BY <1>2 DEF Request
<1> HIDE DEF new
<1>5. /\ req' \in [Reqs -> Request] /\ req'[q] = new
      /\ \A p \in Reqs : p # q => req'[p] = req[p]
  BY <1>3, <1>4 DEF IInv, TypeOK
<1>6. /\ req[q].at = "idle"
      /\ UNCHANGED <<task, due, entries, server, restoring, missed, job, successes, overlap, stops>>
  BY DEF Arrive
<1>7. TypeOK'
  BY <1>5, <1>6 DEF IInv, TypeOK
<1>8. ReqSound'
  BY <1>2, <1>4, <1>5 DEF IInv, ReqSound
<1>9. Covered'
  <2>1. \A h \in Tasks : ByTool(h) => ByTool(h)'
    BY <1>5, <1>6 DEF IInv, ReqSound, ByTool
  <2>2. \A h \in Tasks, p \in Reqs : Holds(p, h) => Holds(p, h)'
    BY <1>5, <1>6 DEF Holds
  <2>3. \A h \in Tasks : Active(h)' = Active(h)
    BY <1>6 DEF Active
  <2> QED
    BY <1>6, <2>1, <2>2, <2>3 DEF IInv, Covered
<1>10. Created'
  <2>1. a = "insert" => ~task[k].born
    BY <1>1, <1>2
  <2>2. a = "insert" => \A p \in Reqs : ~(req[p].at = "insert" /\ req[p].task = k)
    BY <1>1, <1>2
  <2>3. \A p \in Reqs : req'[p].at = "insert" => ~task'[req'[p].task].born
    BY <1>4, <1>5, <1>6, <2>1 DEF IInv, Created
  <2>4. \A p, r \in Reqs :
           req'[p].at = "insert" /\ req'[r].at = "insert" /\ req'[p].task = req'[r].task
             => p = r
    BY <1>4, <1>5, <2>2 DEF IInv, Created
  <2> QED
    BY <1>6, <2>3, <2>4 DEF IInv, Created
<1>11. RunPart'
  BY <1>6, TaskSame, RunPartKept DEF IInv
<1> QED
  BY <1>7, <1>8, <1>9, <1>10, <1>11 DEF IInv, RunPart

LEMMA InsertOK == ASSUME IInv, NEW q \in Reqs, Insert(q) PROVE IInv'
<1> DEFINE k == req[q].task
           a == IF req[q].kind = "create" THEN "schedule" ELSE "done"
<1>1. PICK once \in BOOLEAN, parses \in BOOLEAN :
        task' = [task EXCEPT ![k] =
          [born |-> TRUE, there |-> TRUE, enabled |-> TRUE, once |-> once,
           parses |-> parses, count |-> 0]]
  BY DEF Insert
<1> DEFINE new == [born |-> TRUE, there |-> TRUE, enabled |-> TRUE, once |-> once,
                   parses |-> parses, count |-> 0]
<1>2. /\ req[q].at = "insert" /\ req' = [req EXCEPT ![q].at = a] /\ a \in ReqAt
      /\ UNCHANGED <<due, entries, server, restoring, missed, job, successes, overlap, stops>>
  BY DEF Insert, ReqAt
<1>3. /\ k \in Tasks /\ ~task[k].born /\ req[q].kind \in Creates
      /\ task \in [Tasks -> Task]
  BY <1>2 DEF IInv, TypeOK, Request, Created, ReqSound
<1>4. Moved(q, a)
  BY <1>2, ReqMoved DEF IInv
<1>5. new \in Task /\ new.count = 0 /\ new.born = TRUE
  BY DEF Task
<1>6. task' = [task EXCEPT ![k] = new]
  BY <1>1
<1> HIDE DEF new
<1>7. /\ task' \in [Tasks -> Task] /\ task'[k] = new
      /\ \A h \in Tasks : h # k => task'[h] = task[h]
  BY <1>3, <1>5, <1>6
<1>8. task[k].count = 0 /\ successes[k] = 0
  BY <1>3 DEF IInv, Created
<1>9. TypeOK'
  BY <1>2, <1>4, <1>7 DEF IInv, TypeOK, Moved
<1>10. ReqSound'
  <2>1. a \in {"schedule", "done"}
    OBVIOUS
  <2> QED
    BY <1>4, <2>1 DEF IInv, ReqSound, Moved
<1>11. Covered'
  <2>1. \A h \in Tasks : h # k => Active(h)' = Active(h)
    BY <1>7 DEF Active
  <2>2. ByTool(k)' \/ Holds(q, k)'
    BY <1>3, <1>4 DEF ByTool, Holds, Moved, Creates
  <2>3. \A h \in Tasks : ByTool(h) => ByTool(h)'
    BY <1>4 DEF ByTool, Moved
  <2>4. \A h \in Tasks, p \in Reqs : Holds(p, h) => Holds(p, h)'
    BY <1>2, <1>4 DEF Holds, Moved
  <2> QED
    BY <1>2, <2>1, <2>2, <2>3, <2>4 DEF IInv, Covered
<1>12. Created'
  <2>1. a # "insert"
    OBVIOUS
  <2>2. \A h \in Tasks : ~task'[h].born =>
           ~task'[h].there /\ task'[h].count = 0 /\ successes'[h] = 0
    BY <1>2, <1>5, <1>7 DEF IInv, Created
  <2>3. ASSUME NEW p \in Reqs, req'[p].at = "insert"
        PROVE  p # q /\ req'[p] = req[p] /\ req[p].task # k /\ req[p].task \in Tasks
    BY <1>2, <1>4, <2>1, <2>3 DEF IInv, Created, Moved, TypeOK, Request
  <2>4. \A p \in Reqs : req'[p].at = "insert" => ~task'[req'[p].task].born
    BY <1>7, <2>3 DEF IInv, Created
  <2>5. \A p, r \in Reqs :
           req'[p].at = "insert" /\ req'[r].at = "insert" /\ req'[p].task = req'[r].task
             => p = r
    BY <2>3 DEF IInv, Created
  <2>6. \A j \in Jobs : job'[j].at \in InFlight => task'[job'[j].task].born
    <3>1. \A j \in Jobs : job[j].task \in Tasks
      BY DEF IInv, TypeOK, Job
    <3>2. \A h \in Tasks : task[h].born => task'[h].born
      BY <1>5, <1>7
    <3> QED
      BY <1>2, <3>1, <3>2 DEF IInv, Created
  <2> QED
    BY <2>2, <2>4, <2>5, <2>6 DEF Created
<1>13. \A h \in Tasks : task'[h].count = task[h].count
  BY <1>5, <1>7, <1>8
<1>14. Counting'
  <2>1. \A j \in Jobs : job[j].task \in Tasks
    BY DEF IInv, TypeOK, Job
  <2> QED
    BY <1>2, <1>13, <2>1 DEF IInv, Counting
<1>15. RunCountSound'
  BY <1>2, <1>13 DEF IInv, RunCountSound, Busy
<1>16. RowSound' /\ RunRowsTruthful'
  BY <1>2 DEF IInv, RowSound, RunRowsTruthful
<1> QED
  BY <1>9, <1>10, <1>11, <1>12, <1>14, <1>15, <1>16 DEF IInv

LEMMA ReqTask == ASSUME IInv, NEW q \in Reqs PROVE req[q].task \in Tasks
  BY DEF IInv, TypeOK, Request

\* A request that moves on and leaves the jobs alone: what is left to show is
\* that no active task loses what covers it.
LEMMA MovedOK ==
  ASSUME IInv, NEW q \in Reqs, NEW a \in ReqAt, Moved(q, a), CountersKept,
         NEW k \in Tasks, req[q].task = k,
         a \notin {"idle", "insert"}, req[q].at # "dead",
         a \notin {"unschedule", "dead"},
         a = "write" => req[q].kind \notin Creates,
         entries' \in [Tasks -> Nat],
         \A h \in Tasks : h # k => task'[h] = task[h] /\ entries'[h] = entries[h],
         Active(k)' => Holds(q, k)' \/ entries'[k] > 0,
         missed' \subseteq missed, \A h \in missed : h # k => h \in missed',
         UNCHANGED <<due, server, restoring, job, successes, overlap, stops>>
  PROVE  IInv'
<1>1. TypeOK'
  BY DEF IInv, TypeOK, Moved, CountersKept
<1>2. ReqSound'
  BY DEF IInv, ReqSound, Moved
<1>3. Covered'
  <2>1. \A h \in Tasks : ByTool(h) => ByTool(h)'
    BY DEF ByTool, Moved
  <2>2. \A h \in Tasks, p \in Reqs : p # q /\ Holds(p, h) => Holds(p, h)'
    BY DEF Holds, Moved
  <2>3. \A h \in Tasks : h # k => ~Holds(q, h)
    BY DEF Holds
  <2>4. \A h \in Tasks : h # k => Active(h)' = Active(h)
    BY DEF Active
  <2>5. ASSUME NEW h \in Tasks, h # k, Active(h)'
        PROVE  \/ server' \in {"down", "starting"} \/ h \in restoring' \cup missed'
               \/ entries'[h] > 0 \/ ByTool(h)' \/ \E p \in Reqs : Holds(p, h)'
    BY <2>1, <2>2, <2>3, <2>4, <2>5 DEF IInv, Covered
  <2>6. ASSUME Active(k)'
        PROVE  \/ server' \in {"down", "starting"} \/ k \in restoring' \cup missed'
               \/ entries'[k] > 0 \/ ByTool(k)' \/ \E p \in Reqs : Holds(p, k)'
    BY <2>6
  <2>7. server' = "running" => restoring' = {}
    BY DEF IInv, Covered
  <2>8. \A h \in Tasks :
           Active(h)' => \/ server' \in {"down", "starting"} \/ h \in restoring' \cup missed'
                         \/ entries'[h] > 0 \/ ByTool(h)' \/ \E p \in Reqs : Holds(p, h)'
    BY <2>5, <2>6
  <2> QED
    BY <2>7, <2>8 DEF Covered
<1>4. Created'
  BY CreatedKept DEF IInv, Moved
<1>5. RunPart'
  BY RunPartKept
<1> QED
  BY <1>1, <1>2, <1>3, <1>4, <1>5 DEF IInv, RunPart

LEMMA EntriesFacts ==
  ASSUME TypeOK, NEW k \in Tasks
  PROVE  /\ Scheduled(k) \in [Tasks -> Nat] /\ Unscheduled(k) \in [Tasks -> Nat]
         /\ task[k].parses => Scheduled(k)[k] > 0
         /\ Scheduled(k)[k] >= entries[k]
         /\ \A h \in Tasks : h # k => /\ Scheduled(k)[h] = entries[h]
                                      /\ Unscheduled(k)[h] = entries[h]
<1>1. entries \in [Tasks -> Nat] /\ entries[k] \in Nat
  BY DEF TypeOK
<1>2. \A n \in Nat : n > 0 => n - 1 \in Nat
  OBVIOUS
<1>3. Unscheduled(k) \in [Tasks -> Nat] /\ \A h \in Tasks : h # k => Unscheduled(k)[h] = entries[h]
  BY <1>1, <1>2 DEF Unscheduled
<1>4. CASE task[k].parses
  <2>1. Scheduled(k) = [entries EXCEPT ![k] = entries[k] + 1]
    BY <1>4 DEF Scheduled
  <2> QED
    BY <1>1, <1>3, <2>1
<1>5. CASE ~task[k].parses
  <2>1. Scheduled(k) = entries
    BY <1>1, <1>5 DEF Scheduled
  <2> QED
    BY <1>1, <1>3, <1>5, <2>1
<1> QED
  BY <1>4, <1>5

LEMMA UnscheduleOK == ASSUME IInv, NEW q \in Reqs, Unschedule(q) PROVE IInv'
<1>0. PICK k \in Tasks : req[q].task = k
  BY ReqTask
<1>1. /\ req[q].at = "unschedule" /\ entries' = Unscheduled(k)
      /\ req' = [req EXCEPT ![q].at = "write"] /\ "write" \in ReqAt
      /\ UNCHANGED <<task, due, server, restoring, missed, job, successes, overlap, stops>>
  BY <1>0 DEF Unschedule, ReqAt
<1>2. Moved(q, "write")
  BY <1>1, ReqMoved DEF IInv
<1>3. CountersKept
  BY <1>1, TaskSame DEF IInv
<1>4. /\ entries' \in [Tasks -> Nat]
      /\ \A h \in Tasks : h # k => entries'[h] = entries[h]
  BY <1>1, EntriesFacts DEF IInv
<1>5. Holds(q, k)' /\ req[q].kind \notin Creates
  BY <1>0, <1>1, <1>2 DEF Holds, Moved, IInv, ReqSound, Creates
<1> QED
  BY <1>0, <1>1, <1>2, <1>3, <1>4, <1>5, MovedOK

LEMMA WriteOK == ASSUME IInv, NEW q \in Reqs, Write(q) PROVE IInv'
<1>1. PICK k \in Tasks : req[q].task = k
  BY ReqTask
<1>2. /\ req[q].at = "write" /\ req[q].kind \notin Creates
      /\ UNCHANGED <<due, entries, server, restoring, missed, job, successes, overlap, stops>>
      /\ "done" \in ReqAt /\ "read" \in ReqAt /\ entries' \in [Tasks -> Nat]
  BY DEF Write, IInv, ReqSound, ReqAt, TypeOK
<1>3. CASE req[q].kind \in {"delete", "toolDelete"}
  <2>1. /\ task' = [task EXCEPT ![k].there = FALSE]
        /\ req' = [req EXCEPT ![q].at = "done"]
    BY <1>1, <1>3 DEF Write
  <2>2. Moved(q, "done")
    BY <1>2, <2>1, ReqMoved DEF IInv
  <2>3. CountersKept /\ ~task'[k].there /\ \A h \in Tasks : h # k => task'[h] = task[h]
    BY <2>1, TaskGone DEF IInv
  <2>4. ~Active(k)'
    BY <2>3 DEF Active
  <2> QED
    BY <1>1, <1>2, <2>2, <2>3, <2>4, MovedOK
<1>4. CASE req[q].kind = "update"
  <2> DEFINE b == CASE req[q].enabled = "on" -> TRUE
                    [] req[q].enabled = "off" -> FALSE
                    [] OTHER -> task[k].enabled
  <2>1. /\ task' = [task EXCEPT ![k].enabled = b]
        /\ req' = [req EXCEPT ![q].at = "read"]
    BY <1>1, <1>4 DEF Write
  <2>2. b \in BOOLEAN
    <3>1. task[k].enabled \in BOOLEAN
      BY DEF IInv, TypeOK, Task
    <3>2. CASE req[q].enabled = "on"
      <4>1. b = TRUE
        BY <3>2
      <4> QED
        BY <4>1
    <3>3. CASE req[q].enabled = "off"
      <4>1. b = FALSE
        BY <3>3
      <4> QED
        BY <4>1
    <3>4. CASE req[q].enabled \notin {"on", "off"}
      <4>1. b = task[k].enabled
        BY <3>4
      <4> QED
        BY <3>1, <4>1
    <3> QED
      BY <3>2, <3>3, <3>4
  <2> HIDE DEF b
  <2>3. Moved(q, "read")
    BY <1>2, <2>1, ReqMoved DEF IInv
  <2>4. CountersKept /\ \A h \in Tasks : h # k => task'[h] = task[h]
    BY <2>1, <2>2, TaskSwitched DEF IInv
  <2>5. Holds(q, k)'
    BY <1>1, <2>3 DEF Holds, Moved
  <2> QED
    BY <1>1, <1>2, <2>3, <2>4, <2>5, MovedOK
<1> QED
  BY <1>3, <1>4 DEF Write

\* A statement that fails leaves its request broken.
LEMMA BreakOK ==
  ASSUME IInv, NEW q \in Reqs, WriteFails(q) \/ ReadBackFails(q)
  PROVE  IInv'
<1>1. PICK k \in Tasks : req[q].task = k
  BY ReqTask
<1>2. /\ req[q].at \in {"write", "read"} /\ "broken" \in ReqAt
      /\ req' = [req EXCEPT ![q].at = "broken"]
      /\ UNCHANGED <<task, due, entries, server, restoring, missed, job, successes, overlap, stops>>
  BY DEF WriteFails, ReadBackFails, ReqAt
<1>3. Moved(q, "broken")
  BY <1>2, ReqMoved DEF IInv
<1>4. CountersKept /\ entries' \in [Tasks -> Nat]
  BY <1>2, TaskSame DEF IInv, TypeOK
<1>5. Holds(q, k)'
  BY <1>1, <1>3 DEF Holds, Moved
<1> QED
  BY <1>1, <1>2, <1>3, <1>4, <1>5, MovedOK

LEMMA ReadBackOK == ASSUME IInv, NEW q \in Reqs, ReadBack(q) PROVE IInv'
<1>1. PICK k \in Tasks : req[q].task = k
  BY ReqTask
<1> DEFINE a == IF task[k].there /\ task[k].enabled THEN "schedule" ELSE "done"
<1>2. /\ req[q].at = "read" /\ a \in ReqAt /\ a \in {"schedule", "done"}
      /\ req' = [req EXCEPT ![q].at = a]
      /\ UNCHANGED <<task, due, entries, server, restoring, missed, job, successes, overlap, stops>>
  BY <1>1 DEF ReadBack, ReqAt
<1>3. a = "schedule" \/ ~Active(k)
  BY DEF Active
<1> HIDE DEF a
<1>4. Moved(q, a)
  BY <1>2, ReqMoved DEF IInv
<1>5. CountersKept /\ entries' \in [Tasks -> Nat]
  BY <1>2, TaskSame DEF IInv, TypeOK
<1>6. Active(k)' => Holds(q, k)'
  BY <1>1, <1>2, <1>3, <1>4 DEF Active, Holds, Moved
<1> QED
  BY <1>1, <1>2, <1>4, <1>5, <1>6, MovedOK

LEMMA ScheduleOK == ASSUME IInv, NEW q \in Reqs, Schedule(q) PROVE IInv'
<1>1. PICK k \in Tasks : req[q].task = k
  BY ReqTask
<1>2. /\ req[q].at = "schedule" /\ "done" \in ReqAt /\ entries' = Scheduled(k)
      /\ req' = [req EXCEPT ![q].at = "done"]
      /\ missed' = missed \ {k}
      /\ UNCHANGED <<task, due, server, restoring, job, successes, overlap, stops>>
  BY <1>1 DEF Schedule, ReqAt
<1>3. Moved(q, "done")
  BY <1>2, ReqMoved DEF IInv
<1>4. CountersKept
  BY <1>2, TaskSame DEF IInv
<1>5. /\ entries' \in [Tasks -> Nat] /\ (task[k].parses => entries'[k] > 0)
      /\ \A h \in Tasks : h # k => entries'[h] = entries[h]
  BY <1>2, EntriesFacts DEF IInv
<1>6. Active(k)' => entries'[k] > 0
  BY <1>2, <1>5 DEF Active
<1> QED
  BY <1>1, <1>2, <1>3, <1>4, <1>5, <1>6, MovedOK

-----------------------------------------------------------------------------
(* The server                                                              *)

\* Steps of the server that end no job and no request.
LEMMA ServerKeeps ==
  ASSUME IInv, UNCHANGED <<task, req, job, successes, overlap>>
  PROVE  /\ ReqSound' /\ Created' /\ RunPart'
         /\ \A k \in Tasks : Active(k)' = Active(k) /\ ByTool(k)' = ByTool(k)
         /\ \A k \in Tasks, q \in Reqs : Holds(q, k)' = Holds(q, k)
<1>1. CountersKept
  BY TaskSame DEF IInv
<1>2. ReqSound'
  BY DEF IInv, ReqSound
<1>3. Created'
  BY DEF IInv, Created
<1>4. RunPart'
  BY <1>1, RunPartKept
<1> QED
  BY <1>2, <1>3, <1>4 DEF Active, ByTool, Holds

LEMMA ServerOK ==
  ASSUME IInv,
         \/ Start \/ RestoreRead \/ RestoreFails \/ RestoreOne \/ RestoreDone \/ Served
         \/ UNCHANGED vars \/ \E k \in Tasks : Tick(k)
  PROVE  IInv'
<1>1. UNCHANGED <<task, req, job, successes, overlap, stops>>
  BY DEF Start, RestoreRead, RestoreFails, RestoreOne, RestoreDone, Served, vars, Tick
<1>2. ASSUME TypeOK', Covered' PROVE IInv'
  BY <1>1, <1>2, ServerKeeps DEF IInv, RunPart
<1>3. CASE Start
  <2>1. TypeOK'
    BY <1>3 DEF Start, IInv, TypeOK
  <2>2. Covered'
    BY <1>3 DEF Start, Covered
  <2> QED
    BY <1>2, <2>1, <2>2
<1>4. CASE RestoreRead
  <2>1. TypeOK'
    BY <1>4 DEF RestoreRead, IInv, TypeOK
  <2>2. Covered'
    BY <1>4 DEF RestoreRead, Covered, Active
  <2> QED
    BY <1>2, <2>1, <2>2
<1>8. CASE RestoreFails
  <2>1. TypeOK'
    BY <1>8 DEF RestoreFails, IInv, TypeOK
  <2>2. /\ missed' = {k \in Tasks : task[k].there /\ task[k].enabled /\ entries[k] = 0}
        /\ server' = "restoring" /\ UNCHANGED <<task, entries>>
    BY <1>8 DEF RestoreFails
  <2>3. \A k \in Tasks : entries[k] = 0 \/ entries[k] > 0
    BY DEF IInv, TypeOK
  <2>4. Covered'
    BY <2>2, <2>3 DEF Covered, Active
  <2> QED
    BY <1>2, <2>1, <2>4
<1>5. CASE RestoreOne
  <2>1. PICK k \in restoring : entries' = Scheduled(k) /\ restoring' = restoring \ {k}
    BY <1>5 DEF RestoreOne
  <2>2. k \in Tasks /\ server = "restoring" /\ UNCHANGED <<due, server, missed>>
    BY <1>5 DEF RestoreOne, IInv, TypeOK
  <2>3. /\ entries' \in [Tasks -> Nat] /\ (task[k].parses => entries'[k] > 0)
        /\ \A h \in Tasks : h # k => entries'[h] = entries[h]
    BY <2>1, <2>2, EntriesFacts DEF IInv
  <2>4. TypeOK'
    BY <1>1, <2>1, <2>2, <2>3 DEF IInv, TypeOK
  <2>5. \A h \in Tasks : Active(h)' => task[h].parses
    BY <1>1 DEF Active
  <2>6. Covered'
    BY <1>1, <2>1, <2>2, <2>3, <2>5, ServerKeeps DEF IInv, Covered
  <2> QED
    BY <1>2, <2>4, <2>6
<1>6. CASE RestoreDone
  <2>1. TypeOK'
    BY <1>6 DEF RestoreDone, IInv, TypeOK
  <2>2. restoring = {} /\ restoring' = {} /\ entries' = entries /\ server = "restoring"
        /\ missed' = missed
    BY <1>6 DEF RestoreDone
  <2>3. Covered'
    BY <1>1, <2>2, ServerKeeps DEF IInv, Covered
  <2> QED
    BY <1>2, <2>1, <2>3
<1>7. CASE Served \/ UNCHANGED vars \/ \E k \in Tasks : Tick(k)
  <2>1. UNCHANGED <<entries, server, restoring, missed>> /\ due' \in [Tasks -> BOOLEAN]
    BY <1>7 DEF Served, vars, Tick, IInv, TypeOK
  <2>2. TypeOK'
    BY <1>1, <2>1 DEF IInv, TypeOK
  <2>3. Covered'
    BY <1>1, <2>1, ServerKeeps DEF IInv, Covered
  <2> QED
    BY <1>2, <2>2, <2>3
<1> QED
  BY <1>3, <1>4, <1>5, <1>6, <1>7, <1>8

\* A stop ends the requests and the jobs where they stand.
LEMMA StopOK == ASSUME IInv, Stop PROVE IInv'
<1>1. /\ server' = "down" /\ restoring' = {} /\ missed' = {} /\ entries' = [k \in Tasks |-> 0]
      /\ stops' = stops + 1 /\ stops < MaxStops /\ UNCHANGED <<task, due, successes>>
  BY DEF Stop
<1>2. ASSUME NEW q \in Reqs
      PROVE  /\ req'[q] \in Request
             /\ req'[q].at # "dead" => req'[q] = req[q] /\ req[q].at = "idle"
  <2> DEFINE o == req[q]
             new == [o EXCEPT !.at = "dead"]
  <2>1. o \in Request /\ req'[q] = IF o.at = "idle" THEN o ELSE new
    BY DEF Stop, IInv, TypeOK
  <2> HIDE DEF o
  <2>2. new \in Request /\ new.at = "dead"
    BY <2>1 DEF Request
  <2> QED
    BY <2>1, <2>2 DEF o
<1>3. ASSUME NEW j \in Jobs
      PROVE  /\ job'[j] \in Job
             /\ \/ job'[j].at = "dead" /\ job'[j].row = job[j].row /\ job'[j].ended = job[j].ended
                \/ job'[j] = job[j] /\ job[j].at \in {"idle", "done"}
  <2> DEFINE o == job[j]
             new == [o EXCEPT !.at = "dead"]
  <2>1. o \in Job /\ job'[j] = IF o.at \in {"idle", "done"} THEN o ELSE new
    BY DEF Stop, IInv, TypeOK
  <2> HIDE DEF o
  <2>2. new \in Job /\ new.at = "dead" /\ new.row = o.row /\ new.ended = o.ended
    BY <2>1 DEF Job
  <2> QED
    BY <2>1, <2>2 DEF o
<1>4. \A j \in Jobs : job'[j].at \notin InFlight
  BY <1>3 DEF InFlight
<1>5. /\ overlap' \in [Tasks -> BOOLEAN]
      /\ \A k \in Tasks : ~overlap'[k] => ~overlap[k] /\ ~Busy(k)
  BY DEF Stop, Busy, IInv, TypeOK
<1>6. TypeOK'
  <2>1. req' \in [Reqs -> Request]
    <3>1. \E f : req' = [q \in Reqs |-> f[q]]
      <4>1. req' = [q \in Reqs |-> req'[q]]
        BY DEF Stop
      <4> QED
        BY <4>1
    <3> QED
      BY <1>2, <3>1
  <2>2. job' \in [Jobs -> Job]
    <3>1. \E f : job' = [j \in Jobs |-> f[j]]
      <4>1. job' = [j \in Jobs |-> job'[j]]
        BY DEF Stop
      <4> QED
        BY <4>1
    <3> QED
      BY <1>3, <3>1
  <2>3. stops' \in 0..MaxStops
    BY <1>1, SchedConstants DEF IInv, TypeOK
  <2> QED
    BY <1>1, <1>5, <2>1, <2>2, <2>3 DEF IInv, TypeOK
<1>7. ReqSound' /\ Covered'
  BY <1>1, <1>2 DEF IInv, ReqSound, Covered
<1>8. Created'
  <2>1. CountersKept
    BY <1>1, TaskSame DEF IInv
  <2> QED
    BY <1>1, <1>2, <1>4, <2>1, CreatedKept
<1>9. Counting'
  BY <1>4 DEF Counting, InFlight
<1>10. RunCountSound'
  BY <1>1, <1>5 DEF IInv, RunCountSound
<1>11. RowSound' /\ RunRowsTruthful'
  BY <1>3 DEF IInv, RowSound, RunRowsTruthful
<1> QED
  BY <1>6, <1>7, <1>8, <1>9, <1>10, <1>11 DEF IInv

-----------------------------------------------------------------------------
(* The jobs                                                                *)

LEMMA JobTask == ASSUME IInv PROVE \A j \in Jobs : job[j].task \in Tasks
  BY DEF IInv, TypeOK, Job

\* A job that starts no run, ends none well and writes no counter.
LEMMA CountsKept ==
  ASSUME IInv, NEW j \in Jobs, job' \in [Jobs -> Job], OthersKept(j), CountersKept,
         UNCHANGED <<successes, overlap, req>>,
         \/ job[j].at \notin InFlight /\ job'[j].at \notin InFlight
         \/ /\ job[j].at \in InFlight /\ job'[j].at \in InFlight
            /\ job'[j].task = job[j].task /\ job'[j].count = job[j].count
            /\ job'[j].at \in {"ok", "closed"} <=> job[j].at \in {"ok", "closed"}
         \/ job[j].at \in InFlight \ {"ok", "closed"} /\ job'[j].at \notin InFlight
  PROVE  Created' /\ Counting' /\ RunCountSound'
<1>1. \A i \in Jobs : job'[i].at \in InFlight
        => /\ job[i].at \in InFlight
           /\ job'[i].task = job[i].task /\ job'[i].count = job[i].count
           /\ (job'[i].at \in {"ok", "closed"} <=> job[i].at \in {"ok", "closed"})
  BY DEF OthersKept
<1>2. Created'
  BY <1>1, CreatedKept
<1>3. Counting'
  <2>1. ASSUME NEW i \in Jobs, NEW k \in Tasks, job'[i].task = k, job'[i].at \in InFlight
        PROVE  /\ job'[i].count <= successes'[k]
               /\ job'[i].at \in {"ok", "closed"} => job'[i].count + 1 <= successes'[k]
               /\ ~overlap'[k] =>
                    /\ task'[k].count = job'[i].count
                    /\ successes'[k] = IF job'[i].at \in {"ok", "closed"}
                                       THEN job'[i].count + 1 ELSE job'[i].count
    BY <1>1, <2>1 DEF IInv, Counting, CountersKept
  <2>2. \A h, i \in Jobs :
           job'[h].at \in InFlight /\ job'[i].at \in InFlight
             /\ job'[h].task = job'[i].task /\ ~overlap'[job'[h].task] => h = i
    BY <1>1 DEF IInv, Counting
  <2>3. \A i \in Jobs : job'[i].task \in Tasks
    BY DEF Job
  <2>4. {"ok", "closed"} \subseteq InFlight
    BY DEF InFlight
  <2> QED
    BY <2>1, <2>2, <2>3, <2>4 DEF Counting
<1>4. RunCountSound'
  <2> SUFFICES ASSUME NEW k \in Tasks
               PROVE  /\ task'[k].count <= successes'[k]
                      /\ ~overlap'[k] /\ ~Busy(k)' => task'[k].count = successes'[k]
    BY DEF RunCountSound
  <2>1. CASE ~Busy(k)
    BY <2>1 DEF IInv, RunCountSound, CountersKept
  <2>2. CASE Busy(k)
    <3>1. PICK i \in Jobs : job[i].task = k /\ job[i].at \in InFlight
      BY <2>2 DEF Busy
    <3>2. task'[k].count <= successes'[k]
      BY DEF IInv, RunCountSound, CountersKept
    <3>3. CASE job'[i].at \in InFlight
      <4>1. Busy(k)'
        BY <1>1, <3>1, <3>3 DEF Busy
      <4> QED
        BY <3>2, <4>1
    <3>4. CASE job'[i].at \notin InFlight
      <4>1. i = j /\ job[i].at \notin {"ok", "closed"}
        BY <3>1, <3>4 DEF OthersKept
      <4> QED
        BY <3>1, <3>2, <4>1 DEF IInv, Counting, CountersKept
    <3> QED
      BY <3>3, <3>4
  <2> QED
    BY <2>1, <2>2
<1> QED
  BY <1>2, <1>3, <1>4

\* The row and the outcome of job j alone change.
LEMMA RowsKept ==
  ASSUME IInv, NEW j \in Jobs, OthersKept(j),
         /\ job'[j].at \in {"idle", "fired", "due"} => job'[j].row = "none"
         /\ job'[j].at \in {"opened", "agent", "ok", "bad"} => job'[j].row = "running"
         /\ job'[j].at \in {"closed", "counted", "done"} /\ job'[j].row = "running"
              => job'[j].left
         /\ job'[j].at = "ok" => job'[j].ended = "ok"
         /\ job'[j].at = "bad" => job'[j].ended = "bad"
         /\ job'[j].row = "success" => job'[j].ended = "ok"
         /\ job'[j].row = "failed" => job'[j].ended = "bad"
  PROVE  RowSound' /\ RunRowsTruthful'
<1>1. RowSound'
  BY DEF IInv, RowSound, OthersKept
<1>2. RunRowsTruthful'
  BY DEF IInv, RunRowsTruthful, OthersKept
<1> QED
  BY <1>1, <1>2

\* A job that reads the count of a task nobody else runs, or marks the
\* overlap, enters its run.
LEMMA EnterOK ==
  ASSUME IInv, NEW j \in Jobs, NEW k \in Tasks,
         job' \in [Jobs -> Job], OthersKept(j), job[j].at \notin InFlight,
         job'[j].at = "due", job'[j].task = k, job'[j].count = task[k].count,
         task[k].there, overlap' = [overlap EXCEPT ![k] = @ \/ Busy(k)],
         UNCHANGED <<task, successes, req>>
  PROVE  Created' /\ Counting' /\ RunCountSound' /\ overlap' \in [Tasks -> BOOLEAN]
<1>1. /\ overlap' \in [Tasks -> BOOLEAN]
      /\ \A h \in Tasks : ~overlap'[h] => ~overlap[h]
      /\ ~overlap'[k] => ~Busy(k)
  <2>1. overlap \in [Tasks -> BOOLEAN] /\ (overlap[k] \/ Busy(k)) \in BOOLEAN
    BY DEF IInv, TypeOK
  <2>2. overlap' \in [Tasks -> BOOLEAN]
    BY <2>1
  <2>3. \A h \in Tasks : h # k => overlap'[h] = overlap[h]
    BY <2>1
  <2>4. overlap'[k] = (overlap[k] \/ Busy(k))
    BY <2>1
  <2> HIDE DEF Busy
  <2> QED
    BY <2>2, <2>3, <2>4
<1>2. task[k].born
  BY DEF IInv, Created
<1>3. "due" \in InFlight
  BY DEF InFlight
<1>4. Created'
  BY <1>2, <1>3 DEF IInv, Created, OthersKept
<1>5. task[k].count <= successes[k] /\ (~overlap'[k] => task[k].count = successes[k])
  BY <1>1 DEF IInv, RunCountSound
<1>6. Counting'
  <2>1. ASSUME NEW i \in Jobs, i # j
        PROVE  /\ job'[i] = job[i]
               /\ ~overlap'[job'[i].task] => ~overlap[job[i].task]
    BY <1>1, <2>1, JobTask DEF OthersKept
  <2>2. ASSUME NEW i \in Jobs, i # j, job'[i].at \in InFlight, job'[i].task = k
        PROVE  overlap'[k]
    BY <1>1, <2>1, <2>2 DEF Busy
  <2>3. \A h, i \in Jobs :
           job'[h].at \in InFlight /\ job'[i].at \in InFlight
             /\ job'[h].task = job'[i].task /\ ~overlap'[job'[h].task] => h = i
    BY <2>1, <2>2 DEF IInv, Counting
  <2>4. ASSUME NEW i \in Jobs
        PROVE  LET h == job'[i].task IN
               /\ job'[i].at \in InFlight => job'[i].count <= successes'[h]
               /\ job'[i].at \in {"ok", "closed"} => job'[i].count + 1 <= successes'[h]
               /\ job'[i].at \in InFlight /\ ~overlap'[h] =>
                    /\ task'[h].count = job'[i].count
                    /\ successes'[h] = IF job'[i].at \in {"ok", "closed"}
                                       THEN job'[i].count + 1 ELSE job'[i].count
    <3>1. CASE i = j
      BY <1>5, <3>1
    <3>2. CASE i # j
      BY <2>1, <3>2 DEF IInv, Counting
    <3> QED
      BY <3>1, <3>2
  <2> QED
    BY <2>3, <2>4 DEF Counting
<1>7. RunCountSound'
  <2>1. Busy(k)'
    BY <1>3 DEF Busy
  <2>2. ASSUME NEW h \in Tasks, h # k, ~Busy(h)' PROVE ~Busy(h)
    BY <2>2 DEF Busy, OthersKept, InFlight
  <2>3. ASSUME NEW h \in Tasks
        PROVE  /\ task'[h].count <= successes'[h]
               /\ ~overlap'[h] /\ ~Busy(h)' => task'[h].count = successes'[h]
    BY <1>1, <2>1, <2>2 DEF IInv, RunCountSound
  <2> QED
    BY <2>3 DEF RunCountSound
<1> QED
  BY <1>1, <1>4, <1>6, <1>7

\* A run ends well: its task has one success more.
LEMMA EndsWellOK ==
  ASSUME IInv, NEW j \in Jobs, NEW k \in Tasks, job[j].task = k, job[j].at = "agent",
         job' \in [Jobs -> Job], OthersKept(j), job'[j].at = "ok",
         job'[j].task = k, job'[j].count = job[j].count,
         successes' = [successes EXCEPT ![k] = @ + 1],
         UNCHANGED <<task, overlap, req>>
  PROVE  Created' /\ Counting' /\ RunCountSound' /\ successes' \in [Tasks -> Nat]
<1>1. /\ successes' \in [Tasks -> Nat] /\ successes'[k] = successes[k] + 1
      /\ successes \in [Tasks -> Nat]
      /\ \A h \in Tasks : h # k => successes'[h] = successes[h]
  BY DEF IInv, TypeOK
<1>2. "agent" \in InFlight /\ "ok" \in InFlight /\ {"ok", "closed"} \subseteq InFlight
  BY DEF InFlight
<1>3. task[k].born
  BY <1>2 DEF IInv, Created
<1>4. Created'
  BY <1>1, <1>2, <1>3 DEF IInv, Created, OthersKept
<1>5. /\ \A i \in Jobs : job'[i].count \in Nat /\ job'[i].task \in Tasks
      /\ \A h \in Tasks : task[h].count \in Nat
  BY DEF IInv, TypeOK, Job, Task
<1>6. /\ job[j].count <= successes[k]
      /\ ~overlap[k] => task[k].count = job[j].count /\ successes[k] = job[j].count
  BY <1>2 DEF IInv, Counting
<1>7. Counting'
  <2>1. ASSUME NEW i \in Jobs, i # j, job'[i].at \in InFlight, ~overlap[job'[i].task]
        PROVE  job'[i].task # k
    BY <1>2, <2>1 DEF IInv, Counting, OthersKept
  <2>2. \A h, i \in Jobs :
           job'[h].at \in InFlight /\ job'[i].at \in InFlight
             /\ job'[h].task = job'[i].task /\ ~overlap'[job'[h].task] => h = i
    BY <2>1 DEF IInv, Counting, OthersKept
  <2>3. ASSUME NEW i \in Jobs
        PROVE  LET h == job'[i].task IN
               /\ job'[i].at \in InFlight => job'[i].count <= successes'[h]
               /\ job'[i].at \in {"ok", "closed"} => job'[i].count + 1 <= successes'[h]
               /\ job'[i].at \in InFlight /\ ~overlap'[h] =>
                    /\ task'[h].count = job'[i].count
                    /\ successes'[h] = IF job'[i].at \in {"ok", "closed"}
                                       THEN job'[i].count + 1 ELSE job'[i].count
    <3>1. CASE i = j
      BY <1>1, <1>5, <1>6, <3>1
    <3>2. CASE i # j
      <4>1. job'[i] = job[i] /\ job[i].task \in Tasks
        BY <1>5, <3>2 DEF OthersKept
      <4>2. successes[job[i].task] <= successes'[job[i].task]
        BY <1>1, <4>1
      <4>3. job[i].at \in InFlight /\ ~overlap[job[i].task]
              => successes'[job[i].task] = successes[job[i].task]
        BY <1>1, <2>1, <3>2, <4>1
      <4>4. /\ job[i].at \in InFlight => job[i].count <= successes[job[i].task]
            /\ job[i].at \in {"ok", "closed"} => job[i].count + 1 <= successes[job[i].task]
            /\ job[i].count \in Nat /\ successes[job[i].task] \in Nat
            /\ successes'[job[i].task] \in Nat
        BY <1>1, <1>5, <4>1 DEF IInv, Counting
      <4>5. /\ job[i].at \in InFlight => job[i].count <= successes'[job[i].task]
            /\ job[i].at \in {"ok", "closed"} => job[i].count + 1 <= successes'[job[i].task]
        BY <4>2, <4>4
      <4>6. job[i].at \in InFlight /\ ~overlap[job[i].task] =>
              /\ task[job[i].task].count = job[i].count
              /\ successes'[job[i].task] = IF job[i].at \in {"ok", "closed"}
                                           THEN job[i].count + 1 ELSE job[i].count
        BY <4>3 DEF IInv, Counting
      <4> QED
        BY <4>1, <4>5, <4>6
    <3> QED
      BY <3>1, <3>2
  <2> QED
    BY <2>2, <2>3 DEF Counting
<1>8. RunCountSound'
  <2>1. Busy(k)'
    BY <1>2 DEF Busy
  <2>2. ASSUME NEW h \in Tasks, h # k, ~Busy(h)' PROVE ~Busy(h)
    BY <2>2 DEF Busy, OthersKept
  <2>3. task[k].count <= successes'[k]
    BY <1>1, <1>5 DEF IInv, RunCountSound
  <2>4. ASSUME NEW h \in Tasks
        PROVE  /\ task'[h].count <= successes'[h]
               /\ ~overlap'[h] /\ ~Busy(h)' => task'[h].count = successes'[h]
    BY <1>1, <2>1, <2>2, <2>3 DEF IInv, RunCountSound
  <2> QED
    BY <2>4 DEF RunCountSound
<1> QED
  BY <1>1, <1>4, <1>7, <1>8

\* updateTaskStats writes the count that was read, plus one.
LEMMA UpdateTaskStatsOK == ASSUME IInv, NEW j \in Jobs, UpdateTaskStats(j) PROVE IInv'
<1>1. PICK k \in Tasks : job[j].task = k
  BY JobTask
<1> DEFINE n == IF job[j].left THEN task[k].count ELSE job[j].count + 1
<1>2. /\ job' \in [Jobs -> Job] /\ OthersKept(j)
      /\ job[j].at = "closed" /\ job'[j].at = "counted" /\ job'[j].task = k
      /\ job'[j].left = job[j].left /\ job'[j].ended = job[j].ended
      /\ job'[j].row = job[j].row
  BY <1>1, UpdateTaskStatsJob DEF IInv
<1>3. /\ task' = [task EXCEPT ![k].count = n]
      /\ overlap' = [overlap EXCEPT ![k] = @ \/ job[j].left]
      /\ UNCHANGED <<due, entries, server, restoring, missed, req, successes, stops>>
  BY <1>1 DEF UpdateTaskStats
<1>4. task[k].count \in Nat /\ job[j].count \in Nat /\ successes[k] \in Nat
  BY DEF IInv, TypeOK, Task, Job
<1>5. n \in Nat
  BY <1>4
<1>6. "closed" \in InFlight /\ "counted" \notin InFlight
  BY DEF InFlight
<1>7. /\ job[j].count + 1 <= successes[k]
      /\ ~overlap[k] => successes[k] = job[j].count + 1
      /\ task[k].count <= successes[k]
  BY <1>1, <1>2, <1>6 DEF IInv, Counting, RunCountSound
<1>8. /\ n <= successes[k]
      /\ ~overlap[k] /\ ~job[j].left => n = successes[k]
  BY <1>4, <1>7
<1> HIDE DEF n
<1>9. /\ task' \in [Tasks -> Task] /\ task'[k].count = n
      /\ task'[k].born = task[k].born /\ task'[k].there = task[k].there
      /\ task'[k].enabled = task[k].enabled /\ task'[k].parses = task[k].parses
      /\ \A h \in Tasks : h # k => task'[h] = task[h]
  BY <1>3, <1>5, TaskCounted DEF IInv
<1>10. /\ overlap' \in [Tasks -> BOOLEAN]
       /\ \A h \in Tasks : ~overlap'[h] => ~overlap[h]
       /\ ~overlap'[k] => ~job[j].left
  <2>1. overlap \in [Tasks -> BOOLEAN] /\ (overlap[k] \/ job[j].left) \in BOOLEAN
    BY DEF IInv, TypeOK
  <2>2. overlap' \in [Tasks -> BOOLEAN]
    BY <1>3, <2>1
  <2>3. \A h \in Tasks : h # k => overlap'[h] = overlap[h]
    BY <1>3, <2>1
  <2>4. overlap'[k] = (overlap[k] \/ job[j].left)
    BY <1>3, <2>1
  <2> QED
    BY <2>2, <2>3, <2>4
<1>11. TypeOK'
  BY <1>2, <1>3, <1>9, <1>10 DEF IInv, TypeOK
<1>12. Covered' /\ ReqSound'
  <2>1. \A h \in Tasks : Active(h)' => Active(h)
    BY <1>9 DEF Active
  <2> QED
    BY <1>3, <2>1, CoveredKept
<1>13. ASSUME NEW i \in Jobs, job'[i].at \in InFlight
       PROVE  i # j /\ job'[i] = job[i] /\ job[i].task \in Tasks
  BY <1>2, <1>6, <1>13, JobTask DEF OthersKept
<1>14. ASSUME NEW i \in Jobs, job'[i].at \in InFlight, job[i].task = k
       PROVE  overlap'[k]
  BY <1>1, <1>2, <1>6, <1>10, <1>13, <1>14 DEF IInv, Counting
<1>15. Created'
  <2>1. \A h \in Tasks : task'[h].born = task[h].born /\ task'[h].there = task[h].there
    BY <1>9
  <2>2. task[k].born
    BY <1>1, <1>2, <1>6 DEF IInv, Created
  <2>3. \A h \in Tasks : ~task'[h].born =>
           ~task'[h].there /\ task'[h].count = 0 /\ successes'[h] = 0
    BY <1>3, <1>9, <2>1, <2>2 DEF IInv, Created
  <2>4. \A q \in Reqs : req'[q].at = "insert" => ~task'[req'[q].task].born
    BY <1>3, <2>1, ReqTask DEF IInv, Created
  <2>5. \A i \in Jobs : job'[i].at \in InFlight => task'[job'[i].task].born
    BY <1>13, <2>1 DEF IInv, Created
  <2>6. \A p, q \in Reqs :
          req'[p].at = "insert" /\ req'[q].at = "insert" /\ req'[p].task = req'[q].task
            => p = q
    BY <1>3 DEF IInv, Created
  <2> QED
    BY <2>3, <2>4, <2>5, <2>6 DEF Created
<1>16. Counting'
  <2>1. \A h, i \in Jobs :
           job'[h].at \in InFlight /\ job'[i].at \in InFlight
             /\ job'[h].task = job'[i].task /\ ~overlap'[job'[h].task] => h = i
    BY <1>10, <1>13 DEF IInv, Counting
  <2>2. ASSUME NEW i \in Jobs, job'[i].at \in InFlight
        PROVE  LET h == job[i].task IN
               /\ job[i].count <= successes[h]
               /\ job[i].at \in {"ok", "closed"} => job[i].count + 1 <= successes[h]
               /\ ~overlap'[h] =>
                    /\ task'[h].count = job[i].count
                    /\ successes[h] = IF job[i].at \in {"ok", "closed"}
                                       THEN job[i].count + 1 ELSE job[i].count
    <3>1. ~overlap'[job[i].task] => task'[job[i].task] = task[job[i].task]
      BY <1>9, <1>13, <1>14, <2>2
    <3> QED
      BY <1>10, <1>13, <2>2, <3>1 DEF IInv, Counting
  <2>3. {"ok", "closed"} \subseteq InFlight
    BY DEF InFlight
  <2>4. \A i \in Jobs : job'[i].at \in InFlight => job'[i] = job[i]
    BY <1>13
  <2> QED
    BY <1>3, <2>1, <2>2, <2>3, <2>4 DEF Counting
<1>17. RunCountSound'
  <2>1. ASSUME NEW h \in Tasks, h # k, ~Busy(h)' PROVE ~Busy(h)
    BY <1>1, <1>2, <2>1 DEF Busy, OthersKept
  <2>2. ASSUME NEW h \in Tasks
        PROVE  /\ task'[h].count <= successes'[h]
               /\ ~overlap'[h] /\ ~Busy(h)' => task'[h].count = successes'[h]
    BY <1>3, <1>8, <1>9, <1>10, <2>1 DEF IInv, RunCountSound
  <2> QED
    BY <2>2 DEF RunCountSound
<1>18. RowSound' /\ RunRowsTruthful'
  BY <1>2, RowsKept DEF IInv, RowSound, RunRowsTruthful
<1> QED
  BY <1>11, <1>12, <1>15, <1>16, <1>17, <1>18 DEF IInv

\* The type invariant and the parts about requests, after a step of a job
\* that writes to the jobs only.
LEMMA JobsOnly ==
  ASSUME IInv, job' \in [Jobs -> Job], successes' \in [Tasks -> Nat],
         overlap' \in [Tasks -> BOOLEAN],
         UNCHANGED <<task, due, entries, server, restoring, missed, req, stops>>
  PROVE  TypeOK' /\ Covered' /\ ReqSound' /\ CountersKept
<1>1. TypeOK'
  BY DEF IInv, TypeOK
<1>2. \A k \in Tasks : Active(k)' => Active(k)
  BY DEF Active
<1>3. Covered' /\ ReqSound'
  BY <1>2, CoveredKept
<1>4. CountersKept
  BY TaskSame DEF IInv
<1> QED
  BY <1>1, <1>3, <1>4

LEMMA HistoryTyped ==
  ASSUME IInv PROVE successes \in [Tasks -> Nat] /\ overlap \in [Tasks -> BOOLEAN]
  BY DEF IInv, TypeOK

LEMMA FireOK == ASSUME IInv, NEW j \in Jobs, Fire(j) PROVE IInv'
<1>1. /\ job' \in [Jobs -> Job] /\ OthersKept(j)
      /\ job[j].at = "idle" /\ job'[j].at = "fired"
      /\ job'[j].left = job[j].left /\ job'[j].ended = job[j].ended
      /\ job'[j].row = job[j].row
  BY FireJob DEF IInv
<1>2. UNCHANGED <<task, due, entries, server, restoring, missed, req, successes, overlap, stops>>
  BY DEF Fire
<1>3. TypeOK' /\ Covered' /\ ReqSound' /\ CountersKept
  BY <1>1, <1>2, HistoryTyped, JobsOnly
<1>4. "idle" \notin InFlight /\ "fired" \notin InFlight
  BY DEF InFlight
<1>5. Created' /\ Counting' /\ RunCountSound'
  BY <1>1, <1>2, <1>3, <1>4, CountsKept
<1>6. RowSound' /\ RunRowsTruthful'
  BY <1>1, RowsKept DEF IInv, RowSound, RunRowsTruthful
<1> QED
  BY <1>3, <1>5, <1>6 DEF IInv

LEMMA CheckOK == ASSUME IInv, NEW j \in Jobs, Check(j) PROVE IInv'
<1>1. PICK k \in Tasks : job[j].task = k
  BY JobTask
<1>2. /\ job' \in [Jobs -> Job] /\ OthersKept(j)
      /\ job[j].at = "fired" /\ job'[j].at \in {"due", "done"}
      /\ job'[j].task = k /\ job'[j].count = task[k].count
      /\ job'[j].left = job[j].left /\ job'[j].ended = job[j].ended
      /\ job'[j].row = job[j].row
      /\ job'[j].at = "due" => task[k].there
  BY <1>1, CheckJob DEF IInv
<1>3. UNCHANGED <<task, due, entries, server, restoring, missed, req, successes, stops>>
  BY DEF Check
<1>4. "fired" \notin InFlight /\ "done" \notin InFlight
  BY DEF InFlight
<1> DEFINE go == task[k].there /\ task[k].enabled /\ (task[k].once => due[k])
<1>5. /\ overlap' = [overlap EXCEPT ![k] = @ \/ (go /\ Busy(k))]
      /\ job'[j].at = IF go THEN "due" ELSE "done"
  BY <1>1 DEF Check, IInv, TypeOK, Job
<1>6. Created' /\ Counting' /\ RunCountSound' /\ overlap' \in [Tasks -> BOOLEAN]
  <2>1. CASE go
    <3>1. overlap' = [overlap EXCEPT ![k] = @ \/ Busy(k)] /\ job'[j].at = "due"
      BY <1>5, <2>1
    <3> QED
      BY <1>2, <1>3, <1>4, <3>1, EnterOK
  <2>2. CASE ~go
    <3>1. overlap' = overlap
      <4>1. overlap \in [Tasks -> BOOLEAN]
        BY HistoryTyped
      <4>2. overlap' = [overlap EXCEPT ![k] = overlap[k]]
        BY <1>5, <2>2, <4>1
      <4> QED
        BY <4>1, <4>2
    <3>2. job'[j].at = "done"
      BY <1>5, <2>2
    <3>3. CountersKept
      BY <1>3, TaskSame DEF IInv
    <3> QED
      BY <1>2, <1>3, <1>4, <3>1, <3>2, <3>3, CountsKept, HistoryTyped
  <2> QED
    BY <2>1, <2>2
<1>7. TypeOK' /\ Covered' /\ ReqSound'
  BY <1>2, <1>3, <1>6, HistoryTyped, JobsOnly
<1>8. RowSound' /\ RunRowsTruthful'
  BY <1>2, RowsKept DEF IInv, RowSound, RunRowsTruthful
<1> QED
  BY <1>6, <1>7, <1>8 DEF IInv

LEMMA RunNowOK == ASSUME IInv, NEW j \in Jobs, RunNow(j) PROVE IInv'
<1> DEFINE k == job'[j].task
<1>1. /\ job' \in [Jobs -> Job] /\ OthersKept(j)
      /\ job[j].at = "idle" /\ job'[j].at = "due"
      /\ k \in Tasks /\ task[k].there /\ job'[j].count = task[k].count
      /\ job'[j].left = job[j].left /\ job'[j].ended = job[j].ended
      /\ job'[j].row = job[j].row
      /\ overlap' = [overlap EXCEPT ![k] = @ \/ Busy(k)]
  BY RunNowJob DEF IInv
<1>2. UNCHANGED <<task, due, entries, server, restoring, missed, req, successes, stops>>
  BY DEF RunNow
<1>3. "idle" \notin InFlight
  BY DEF InFlight
<1>4. Created' /\ Counting' /\ RunCountSound' /\ overlap' \in [Tasks -> BOOLEAN]
  BY <1>1, <1>2, <1>3, EnterOK
<1>5. TypeOK' /\ Covered' /\ ReqSound'
  BY <1>1, <1>2, <1>4, HistoryTyped, JobsOnly
<1>6. RowSound' /\ RunRowsTruthful'
  BY <1>1, RowsKept DEF IInv, RowSound, RunRowsTruthful
<1> QED
  BY <1>4, <1>5, <1>6 DEF IInv

LEMMA LeaveOK == ASSUME IInv, NEW j \in Jobs, Leave(j) PROVE IInv'
<1>1. /\ job' \in [Jobs -> Job] /\ OthersKept(j)
      /\ job'[j].at = job[j].at /\ job'[j].task = job[j].task
      /\ job'[j].count = job[j].count
      /\ job'[j].left /\ job'[j].ended = job[j].ended
      /\ job'[j].row = job[j].row
  BY LeaveJob DEF IInv
<1>2. /\ job[j].at \in InFlight
      /\ UNCHANGED <<task, due, entries, server, restoring, missed, req, successes, overlap, stops>>
  BY DEF Leave
<1>3. TypeOK' /\ Covered' /\ ReqSound' /\ CountersKept
  BY <1>1, <1>2, HistoryTyped, JobsOnly
<1>4. Created' /\ Counting' /\ RunCountSound'
  BY <1>1, <1>2, <1>3, CountsKept
<1>5. RowSound' /\ RunRowsTruthful'
  BY <1>1, RowsKept DEF IInv, RowSound, RunRowsTruthful
<1> QED
  BY <1>3, <1>4, <1>5 DEF IInv

LEMMA OpenRunOK == ASSUME IInv, NEW j \in Jobs, OpenRun(j) PROVE IInv'
<1>1. /\ job' \in [Jobs -> Job] /\ OthersKept(j)
      /\ job[j].at = "due" /\ job'[j].task = job[j].task
      /\ job'[j].count = job[j].count
      /\ job'[j].left = job[j].left /\ job'[j].ended = job[j].ended
      /\ \/ job'[j].at = "opened" /\ job'[j].row = "running"
         \/ job'[j].at = "done" /\ job'[j].row = job[j].row
  BY OpenRunJob DEF IInv
<1>2. UNCHANGED <<task, due, entries, server, restoring, missed, req, successes, overlap, stops>>
  BY DEF OpenRun
<1>3. TypeOK' /\ Covered' /\ ReqSound' /\ CountersKept
  BY <1>1, <1>2, HistoryTyped, JobsOnly
<1>4. Created' /\ Counting' /\ RunCountSound'
  BY <1>1, <1>2, <1>3, CountsKept DEF InFlight
<1>5. RowSound' /\ RunRowsTruthful'
  BY <1>1, RowsKept DEF IInv, RowSound, RunRowsTruthful
<1> QED
  BY <1>3, <1>4, <1>5 DEF IInv

LEMMA PromptOK == ASSUME IInv, NEW j \in Jobs, Prompt(j) PROVE IInv'
<1>1. /\ job' \in [Jobs -> Job] /\ OthersKept(j)
      /\ job[j].at = "opened" /\ job'[j].task = job[j].task
      /\ job'[j].count = job[j].count
      /\ job'[j].left = job[j].left /\ job'[j].row = job[j].row
      /\ \/ job'[j].at = "agent"
         \/ job'[j].at = "bad" /\ job'[j].ended = "bad"
  BY PromptJob DEF IInv
<1>2. UNCHANGED <<task, due, entries, server, restoring, missed, req, successes, overlap, stops>>
  BY DEF Prompt
<1>3. TypeOK' /\ Covered' /\ ReqSound' /\ CountersKept
  BY <1>1, <1>2, HistoryTyped, JobsOnly
<1>4. Created' /\ Counting' /\ RunCountSound'
  BY <1>1, <1>2, <1>3, CountsKept DEF InFlight
<1>5. RowSound' /\ RunRowsTruthful'
  BY <1>1, RowsKept DEF IInv, RowSound, RunRowsTruthful
<1> QED
  BY <1>3, <1>4, <1>5 DEF IInv

LEMMA AgentEndsOK == ASSUME IInv, NEW j \in Jobs, AgentEnds(j) PROVE IInv'
<1>1. PICK k \in Tasks : job[j].task = k
  BY JobTask
<1>2. /\ job' \in [Jobs -> Job] /\ OthersKept(j)
      /\ job[j].at = "agent" /\ job'[j].task = k
      /\ job'[j].count = job[j].count
      /\ job'[j].left = job[j].left /\ job'[j].row = job[j].row
      /\ \/ /\ job'[j].at = "ok" /\ job'[j].ended = "ok"
            /\ successes' = [successes EXCEPT ![k] = @ + 1]
         \/ /\ job'[j].at = "bad" /\ job'[j].ended = "bad"
            /\ successes' = successes
  BY <1>1, AgentEndsJob DEF IInv
<1>3. UNCHANGED <<task, due, entries, server, restoring, missed, req, overlap, stops>>
  BY DEF AgentEnds
<1>4. Created' /\ Counting' /\ RunCountSound' /\ successes' \in [Tasks -> Nat]
  <2>1. CASE job'[j].at = "ok"
    BY <1>1, <1>2, <1>3, <2>1, EndsWellOK
  <2>2. CASE job'[j].at = "bad"
    <3>1. CountersKept
      BY <1>3, TaskSame DEF IInv
    <3>2. successes' = successes
      BY <1>2, <2>2
    <3>3. /\ job[j].at \in InFlight /\ job'[j].at \in InFlight
          /\ job'[j].at \notin {"ok", "closed"} /\ job[j].at \notin {"ok", "closed"}
      BY <1>2, <2>2 DEF InFlight
    <3> QED
      BY <1>1, <1>2, <1>3, <3>1, <3>2, <3>3, CountsKept, HistoryTyped
  <2> QED
    BY <1>2, <2>1, <2>2
<1>5. TypeOK' /\ Covered' /\ ReqSound'
  BY <1>2, <1>3, <1>4, HistoryTyped, JobsOnly
<1>6. RowSound' /\ RunRowsTruthful'
  BY <1>2, RowsKept DEF IInv, RowSound, RunRowsTruthful
<1> QED
  BY <1>4, <1>5, <1>6 DEF IInv

LEMMA CloseRunOK == ASSUME IInv, NEW j \in Jobs, CloseRun(j) PROVE IInv'
<1>1. /\ job' \in [Jobs -> Job] /\ OthersKept(j)
      /\ job'[j].task = job[j].task /\ job'[j].count = job[j].count
      /\ job'[j].left = job[j].left /\ job'[j].ended = job[j].ended
      /\ \/ /\ job[j].at = "ok" /\ job'[j].at = "closed"
            /\ job'[j].row = IF job[j].left THEN job[j].row ELSE "success"
         \/ /\ job[j].at = "bad" /\ job'[j].at = "done"
            /\ job'[j].row = IF job[j].left THEN job[j].row ELSE "failed"
  BY CloseRunJob DEF IInv
<1>2. UNCHANGED <<task, due, entries, server, restoring, missed, req, successes, overlap, stops>>
  BY DEF CloseRun
<1>3. TypeOK' /\ Covered' /\ ReqSound' /\ CountersKept
  BY <1>1, <1>2, HistoryTyped, JobsOnly
<1>4. Created' /\ Counting' /\ RunCountSound'
  BY <1>1, <1>2, <1>3, CountsKept DEF InFlight
<1>5. RowSound' /\ RunRowsTruthful'
  BY <1>1, RowsKept DEF IInv, RowSound, RunRowsTruthful
<1> QED
  BY <1>3, <1>4, <1>5 DEF IInv

LEMMA RetireOK == ASSUME IInv, NEW j \in Jobs, Retire(j) PROVE IInv'
<1>1. PICK k \in Tasks : job[j].task = k
  BY JobTask
<1>2. /\ job' \in [Jobs -> Job] /\ OthersKept(j)
      /\ job[j].at = "counted" /\ job'[j].at = "done"
      /\ job'[j].task = k /\ job'[j].count = job[j].count
      /\ job'[j].left = job[j].left /\ job'[j].ended = job[j].ended
      /\ job'[j].row = job[j].row
  BY <1>1, RetireJob DEF IInv
<1> DEFINE b == task[k].enabled /\ ~(job[j].once /\ ~job[j].now)
<1>3. /\ task' = [task EXCEPT ![k].enabled = b]
      /\ UNCHANGED <<due, entries, server, restoring, missed, req, successes, overlap, stops>>
  BY <1>1 DEF Retire
<1>4. b \in BOOLEAN /\ (b => task[k].enabled)
  OBVIOUS
<1> HIDE DEF b
<1>5. /\ CountersKept /\ task'[k].enabled = b /\ task'[k].there = task[k].there
      /\ \A h \in Tasks : h # k => task'[h] = task[h]
  BY <1>3, <1>4, TaskSwitched DEF IInv
<1>6. TypeOK'
  BY <1>2, <1>3, <1>5 DEF IInv, TypeOK, CountersKept
<1>7. Covered' /\ ReqSound'
  <2>1. Active(k)' => Active(k)
    BY <1>4, <1>5 DEF Active, CountersKept
  <2>2. \A h \in Tasks : Active(h)' => Active(h)
    BY <1>5, <2>1 DEF Active
  <2> QED
    BY <1>3, <2>2, CoveredKept
<1>8. Created' /\ Counting' /\ RunCountSound'
  <2>1. "counted" \notin InFlight /\ "done" \notin InFlight
    BY DEF InFlight
  <2> QED
    BY <1>2, <1>3, <1>5, <2>1, CountsKept
<1>9. RowSound' /\ RunRowsTruthful'
  BY <1>2, RowsKept DEF IInv, RowSound, RunRowsTruthful
<1> QED
  BY <1>6, <1>7, <1>8, <1>9 DEF IInv

-----------------------------------------------------------------------------
(* The theorems                                                            *)

LEMMA InitOK == Init => IInv
<1> SUFFICES ASSUME Init PROVE IInv
  OBVIOUS
<1> DEFINE Rows == [born: {TRUE}, there: {TRUE}, enabled: BOOLEAN, once: BOOLEAN,
                    parses: BOOLEAN, count: {0}]
<1>a. Unborn \in Task
  BY Z3 DEF Unborn, Task
<1>b. ASSUME NEW r \in Rows PROVE r \in Task
  <2>1. r = [born |-> r.born, there |-> r.there, enabled |-> r.enabled,
             once |-> r.once, parses |-> r.parses, count |-> r.count]
    BY <1>b, Zenon
  <2>2. r.born \in BOOLEAN /\ r.there \in BOOLEAN /\ r.enabled \in BOOLEAN
        /\ r.once \in BOOLEAN /\ r.parses \in BOOLEAN
    BY <1>b, Zenon
  <2>3. r.count \in Nat
    BY <1>b, SMT
  <2> QED
    BY <2>1, <2>2, <2>3, Zenon DEF Task
<1>c. \A r \in Stored : r \in Rows
  BY Zenon DEF Stored
<1>1. Unborn \in Task /\ Stored \subseteq Task
  BY <1>a, <1>b, <1>c, Zenon
<1>2. PICK k0 \in Tasks :
        /\ req = [q \in Reqs |-> [at |-> "idle", kind |-> "create", task |-> k0,
                                  enabled |-> "keep"]]
        /\ job = [j \in Jobs |-> [at |-> "idle", task |-> k0, once |-> FALSE,
                                  count |-> 0, now |-> FALSE, left |-> FALSE,
                                  ended |-> "none", row |-> "none"]]
  BY DEF Init
<1>3. TypeOK
  <2>1. task \in [Tasks -> Task]
    BY <1>1 DEF Init
  <2>2. req \in [Reqs -> Request]
    BY <1>2 DEF Request, Kinds
  <2>3. job \in [Jobs -> Job]
    BY <1>2 DEF Job
  <2>4. due \in [Tasks -> BOOLEAN] /\ overlap \in [Tasks -> BOOLEAN]
    BY Zenon DEF Init
  <2>5. entries \in [Tasks -> Nat] /\ successes \in [Tasks -> Nat] /\ stops \in Nat
    BY DEF Init
  <2>6. server = "down" /\ restoring = {} /\ missed = {} /\ stops = 0
    BY DEF Init
  <2> QED
    BY <2>1, <2>2, <2>3, <2>4, <2>5, <2>6, SchedConstants DEF TypeOK
<1>4. \A j \in Jobs : /\ job[j].at = "idle" /\ job[j].row = "none"
                      /\ job[j].at \notin InFlight
  BY <1>2 DEF InFlight
<1>5. \A q \in Reqs : req[q].at = "idle" /\ req[q].kind = "create"
  BY <1>2
<1>6. ReqSound /\ Covered
  BY <1>5 DEF ReqSound, Covered, Init
<1>7. \A k \in Tasks : task[k].count = 0 /\ (~task[k].born => ~task[k].there)
  <2> SUFFICES ASSUME NEW k \in Tasks
               PROVE  task[k].count = 0 /\ (~task[k].born => ~task[k].there)
    OBVIOUS
  <2>1. task[k] \in {Unborn} \cup Stored
    BY DEF Init
  <2>2. CASE task[k] = Unborn
    BY <2>2 DEF Unborn
  <2>3. CASE task[k] \in Rows
    <3>1. task[k].born = TRUE
      BY <2>3, Zenon
    <3>2. task[k].count = 0
      BY <2>3
    <3> QED
      BY <3>1, <3>2
  <2> QED
    BY <2>1, <2>2, <2>3, <1>c
<1>8. Created
  BY <1>4, <1>5, <1>7 DEF Created, Init
<1>9. Counting
  BY <1>4 DEF Counting
<1>10. RunCountSound
  BY <1>7 DEF RunCountSound, Init
<1>11. RowSound /\ RunRowsTruthful
  BY <1>4 DEF RowSound, RunRowsTruthful
<1> QED
  BY <1>3, <1>6, <1>8, <1>9, <1>10, <1>11 DEF IInv

LEMMA StepOK == IInv /\ [Next]_vars => IInv'
<1> SUFFICES ASSUME IInv, [Next]_vars PROVE IInv'
  OBVIOUS
<1>1. CASE \/ Start \/ RestoreRead \/ RestoreFails \/ RestoreOne \/ RestoreDone
           \/ Served \/ UNCHANGED vars \/ \E k \in Tasks : Tick(k)
  BY <1>1, ServerOK
<1>2. CASE Stop
  BY <1>2, StopOK
<1>3. ASSUME NEW q \in Reqs, Arrive(q) \/ ReqStep(q) PROVE IInv'
  BY <1>3, ArriveOK, InsertOK, UnscheduleOK, WriteOK, BreakOK, ReadBackOK,
     ScheduleOK DEF ReqStep
<1>4. ASSUME NEW j \in Jobs, Fire(j) \/ RunNow(j) \/ Leave(j) \/ JobStep(j) PROVE IInv'
  BY <1>4, FireOK, RunNowOK, LeaveOK, CheckOK, OpenRunOK, PromptOK, AgentEndsOK,
     CloseRunOK, UpdateTaskStatsOK, RetireOK DEF JobStep
<1> QED
  BY <1>1, <1>2, <1>3, <1>4 DEF Next

\* The inductive invariant of the scheduler: table, cron entries, requests and
\* jobs agree as far as the steps still to come require.
THEOREM SchedulerInvariant == Spec => []IInv
  BY InitOK, StepOK, PTL DEF Spec

\* Once the edits of a task are over and none of them broke off half way, it
\* has an entry if it is enabled and cron can parse it, whatever the other
\* requests, the tools and restore do, unless restore could not read the table.
THEOREM EnabledIsScheduledTheorem == Spec => []EnabledIsScheduled
<1>1. IInv => EnabledIsScheduled
  <2> SUFFICES ASSUME IInv PROVE EnabledIsScheduled
    OBVIOUS
  <2>1. ASSUME server = "running", NEW k \in Tasks, Active(k), Settled(k), ~ByTool(k),
               k \notin missed
        PROVE  entries[k] > 0
    <3>1. restoring = {}
      BY <2>1 DEF IInv, Covered
    <3>2. \A q \in Reqs : ~Holds(q, k)
      BY <2>1 DEF Holds, Settled
    <3> QED
      BY <2>1, <3>1, <3>2 DEF IInv, Covered
  <2> QED
    BY <2>1 DEF EnabledIsScheduled, IInv
<1> QED
  BY <1>1, SchedulerInvariant, PTL

\* run_count never exceeds the successful runs and, once a task's jobs are
\* over, equals them unless two overlapped or one was cut off.
THEOREM RunCountSoundTheorem == Spec => []RunCountSound
<1>1. IInv => RunCountSound
  BY DEF IInv
<1> QED
  BY <1>1, SchedulerInvariant, PTL

\* A scheduled_runs row agrees with its run, and stays "running" after it only
\* when the client of a "run now" had left.
THEOREM RunRowsTruthfulTheorem == Spec => []RunRowsTruthful
<1>1. IInv => RunRowsTruthful
  BY DEF IInv
<1> QED
  BY <1>1, SchedulerInvariant, PTL

=============================================================================
