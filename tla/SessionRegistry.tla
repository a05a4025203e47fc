--------------------------- MODULE SessionRegistry ---------------------------
(***************************************************************************)
(* Sessions: the sessions table with the messages and plans that hang on   *)
(* it, the SessionManager, which knows the Session of the turn that is     *)
(* going on, the turns that register there, and the requests that create,  *)
(* rename and delete sessions.  Every statement on the database and every  *)
(* SessionManager call is a step.                                          *)
(*                                                                         *)
(* A turn is a chat request from its arrival to its handler's return; its  *)
(* loop is ChatTurn's.  Scheduled runs do not register and are not turns.  *)
(* scheduled_tasks.session_id is no foreign key.                           *)
(***************************************************************************)
EXTENDS FiniteSets

CONSTANTS
    Sessions,   \* session ids; each is created at most once (uuid)
    Turns,      \* chat requests
    Reqs,       \* rename, delete and bulk delete requests
    Tasks,      \* scheduled task ids
    None        \* no turn, session or request

ASSUME RegistryConstants == None \notin Sessions \cup Turns \cup Reqs

VARIABLES
    row,        \* sessions
    title,      \* sessions.title, named by the request that wrote it
    msgs,       \* messages, per session: the turns that have some
    plans,      \* plans, per session: the turns that have some
    bound,      \* scheduled_tasks, per task: its session
    registry,   \* SessionManager.sessions: the turn whose Session is there
    turn,       \* the chat requests
    req,        \* the other requests
    shared,     \* history: turns that ran beside another of their session
    torn,       \* history: <<q, t>>: q deleted t's session while t ran
    orphaned    \* history: <<q, k>>: q deleted the session of task k

tables  == <<row, title, msgs, plans, bound>>
history == <<shared, torn, orphaned>>
vars    == <<tables, registry, turn, req, history>>

Turn == [at: {"idle", "resolved", "stored", "running", "over"}, sess: Sessions \cup {None}]

\* saw and tasks: history, the live turns at the request's Lookup and the
\* tasks it counted.
Request == [at: {"idle", "begun", "clear", "renamed", "done", "conflict", "notfound", "failed"},
            kind: {"rename", "delete", "bulk"}, sess: Sessions \cup {None},
            saw: SUBSET Turns, tasks: SUBSET Tasks]

TypeOK ==
    /\ row \in [Sessions -> {"unborn", "there", "gone"}]
    /\ title \in [Sessions -> Reqs \cup {None}]
    /\ msgs \in [Sessions -> SUBSET Turns]
    /\ plans \in [Sessions -> SUBSET Turns]
    /\ bound \in [Tasks -> Sessions \cup {None}]
    /\ registry \in [Sessions -> Turns \cup {None}]
    /\ turn \in [Turns -> Turn]
    /\ \A t \in Turns : turn[t].at # "idle" => turn[t].sess \in Sessions
    /\ req \in [Reqs -> Request]
    /\ \A q \in Reqs :
         \/ req[q].at \in {"clear", "renamed"}
         \/ req[q].at = "begun" /\ req[q].kind = "delete"
         => req[q].sess \in Sessions
    /\ shared \subseteq Turns
    /\ torn \subseteq Reqs \X Turns
    /\ orphaned \subseteq Reqs \X Tasks

Init ==
    /\ row = [s \in Sessions |-> "unborn"]
    /\ title = [s \in Sessions |-> None]
    /\ msgs = [s \in Sessions |-> {}]
    /\ plans = [s \in Sessions |-> {}]
    /\ bound = [k \in Tasks |-> None]
    /\ registry = [s \in Sessions |-> None]
    /\ turn = [t \in Turns |-> [at |-> "idle", sess |-> None]]
    /\ req = [q \in Reqs |-> [at |-> "idle", kind |-> "delete", sess |-> None,
                              saw |-> {}, tasks |-> {}]]
    /\ shared = {}
    /\ torn = {}
    /\ orphaned = {}

Live(s)    == {t \in Turns : turn[t].at = "running" /\ turn[t].sess = s}
TasksOf(s) == {k \in Tasks : bound[k] = s}

-----------------------------------------------------------------------------
(* Sessions and tasks                                                      *)

\* createSessionHandler.
CreateSession(s) ==
    /\ row[s] = "unborn"
    /\ row' = [row EXCEPT ![s] = "there"]
    /\ UNCHANGED <<title, msgs, plans, bound, registry, turn, req, history>>

\* createScheduledTaskHandler or schedule_task; the session is not looked up.
CreateTask(k, s) ==
    /\ bound[k] = None
    /\ row[s] # "unborn"
    /\ bound' = [bound EXCEPT ![k] = s]
    /\ UNCHANGED <<row, title, msgs, plans, registry, turn, req, history>>

DeleteTask(k) ==
    /\ bound[k] # None
    /\ bound' = [bound EXCEPT ![k] = None]
    /\ UNCHANGED <<row, title, msgs, plans, registry, turn, req, history>>

-----------------------------------------------------------------------------
(* Turns                                                                   *)

\* Mutant: the id of a session just created is not carried over.
ResolveForgets(t, s) ==
    /\ turn[t].at = "idle"
    /\ \/ row[s] = "there" /\ UNCHANGED row
       \/ row[s] = "unborn" /\ row' = [row EXCEPT ![s] = "there"]
    /\ turn' = [turn EXCEPT ![t] = [at |-> "resolved",
                                   sess |-> IF row[s] = "there" THEN s ELSE None]]
    /\ UNCHANGED <<title, msgs, plans, bound, registry, req, history>>

\* chatHandler finds the session, or creates one when the request names none.
Resolve(t, s) ==
    /\ turn[t].at = "idle"
    /\ \/ row[s] = "there" /\ UNCHANGED row
       \/ row[s] = "unborn" /\ row' = [row EXCEPT ![s] = "there"]
    /\ turn' = [turn EXCEPT ![t] = [at |-> "resolved", sess |-> s]]
    /\ UNCHANGED <<title, msgs, plans, bound, registry, req, history>>

\* GetSession: 404.
ResolveFails(t, s) ==
    /\ turn[t].at = "idle"
    /\ row[s] = "gone"
    /\ turn' = [turn EXCEPT ![t] = [at |-> "over", sess |-> s]]
    /\ UNCHANGED <<tables, registry, req, history>>

\* Mutant: the insert does not mind a missing session.
InsertedAnyway(t) == msgs' = [msgs EXCEPT ![turn[t].sess] = @ \cup {t}]

\* BatchInsertMessages: messages.session_id is a foreign key.
Inserted(t) ==
    /\ row[turn[t].sess] = "there"
    /\ msgs' = [msgs EXCEPT ![turn[t].sess] = @ \cup {t}]

\* The user's message is stored ...
StoreUser(t) ==
    /\ turn[t].at = "resolved"
    /\ Inserted(t)
    /\ turn' = [turn EXCEPT ![t].at = "stored"]
    /\ UNCHANGED <<row, title, plans, bound, registry, req, history>>

\* ... or a 500 is answered: the session went away, or the client.
StoreUserFails(t) ==
    /\ turn[t].at = "resolved"
    /\ turn' = [turn EXCEPT ![t].at = "over"]
    /\ UNCHANGED <<tables, registry, req, history>>

\* Mutant: the manager is asked for a Session of its own (Get, not Set).
RegisterWithGet(t) ==
    LET s == turn[t].sess IN
    /\ turn[t].at = "stored"
    /\ turn' = [turn EXCEPT ![t].at = "running"]
    /\ shared' = IF Live(s) = {} THEN shared ELSE shared \cup Live(s) \cup {t}
    /\ UNCHANGED <<tables, registry, req, torn, orphaned>>

\* NewSession and SessionManager.Set; a turn already there is overwritten.
Register(t) ==
    LET s == turn[t].sess IN
    /\ turn[t].at = "stored"
    /\ registry' = [registry EXCEPT ![s] = t]
    /\ turn' = [turn EXCEPT ![t].at = "running"]
    /\ shared' = IF Live(s) = {} THEN shared ELSE shared \cup Live(s) \cup {t}
    /\ UNCHANGED <<tables, req, torn, orphaned>>

\* persistTurn stores a response; if it fails the loop ends (Return).
PersistTurn(t) ==
    /\ turn[t].at = "running"
    /\ Inserted(t)
    /\ UNCHANGED <<row, title, plans, bound, registry, turn, req, history>>

\* k8s_plan_write: CreatePlan, whose failure is ignored.
CreatePlan(t) ==
    /\ turn[t].at = "running"
    /\ row[turn[t].sess] = "there"
    /\ plans' = [plans EXCEPT ![turn[t].sess] = @ \cup {t}]
    /\ UNCHANGED <<row, title, msgs, bound, registry, turn, req, history>>

\* Mutant: the entry of a turn that ran beside another is left alone.
ReturnKeepsEntry(t) ==
    /\ turn[t].at = "running"
    /\ registry' = [registry EXCEPT ![turn[t].sess] = IF t \in shared THEN @ ELSE None]
    /\ turn' = [turn EXCEPT ![t].at = "over"]
    /\ UNCHANGED <<tables, req, history>>

\* The handler returns: SessionManager.Drop, whoever's Session is there.
Return(t) ==
    /\ turn[t].at = "running"
    /\ registry' = [registry EXCEPT ![turn[t].sess] = None]
    /\ turn' = [turn EXCEPT ![t].at = "over"]
    /\ UNCHANGED <<tables, req, history>>

-----------------------------------------------------------------------------
(* putSessionHandler, deleteSessionHandler, bulkDeleteSessionsHandler      *)

\* UpdateSessionTitle, then GetSession, which fails if the row has gone.
Rename(q, s) ==
    /\ req[q].at = "idle"
    /\ req' = [req EXCEPT ![q].kind = "rename", ![q].sess = s,
                          ![q].at = IF row[s] = "there" THEN "renamed" ELSE "notfound"]
    /\ title' = IF row[s] = "there" THEN [title EXCEPT ![s] = q] ELSE title
    /\ UNCHANGED <<row, msgs, plans, bound, registry, turn, history>>

RenameReadBack(q) ==
    /\ req[q].at = "renamed"
    /\ req' = [req EXCEPT ![q].at = IF row[req[q].sess] = "there" THEN "done" ELSE "failed"]
    /\ UNCHANGED <<tables, registry, turn, history>>

\* Mutant: the registry is not asked.
DeleteUnlooked(q, s) ==
    /\ req[q].at = "idle"
    /\ req' = [req EXCEPT ![q].kind = "delete", ![q].sess = s, ![q].saw = Live(s),
                          ![q].at = "begun"]
    /\ UNCHANGED <<tables, registry, turn, history>>

\* SessionManager.Lookup: 409 while a turn is registered.
DeleteLookup(q, s) ==
    /\ req[q].at = "idle"
    /\ req' = [req EXCEPT ![q].kind = "delete", ![q].sess = s, ![q].saw = Live(s),
                          ![q].at = IF registry[s] = None THEN "begun" ELSE "conflict"]
    /\ UNCHANGED <<tables, registry, turn, history>>

\* GetScheduledTasks(id): 409 while the session has tasks.
DeleteCountTasks(q) ==
    /\ req[q].at = "begun" /\ req[q].kind = "delete"
    /\ req' = [req EXCEPT ![q].tasks = TasksOf(req[q].sess),
                          ![q].at = IF TasksOf(req[q].sess) = {} THEN "clear" ELSE "conflict"]
    /\ UNCHANGED <<tables, registry, turn, history>>

\* The rows of the sessions in gone are deleted, and with them, by ON DELETE
\* CASCADE, their messages and plans.
Deleted(q, gone) ==
    /\ row' = [s \in Sessions |-> IF s \in gone THEN "gone" ELSE row[s]]
    /\ msgs' = [s \in Sessions |-> IF s \in gone THEN {} ELSE msgs[s]]
    /\ plans' = [s \in Sessions |-> IF s \in gone THEN {} ELSE plans[s]]
    /\ torn' = torn \cup {<<q, t>> : t \in {u \in Turns : \E s \in gone : u \in Live(s)}}
    /\ orphaned' = orphaned \cup {<<q, k>> : k \in {j \in Tasks : bound[j] \in gone}}

\* DeleteSession: 404 if it has gone meanwhile.
DeleteRow(q) ==
    LET s == req[q].sess IN
    /\ req[q].at = "clear"
    /\ IF row[s] = "there"
         THEN Deleted(q, {s}) /\ req' = [req EXCEPT ![q].at = "done"]
         ELSE /\ req' = [req EXCEPT ![q].at = "notfound"]
              /\ UNCHANGED <<row, msgs, plans, torn, orphaned>>
    /\ UNCHANGED <<title, bound, registry, turn, shared>>

\* A bulk delete counts the tasks, for its answer ...
BulkCount(q) ==
    /\ req[q].at = "idle"
    /\ req' = [req EXCEPT ![q].kind = "bulk", ![q].at = "begun",
                          ![q].tasks = {k \in Tasks : bound[k] # None}]
    /\ UNCHANGED <<tables, registry, turn, history>>

\* Mutant: the sessions of the tasks counted before are spared.
BulkSpares(q) == {bound[k] : k \in req[q].tasks}

\* ... and deletes, in one statement, every session that has no task.
Spared(q) == {bound[k] : k \in Tasks}

BulkDelete(q) ==
    /\ req[q].at = "begun" /\ req[q].kind = "bulk"
    /\ Deleted(q, {s \in Sessions : row[s] = "there" /\ s \notin Spared(q)})
    /\ req' = [req EXCEPT ![q].at = "done"]
    /\ UNCHANGED <<title, bound, registry, turn, shared>>

-----------------------------------------------------------------------------
TurnStep(t) == \/ \E s \in Sessions : Resolve(t, s) \/ ResolveFails(t, s)
               \/ StoreUser(t) \/ StoreUserFails(t) \/ Register(t)
               \/ PersistTurn(t) \/ CreatePlan(t) \/ Return(t)

ReqStep(q) == \/ \E s \in Sessions : Rename(q, s) \/ DeleteLookup(q, s)
              \/ RenameReadBack(q) \/ DeleteCountTasks(q) \/ DeleteRow(q)
              \/ BulkCount(q) \/ BulkDelete(q)

Next == \/ \E s \in Sessions : CreateSession(s)
        \/ \E k \in Tasks : DeleteTask(k) \/ \E s \in Sessions : CreateTask(k, s)
        \/ \E t \in Turns : TurnStep(t)
        \/ \E q \in Reqs : ReqStep(q)

Spec == Init /\ [][Next]_vars

-----------------------------------------------------------------------------
(* Properties                                                              *)

\* A turn that runs alone in its session can be found: the user's answer to
\* its plan or question reaches it, and a delete sees it.
LiveTurnFound ==
    \A t \in Turns : turn[t].at = "running" /\ t \notin shared => registry[turn[t].sess] = t

\* The registry never names a turn that is over, even where turns of one
\* session overwrote each other's entry: no answer goes to a dead Session, and
\* no session stays undeletable.
NoStaleEntry ==
    \A s \in Sessions : registry[s] # None => registry[s] \in Live(s)

\* A deleted session leaves nothing behind and nothing comes back: a turn that
\* outlives its session stores neither messages nor plans.
NoOrphanRows ==
    \A s \in Sessions : msgs[s] \cup plans[s] # {} => row[s] = "there"

\* DELETE never pulls a session from under a turn that was already running when
\* it looked, unless that turn had been overwritten by another.  (The bulk
\* delete does not look.)
DeleteSparesLiveTurns ==
    \A p \in torn : \/ req[p[1]].kind = "bulk"
                    \/ p[2] \notin req[p[1]].saw
                    \/ p[2] \in shared

\* A session with a scheduled task survives: the bulk delete never takes it,
\* and DELETE only when the task came after DELETE had counted.
TasksKeepSessions ==
    \A p \in orphaned : req[p[1]].kind = "delete" /\ p[2] \notin req[p[1]].tasks
=============================================================================
