------------------------ MODULE SessionRegistryProofs ------------------------
(***************************************************************************)
(* The invariants of SessionRegistry, for any number of sessions, turns,   *)
(* requests and tasks.                                                     *)
(*                                                                         *)
(* LiveTurnFound needs SharedSound: turns of one session that run at the   *)
(* same time are all recorded as shared, so whoever's entry a Register or  *)
(* a Return removes belonged to a turn the property excepts.  The two      *)
(* delete guards need ReqSound, what a request has established when it     *)
(* comes to its DELETE statement, and EndsSound, that a request which      *)
(* deleted something does nothing more.                                    *)
(***************************************************************************)
EXTENDS SessionRegistry, TLAPS

\* Turns that run side by side in one session are known as shared.
SharedSound ==
    \A t, u \in Turns :
        /\ turn[t].at = "running" /\ turn[u].at = "running"
        /\ t # u /\ turn[t].sess = turn[u].sess
        => t \in shared

\* A DELETE past its Lookup saw only turns whose entry was overwritten, and
\* past its count it saw no task.
ReqSound ==
    \A q \in Reqs :
        /\ req[q].at = "clear" => req[q].kind = "delete" /\ req[q].tasks = {}
        /\ req[q].at \in {"begun", "clear"} /\ req[q].kind = "delete"
             => req[q].saw \subseteq shared

\* A request that deleted rows is over.
EndsSound ==
    /\ \A p \in torn : req[p[1]].at = "done"
    /\ \A p \in orphaned : req[p[1]].at = "done"

IInv == /\ TypeOK /\ SharedSound /\ ReqSound /\ EndsSound
        /\ LiveTurnFound /\ NoStaleEntry /\ NoOrphanRows
        /\ DeleteSparesLiveTurns /\ TasksKeepSessions

-----------------------------------------------------------------------------
(* Type correctness                                                        *)

\* Every state of SessionRegistry is well typed.
LEMMA TypeInit == Init => TypeOK
  BY RegistryConstants DEF Init, TypeOK, Turn, Request

LEMMA TypeTurn ==
  ASSUME TypeOK, NEW t \in Turns, TurnStep(t)
  PROVE  TypeOK'
<1>1. ASSUME NEW s \in Sessions, Resolve(t, s) PROVE TypeOK'
  BY <1>1, TypeOK DEF TypeOK, Resolve, Turn, history
<1>2. ASSUME NEW s \in Sessions, ResolveFails(t, s) PROVE TypeOK'
  BY <1>2, TypeOK DEF TypeOK, ResolveFails, Turn, history, tables
<1>3. CASE StoreUser(t)
  BY <1>3, TypeOK DEF TypeOK, StoreUser, Inserted, Turn, history
<1>4. CASE StoreUserFails(t)
  BY <1>4, TypeOK DEF TypeOK, StoreUserFails, Turn, history, tables
<1>5. CASE Register(t)
  BY <1>5, TypeOK DEF TypeOK, Register, Turn, Live, tables
<1>6. CASE PersistTurn(t)
  BY <1>6, TypeOK DEF TypeOK, PersistTurn, Inserted, Turn, history
<1>7. CASE CreatePlan(t)
  BY <1>7, TypeOK DEF TypeOK, CreatePlan, Turn, history
<1>8. CASE Return(t)
  BY <1>8, TypeOK DEF TypeOK, Return, Turn, history, tables
<1> QED
  BY <1>1, <1>2, <1>3, <1>4, <1>5, <1>6, <1>7, <1>8, TurnStep(t) DEF TurnStep

LEMMA TypeDeleted ==
  ASSUME TypeOK, NEW q \in Reqs, NEW gone \in SUBSET Sessions, Deleted(q, gone)
  PROVE  /\ row' \in [Sessions -> {"unborn", "there", "gone"}]
         /\ msgs' \in [Sessions -> SUBSET Turns]
         /\ plans' \in [Sessions -> SUBSET Turns]
         /\ torn' \subseteq Reqs \X Turns
         /\ orphaned' \subseteq Reqs \X Tasks
  BY DEF Deleted, TypeOK, Live

\* The requests' part of TypeOK.
ReqTypeOK ==
    /\ req \in [Reqs -> Request]
    /\ \A q \in Reqs :
         \/ req[q].at \in {"clear", "renamed"}
         \/ req[q].at = "begun" /\ req[q].kind = "delete"
         => req[q].sess \in Sessions

\* A request that is answered stays well typed.
LEMMA TypeAnswered ==
  ASSUME TypeOK, NEW q \in Reqs, NEW a \in {"done", "failed", "notfound"},
         req' = [req EXCEPT ![q].at = a]
  PROVE  ReqTypeOK'
<1>1. req[q] \in Request /\ req \in [Reqs -> Request]
  BY DEF TypeOK
<1>2. [req[q] EXCEPT !.at = a] \in Request
  BY <1>1 DEF Request
<1>3. req' = [req EXCEPT ![q] = [req[q] EXCEPT !.at = a]]
  BY <1>1
<1>4. req' \in [Reqs -> Request]
  BY <1>1, <1>2, <1>3
<1>5. req'[q].at = a
  BY <1>1, <1>3 DEF Request
<1>6. ASSUME NEW r \in Reqs, r # q PROVE req'[r] = req[r]
  BY <1>1, <1>3, <1>6
<1>7. QED
  BY <1>4, <1>5, <1>6 DEF TypeOK, ReqTypeOK

LEMMA TypeReq ==
  ASSUME TypeOK, NEW q \in Reqs, ReqStep(q)
  PROVE  TypeOK'
<1>1. ASSUME NEW s \in Sessions, Rename(q, s) PROVE TypeOK'
  BY <1>1, TypeOK DEF TypeOK, Rename, Request, history
<1>2. ASSUME NEW s \in Sessions, DeleteLookup(q, s) PROVE TypeOK'
  <2>1. Live(s) \in SUBSET Turns
    BY DEF Live
  <2>2. ReqTypeOK'
    BY <1>2, <2>1 DEF TypeOK, ReqTypeOK, DeleteLookup, Request
  <2> QED
    BY <1>2, <2>2 DEF TypeOK, ReqTypeOK, DeleteLookup, history, tables
<1>3. CASE RenameReadBack(q)
  <2>1. PICK a \in {"done", "failed"} : req' = [req EXCEPT ![q].at = a]
    BY <1>3 DEF RenameReadBack
  <2>2. ReqTypeOK'
    BY <2>1, TypeAnswered
  <2> QED
    BY <1>3, <2>2 DEF TypeOK, ReqTypeOK, RenameReadBack, history, tables
<1>4. CASE DeleteCountTasks(q)
  <2>1. TasksOf(req[q].sess) \in SUBSET Tasks
    BY DEF TasksOf
  <2>2. ReqTypeOK'
    <3>1. PICK T \in SUBSET Tasks, a \in {"clear", "conflict"} :
            req' = [req EXCEPT ![q].tasks = T, ![q].at = a]
      BY <1>4, <2>1 DEF DeleteCountTasks
    <3>2. req[q] \in Request /\ req \in [Reqs -> Request]
      BY DEF TypeOK
    <3>3. [req[q] EXCEPT !.tasks = T, !.at = a] \in Request
      BY <3>2 DEF Request
    <3>4. req' = [req EXCEPT ![q] = [req[q] EXCEPT !.tasks = T, !.at = a]]
      BY <3>1, <3>2
    <3>5. req' \in [Reqs -> Request]
      BY <3>2, <3>3, <3>4
    <3> QED
      BY <1>4, <3>1, <3>2, <3>5 DEF TypeOK, ReqTypeOK, DeleteCountTasks
  <2> QED
    BY <1>4, <2>2 DEF TypeOK, ReqTypeOK, DeleteCountTasks, history, tables
<1>5. CASE DeleteRow(q)
  <2>1. req[q].sess \in Sessions
    BY <1>5 DEF TypeOK, DeleteRow
  <2>2. ReqTypeOK'
    <3>1. PICK a \in {"done", "notfound"} : req' = [req EXCEPT ![q].at = a]
      BY <1>5 DEF DeleteRow
    <3> QED
      BY <3>1, TypeAnswered
  <2>3. CASE row[req[q].sess] = "there"
    <3>1. Deleted(q, {req[q].sess})
      BY <1>5, <2>3 DEF DeleteRow
    <3> QED
      BY <1>5, <2>1, <2>2, <3>1, TypeDeleted DEF TypeOK, ReqTypeOK, DeleteRow
  <2>4. CASE row[req[q].sess] # "there"
    BY <1>5, <2>2, <2>4 DEF TypeOK, ReqTypeOK, DeleteRow
  <2> QED
    BY <2>3, <2>4
<1>6. CASE BulkCount(q)
  <2>1. {k \in Tasks : bound[k] # None} \in SUBSET Tasks
    OBVIOUS
  <2>2. ReqTypeOK'
    <3>1. PICK T \in SUBSET Tasks :
            req' = [req EXCEPT ![q].kind = "bulk", ![q].at = "begun", ![q].tasks = T]
      BY <1>6, <2>1 DEF BulkCount
    <3>2. req[q] \in Request /\ req \in [Reqs -> Request]
      BY DEF TypeOK
    <3>3. [req[q] EXCEPT !.kind = "bulk", !.at = "begun", !.tasks = T] \in Request
      BY <3>2 DEF Request
    <3>4. req' = [req EXCEPT ![q] = [req[q] EXCEPT !.kind = "bulk", !.at = "begun", !.tasks = T]]
      BY <3>1, <3>2
    <3>5. req' \in [Reqs -> Request]
      BY <3>2, <3>3, <3>4
    <3> QED
      BY <3>1, <3>2, <3>5 DEF TypeOK, ReqTypeOK
  <2> QED
    BY <1>6, <2>2 DEF TypeOK, ReqTypeOK, BulkCount, history, tables
<1>7. CASE BulkDelete(q)
  <2>1. ReqTypeOK'
    BY <1>7, TypeAnswered DEF BulkDelete
  <2>2. PICK gone \in SUBSET Sessions : Deleted(q, gone)
    BY <1>7 DEF BulkDelete
  <2> QED
    BY <1>7, <2>1, <2>2, TypeDeleted DEF TypeOK, ReqTypeOK, BulkDelete
<1> QED
  BY <1>1, <1>2, <1>3, <1>4, <1>5, <1>6, <1>7, ReqStep(q) DEF ReqStep

LEMMA TypeNext == TypeOK /\ [Next]_vars => TypeOK'
<1> SUFFICES ASSUME TypeOK, [Next]_vars PROVE TypeOK'
  OBVIOUS
<1>1. ASSUME NEW s \in Sessions, CreateSession(s) PROVE TypeOK'
  BY <1>1 DEF TypeOK, CreateSession, history
<1>2. ASSUME NEW k \in Tasks, DeleteTask(k) PROVE TypeOK'
  BY <1>2 DEF TypeOK, DeleteTask, history
<1>3. ASSUME NEW k \in Tasks, NEW s \in Sessions, CreateTask(k, s) PROVE TypeOK'
  BY <1>3 DEF TypeOK, CreateTask, history
<1>4. CASE UNCHANGED vars
  BY <1>4 DEF TypeOK, vars, tables, history
<1> QED
  BY <1>1, <1>2, <1>3, <1>4, TypeTurn, TypeReq DEF Next

-----------------------------------------------------------------------------
(* Turns and the registry                                                  *)

TurnInv == SharedSound /\ LiveTurnFound /\ NoStaleEntry

\* Outside the turns' own steps the turns and the registry stay as they are.
OtherStep == \/ \E s \in Sessions : CreateSession(s)
             \/ \E k \in Tasks : DeleteTask(k) \/ \E s \in Sessions : CreateTask(k, s)
             \/ \E q \in Reqs : ReqStep(q)
             \/ UNCHANGED vars

LEMMA OtherFrame ==
  ASSUME OtherStep
  PROVE  turn' = turn /\ registry' = registry /\ shared' = shared
<1>1. ASSUME NEW q \in Reqs, ReqStep(q)
      PROVE  turn' = turn /\ registry' = registry /\ shared' = shared
  BY <1>1 DEF ReqStep, Rename, DeleteLookup, RenameReadBack, DeleteCountTasks, DeleteRow,
              BulkCount, BulkDelete, history
<1> QED
  BY <1>1, OtherStep DEF OtherStep, CreateSession, CreateTask, DeleteTask, vars, history

LEMMA TurnInvFrame ==
  ASSUME TurnInv, turn' = turn, registry' = registry, shared' = shared
  PROVE  TurnInv'
  BY DEF TurnInv, SharedSound, LiveTurnFound, NoStaleEntry, Live

\* A turn that is not running, before and after, changes nothing here.
LEMMA TurnInvIdle ==
  ASSUME TypeOK, TurnInv, NEW t \in Turns, NEW r \in Turn,
         turn' = [turn EXCEPT ![t] = r],
         turn[t].at # "running", r.at # "running",
         registry' = registry, shared' = shared
  PROVE  TurnInv'
<1>1. \A u \in Turns : turn'[u] = IF u = t THEN r ELSE turn[u]
  BY DEF TypeOK
<1>2. \A u \in Turns : turn'[u].at = "running" => u # t /\ turn'[u] = turn[u]
  BY <1>1
<1>3. SharedSound'
  BY <1>2 DEF TurnInv, SharedSound
<1>4. LiveTurnFound'
  BY <1>2 DEF TurnInv, LiveTurnFound
<1>5. NoStaleEntry'
  BY <1>1 DEF TurnInv, NoStaleEntry, Live, TypeOK
<1> QED
  BY <1>3, <1>4, <1>5 DEF TurnInv

LEMMA TurnInvRegister ==
  ASSUME TypeOK, TurnInv, NEW t \in Turns, Register(t)
  PROVE  TurnInv'
<1> DEFINE s == turn[t].sess
<1>1. s \in Sessions /\ registry' = [registry EXCEPT ![s] = t]
  BY DEF Register, TypeOK
<1>2. /\ \A u \in Turns : turn'[u].sess = turn[u].sess
      /\ \A u \in Turns \ {t} : turn'[u] = turn[u]
      /\ turn'[t].at = "running" /\ turn[t].at = "stored"
  BY DEF Register, TypeOK, Turn
<1>3. /\ shared \subseteq shared' /\ shared' \subseteq Turns
      /\ \A u \in Turns \ {t} : turn[u].at = "running" /\ turn[u].sess = s
            => u \in shared' /\ t \in shared'
  BY DEF Register, TypeOK, Live
<1>4. SharedSound'
  BY <1>2, <1>3 DEF TurnInv, SharedSound
<1>5. LiveTurnFound'
  <2> SUFFICES ASSUME NEW u \in Turns, turn'[u].at = "running", u \notin shared'
               PROVE  registry'[turn'[u].sess] = u
    BY DEF LiveTurnFound
  <2>1. CASE u = t
    BY <1>1, <1>2, <2>1 DEF TypeOK
  <2>2. CASE u # t
    <3>1. turn[u].at = "running" /\ turn[u].sess # s /\ u \notin shared
      BY <1>2, <1>3, <2>2
    <3> QED
      BY <1>1, <1>2, <2>2, <3>1 DEF TurnInv, LiveTurnFound, TypeOK, Turn
  <2> QED
    BY <2>1, <2>2
<1>6. NoStaleEntry'
  <2> SUFFICES ASSUME NEW x \in Sessions, registry'[x] # None
               PROVE  /\ registry'[x] \in Turns
                      /\ turn'[registry'[x]].at = "running"
                      /\ turn'[registry'[x]].sess = x
    BY DEF NoStaleEntry, Live
  <2>1. CASE x = s
    BY <1>1, <1>2, <2>1 DEF TypeOK
  <2>2. CASE x # s
    <3>1. registry'[x] = registry[x]
      BY <1>1, <2>2 DEF TypeOK
    <3> QED
      BY <1>2, <2>2, <3>1 DEF TurnInv, NoStaleEntry, Live
  <2> QED
    BY <2>1, <2>2
<1> QED
  BY <1>4, <1>5, <1>6 DEF TurnInv

LEMMA TurnInvReturn ==
  ASSUME TypeOK, TurnInv, NEW t \in Turns, Return(t)
  PROVE  TurnInv'
<1> DEFINE s == turn[t].sess
<1>1. s \in Sessions /\ registry' = [registry EXCEPT ![s] = None] /\ shared' = shared
  BY DEF Return, TypeOK, history
<1>2. /\ \A u \in Turns \ {t} : turn'[u] = turn[u]
      /\ turn'[t].at = "over" /\ turn[t].at = "running"
  BY DEF Return, TypeOK, Turn
<1>3. SharedSound'
  BY <1>1, <1>2 DEF TurnInv, SharedSound
<1>4. LiveTurnFound'
  <2> SUFFICES ASSUME NEW u \in Turns, turn'[u].at = "running", u \notin shared'
               PROVE  registry'[turn'[u].sess] = u
    BY DEF LiveTurnFound
  <2>1. u # t /\ turn'[u] = turn[u] /\ turn[u].at = "running" /\ u \notin shared
    BY <1>1, <1>2
  <2>2. turn[u].sess # s
    BY <1>2, <2>1 DEF TurnInv, SharedSound
  <2> QED
    BY <1>1, <2>1, <2>2 DEF TurnInv, LiveTurnFound, TypeOK, Turn
<1>5. NoStaleEntry'
  <2> SUFFICES ASSUME NEW x \in Sessions, registry'[x] # None
               PROVE  /\ registry'[x] \in Turns
                      /\ turn'[registry'[x]].at = "running"
                      /\ turn'[registry'[x]].sess = x
    BY DEF NoStaleEntry, Live
  <2>1. x # s /\ registry'[x] = registry[x]
    BY <1>1 DEF TypeOK
  <2>2. registry[x] \in Turns /\ turn[registry[x]].at = "running" /\ turn[registry[x]].sess = x
    BY <2>1 DEF TurnInv, NoStaleEntry, Live
  <2> QED
    BY <1>2, <2>1, <2>2
<1> QED
  BY <1>3, <1>4, <1>5 DEF TurnInv

LEMMA TurnInvTurn ==
  ASSUME TypeOK, TurnInv, NEW t \in Turns, TurnStep(t)
  PROVE  TurnInv'
<1>1. ASSUME NEW s \in Sessions, Resolve(t, s) PROVE TurnInv'
  <2>1. [at |-> "resolved", sess |-> s] \in Turn
    BY DEF Turn
  <2> QED
    BY <1>1, <2>1, TurnInvIdle DEF Resolve, history
<1>2. ASSUME NEW s \in Sessions, ResolveFails(t, s) PROVE TurnInv'
  <2>1. [at |-> "over", sess |-> s] \in Turn
    BY DEF Turn
  <2> QED
    BY <1>2, <2>1, TurnInvIdle DEF ResolveFails, history
<1>3. CASE StoreUser(t)
  <2>1. [turn[t] EXCEPT !.at = "stored"] \in Turn /\ [turn[t] EXCEPT !.at = "stored"].at = "stored"
    BY DEF Turn, TypeOK
  <2>2. turn' = [turn EXCEPT ![t] = [turn[t] EXCEPT !.at = "stored"]]
    BY <1>3 DEF StoreUser
  <2> QED
    BY <1>3, <2>1, <2>2, TurnInvIdle DEF StoreUser, history
<1>4. CASE StoreUserFails(t)
  <2>1. [turn[t] EXCEPT !.at = "over"] \in Turn /\ [turn[t] EXCEPT !.at = "over"].at = "over"
    BY DEF Turn, TypeOK
  <2>2. turn' = [turn EXCEPT ![t] = [turn[t] EXCEPT !.at = "over"]]
    BY <1>4 DEF StoreUserFails
  <2> QED
    BY <1>4, <2>1, <2>2, TurnInvIdle DEF StoreUserFails, history
<1>5. CASE Register(t)
  BY <1>5, TurnInvRegister
<1>6. CASE PersistTurn(t) \/ CreatePlan(t)
  BY <1>6, TurnInvFrame DEF PersistTurn, CreatePlan, history
<1>7. CASE Return(t)
  BY <1>7, TurnInvReturn
<1> QED
  BY <1>1, <1>2, <1>3, <1>4, <1>5, <1>6, <1>7, TurnStep(t) DEF TurnStep

-----------------------------------------------------------------------------
(* Requests and what they delete                                           *)

ReqInv == ReqSound /\ EndsSound /\ DeleteSparesLiveTurns /\ TasksKeepSessions

\* While the requests stand still and shared only grows, nothing changes.
LEMMA ReqInvFrame ==
  ASSUME ReqInv, req' = req, torn' = torn, orphaned' = orphaned, shared \subseteq shared'
  PROVE  ReqInv'
  BY DEF ReqInv, ReqSound, EndsSound, DeleteSparesLiveTurns, TasksKeepSessions

LEMMA ReqInvTurn ==
  ASSUME TypeOK, ReqInv, NEW t \in Turns, TurnStep(t)
  PROVE  ReqInv'
<1>1. req' = req /\ torn' = torn /\ orphaned' = orphaned
  BY DEF TurnStep, Resolve, ResolveFails, StoreUser, StoreUserFails, Register, PersistTurn,
         CreatePlan, Return, history
<1>2. shared \subseteq shared'
  BY DEF TurnStep, Resolve, ResolveFails, StoreUser, StoreUserFails, Register, PersistTurn,
         CreatePlan, Return, history
<1> QED
  BY <1>1, <1>2, ReqInvFrame

\* What is asked of one request, and of the pairs its deletions left behind.
ReqOK(r, sh) ==
    /\ r.at = "clear" => r.kind = "delete" /\ r.tasks = {}
    /\ r.at \in {"begun", "clear"} /\ r.kind = "delete" => r.saw \subseteq sh

TornOK(p, r, sh) == r.at = "done" /\ (r.kind = "bulk" \/ p[2] \notin r.saw \/ p[2] \in sh)
TaskOK(p, r)     == r.at = "done" /\ r.kind = "delete" /\ p[2] \notin r.tasks

LEMMA ReqInvParts ==
  ReqInv <=> /\ \A q \in Reqs : ReqOK(req[q], shared)
             /\ \A p \in torn : TornOK(p, req[p[1]], shared)
             /\ \A p \in orphaned : TaskOK(p, req[p[1]])
  BY DEF ReqInv, ReqSound, EndsSound, DeleteSparesLiveTurns, TasksKeepSessions, ReqOK, TornOK,
         TaskOK

LEMMA ReqInvPartsNext ==
  ReqInv' <=> /\ \A q \in Reqs : ReqOK(req'[q], shared')
              /\ \A p \in torn' : TornOK(p, req'[p[1]], shared')
              /\ \A p \in orphaned' : TaskOK(p, req'[p[1]])
  BY DEF ReqInv, ReqSound, EndsSound, DeleteSparesLiveTurns, TasksKeepSessions, ReqOK, TornOK,
         TaskOK

\* A step of request q, not done before, that gives it the state r and adds to
\* torn and orphaned only pairs of q's own.
LEMMA ReqInvOne ==
  ASSUME TypeOK, ReqInv, NEW q \in Reqs, NEW r,
         req' = [req EXCEPT ![q] = r], shared' = shared,
         req[q].at # "done", ReqOK(r, shared),
         \A p \in torn' \ torn : p[1] = q /\ TornOK(p, r, shared),
         \A p \in orphaned' \ orphaned : p[1] = q /\ TaskOK(p, r)
  PROVE  ReqInv'
<1>1. /\ req'[q] = r
      /\ \A x \in Reqs \ {q} : req'[x] = req[x]
  BY DEF TypeOK
<1>2. \A x \in Reqs : ReqOK(req'[x], shared')
  BY <1>1, ReqInvParts
<1>3. \A p \in torn' : TornOK(p, req'[p[1]], shared')
  <2> SUFFICES ASSUME NEW p \in torn' PROVE TornOK(p, req'[p[1]], shared')
    OBVIOUS
  <2>1. CASE p \in torn
    <3>1. p[1] \in Reqs /\ TornOK(p, req[p[1]], shared)
      BY <2>1, ReqInvParts DEF TypeOK
    <3>2. p[1] # q
      BY <3>1 DEF TornOK
    <3> QED
      BY <1>1, <3>1, <3>2
  <2>2. CASE p \notin torn
    BY <1>1, <2>2
  <2> QED
    BY <2>1, <2>2
<1>4. \A p \in orphaned' : TaskOK(p, req'[p[1]])
  <2> SUFFICES ASSUME NEW p \in orphaned' PROVE TaskOK(p, req'[p[1]])
    OBVIOUS
  <2>1. CASE p \in orphaned
    <3>1. p[1] \in Reqs /\ TaskOK(p, req[p[1]])
      BY <2>1, ReqInvParts DEF TypeOK
    <3>2. p[1] # q
      BY <3>1 DEF TaskOK
    <3> QED
      BY <1>1, <3>1, <3>2
  <2>2. CASE p \notin orphaned
    BY <1>1, <2>2
  <2> QED
    BY <2>1, <2>2
<1> QED
  BY <1>2, <1>3, <1>4, ReqInvPartsNext

\* The step of a request that deletes nothing.
LEMMA ReqInvQuiet ==
  ASSUME TypeOK, ReqInv, NEW q \in Reqs, NEW r,
         req' = [req EXCEPT ![q] = r], req[q].at # "done", ReqOK(r, shared),
         UNCHANGED history
  PROVE  ReqInv'
<1>1. shared' = shared /\ torn' = torn /\ orphaned' = orphaned
  BY DEF history
<1> QED
  BY <1>1, ReqInvOne

LEMMA ReqInvReq ==
  ASSUME TypeOK, TurnInv, ReqInv, NEW q \in Reqs, ReqStep(q)
  PROVE  ReqInv'
<1> DEFINE old == req[q]
<1>0. old \in Request /\ ReqOK(old, shared)
  BY ReqInvParts DEF TypeOK
<1>1. ASSUME NEW s \in Sessions, Rename(q, s) PROVE ReqInv'
  <2>1. PICK a \in {"renamed", "notfound"} :
          req' = [req EXCEPT ![q] = [old EXCEPT !.kind = "rename", !.sess = s, !.at = a]]
    BY <1>1 DEF Rename
  <2>2. ReqOK([old EXCEPT !.kind = "rename", !.sess = s, !.at = a], shared)
    BY <1>0 DEF ReqOK, Request
  <2> QED
    BY <1>1, <2>1, <2>2, ReqInvQuiet DEF Rename
<1>2. ASSUME NEW s \in Sessions, DeleteLookup(q, s) PROVE ReqInv'
  <2>1. PICK a \in {"begun", "conflict"} :
          /\ a = "begun" => registry[s] = None
          /\ req' = [req EXCEPT ![q] = [old EXCEPT !.kind = "delete", !.sess = s,
                                                   !.saw = Live(s), !.at = a]]
    BY <1>2 DEF DeleteLookup
  <2>2. a = "begun" => Live(s) \subseteq shared
    <3> SUFFICES ASSUME a = "begun", NEW t \in Live(s), t \notin shared PROVE FALSE
      OBVIOUS
    <3>1. t \in Turns /\ turn[t].at = "running" /\ turn[t].sess = s
      BY DEF Live
    <3>2. registry[s] = t
      BY <3>1 DEF TurnInv, LiveTurnFound
    <3> QED
      BY <2>1, <3>1, <3>2, RegistryConstants
  <2>3. ReqOK([old EXCEPT !.kind = "delete", !.sess = s, !.saw = Live(s), !.at = a], shared)
    BY <1>0, <2>2 DEF ReqOK, Request
  <2> QED
    BY <1>2, <2>1, <2>3, ReqInvQuiet DEF DeleteLookup
<1>3. CASE RenameReadBack(q)
  <2>1. PICK a \in {"done", "failed"} : req' = [req EXCEPT ![q] = [old EXCEPT !.at = a]]
    BY <1>3 DEF RenameReadBack
  <2>2. ReqOK([old EXCEPT !.at = a], shared)
    BY <1>0 DEF ReqOK, Request
  <2> QED
    BY <1>3, <2>1, <2>2, ReqInvQuiet DEF RenameReadBack
<1>4. CASE DeleteCountTasks(q)
  <2> DEFINE T == TasksOf(req[q].sess)
  <2>1. PICK a \in {"clear", "conflict"} :
          /\ a = "clear" => T = {}
          /\ req' = [req EXCEPT ![q] = [old EXCEPT !.tasks = T, !.at = a]]
    BY <1>4 DEF DeleteCountTasks
  <2>2. old.at = "begun" /\ old.kind = "delete"
    BY <1>4 DEF DeleteCountTasks
  <2> HIDE DEF T
  <2>3. ReqOK([old EXCEPT !.tasks = T, !.at = a], shared)
    BY <1>0, <2>1, <2>2 DEF ReqOK, Request
  <2> QED
    BY <1>4, <2>1, <2>2, <2>3, ReqInvQuiet DEF DeleteCountTasks
<1>5. CASE DeleteRow(q)
  <2>0. old.at = "clear" /\ shared' = shared
    BY <1>5 DEF DeleteRow
  <2>1. CASE row[old.sess] = "there"
    <3>1. /\ Deleted(q, {old.sess})
          /\ req' = [req EXCEPT ![q] = [old EXCEPT !.at = "done"]]
      BY <1>5, <2>1 DEF DeleteRow
    <3>2. /\ [old EXCEPT !.at = "done"].at = "done"
          /\ [old EXCEPT !.at = "done"].kind = "delete"
          /\ [old EXCEPT !.at = "done"].tasks = {}
          /\ [old EXCEPT !.at = "done"].saw \subseteq shared
      BY <1>0, <2>0 DEF ReqOK, Request
    <3>3. ReqOK([old EXCEPT !.at = "done"], shared)
      BY <3>2 DEF ReqOK
    <3>4. \A p \in torn' \ torn : p[1] = q /\ TornOK(p, [old EXCEPT !.at = "done"], shared)
      BY <3>1, <3>2 DEF Deleted, TornOK
    <3>5. \A p \in orphaned' \ orphaned : p[1] = q /\ TaskOK(p, [old EXCEPT !.at = "done"])
      BY <3>1, <3>2 DEF Deleted, TaskOK
    <3> QED
      BY <2>0, <3>1, <3>3, <3>4, <3>5, ReqInvOne
  <2>2. CASE row[old.sess] # "there"
    <3>1. req' = [req EXCEPT ![q] = [old EXCEPT !.at = "notfound"]]
      BY <1>5, <2>2 DEF DeleteRow
    <3>2. ReqOK([old EXCEPT !.at = "notfound"], shared)
      BY <1>0 DEF ReqOK, Request
    <3>3. UNCHANGED history
      BY <1>5, <2>2 DEF DeleteRow, history
    <3> QED
      BY <2>0, <3>1, <3>2, <3>3, ReqInvQuiet
  <2> QED
    BY <2>1, <2>2
<1>6. CASE BulkCount(q)
  <2> DEFINE T == {k \in Tasks : bound[k] # None}
  <2>1. req' = [req EXCEPT ![q] = [old EXCEPT !.kind = "bulk", !.at = "begun", !.tasks = T]]
    BY <1>6 DEF BulkCount
  <2> HIDE DEF T
  <2>2. ReqOK([old EXCEPT !.kind = "bulk", !.at = "begun", !.tasks = T], shared)
    BY <1>0 DEF ReqOK, Request
  <2> QED
    BY <1>6, <2>1, <2>2, ReqInvQuiet DEF BulkCount
<1>7. CASE BulkDelete(q)
  <2> DEFINE gone == {s \in Sessions : row[s] = "there" /\ s \notin Spared(q)}
  <2>0. old.at = "begun" /\ old.kind = "bulk" /\ shared' = shared
    BY <1>7 DEF BulkDelete
  <2>1. Deleted(q, gone) /\ req' = [req EXCEPT ![q] = [old EXCEPT !.at = "done"]]
    BY <1>7 DEF BulkDelete
  <2>2. \A k \in Tasks : bound[k] \notin gone
    BY DEF Spared
  <2> HIDE DEF gone
  <2>3. [old EXCEPT !.at = "done"].at = "done" /\ [old EXCEPT !.at = "done"].kind = "bulk"
    BY <1>0, <2>0 DEF Request
  <2>4. ReqOK([old EXCEPT !.at = "done"], shared)
    BY <2>3 DEF ReqOK
  <2>5. \A p \in torn' \ torn : p[1] = q /\ TornOK(p, [old EXCEPT !.at = "done"], shared)
    BY <2>1, <2>3 DEF Deleted, TornOK
  <2>6. \A p \in orphaned' \ orphaned : p[1] = q /\ TaskOK(p, [old EXCEPT !.at = "done"])
    BY <2>1, <2>2 DEF Deleted
  <2> QED
    BY <2>0, <2>1, <2>4, <2>5, <2>6, ReqInvOne
<1> QED
  BY <1>1, <1>2, <1>3, <1>4, <1>5, <1>6, <1>7, ReqStep(q) DEF ReqStep

-----------------------------------------------------------------------------
(* The rows that hang on a session                                         *)

LEMMA RowsNext ==
  ASSUME TypeOK, NoOrphanRows, [Next]_vars
  PROVE  NoOrphanRows'
<1>1. ASSUME NEW s \in Sessions, CreateSession(s) PROVE NoOrphanRows'
  BY <1>1 DEF CreateSession, NoOrphanRows, TypeOK
<1>2. ASSUME NEW t \in Turns, TurnStep(t) PROVE NoOrphanRows'
  <2>1. ASSUME NEW s \in Sessions, Resolve(t, s) PROVE NoOrphanRows'
    BY <2>1 DEF Resolve, NoOrphanRows, TypeOK
  <2>2. CASE StoreUser(t) \/ PersistTurn(t)
    BY <2>2 DEF StoreUser, PersistTurn, Inserted, NoOrphanRows, TypeOK
  <2>3. CASE CreatePlan(t)
    BY <2>3 DEF CreatePlan, NoOrphanRows, TypeOK
  <2>4. ASSUME UNCHANGED tables PROVE NoOrphanRows'
    BY <2>4 DEF NoOrphanRows, tables
  <2> QED
    BY <1>2, <2>1, <2>2, <2>3, <2>4 DEF TurnStep, ResolveFails, StoreUserFails, Register, Return
<1>3. ASSUME NEW q \in Reqs, ReqStep(q) PROVE NoOrphanRows'
  <2>1. ASSUME NEW gone \in SUBSET Sessions, Deleted(q, gone) PROVE NoOrphanRows'
    BY <2>1 DEF Deleted, NoOrphanRows, TypeOK
  <2>2. ASSUME row' = row, msgs' = msgs, plans' = plans PROVE NoOrphanRows'
    BY <2>2 DEF NoOrphanRows
  <2>3. CASE DeleteRow(q)
    <3>1. req[q].sess \in Sessions
      BY <2>3 DEF DeleteRow, TypeOK
    <3> QED
      BY <2>1, <2>2, <2>3, <3>1 DEF DeleteRow
  <2>4. CASE BulkDelete(q)
    BY <2>1, <2>4 DEF BulkDelete
  <2> QED
    BY <1>3, <2>2, <2>3, <2>4 DEF ReqStep, Rename, DeleteLookup, RenameReadBack,
       DeleteCountTasks, BulkCount, tables
<1>4. ASSUME row' = row, msgs' = msgs, plans' = plans PROVE NoOrphanRows'
  BY <1>4 DEF NoOrphanRows
<1> QED
  BY <1>1, <1>2, <1>3, <1>4, [Next]_vars DEF Next, DeleteTask, CreateTask, vars, tables

-----------------------------------------------------------------------------
(* The theorems                                                            *)

LEMMA IInvInit == Init => IInv
<1> SUFFICES ASSUME Init PROVE IInv
  OBVIOUS
<1>1. \A t \in Turns : turn[t].at = "idle"
  BY DEF Init
<1>2. \A q \in Reqs : req[q].at = "idle"
  BY DEF Init
<1>3. torn = {} /\ orphaned = {}
  BY DEF Init
<1>4. SharedSound /\ LiveTurnFound
  BY <1>1 DEF SharedSound, LiveTurnFound
<1>5. NoStaleEntry /\ NoOrphanRows
  BY DEF Init, NoStaleEntry, NoOrphanRows
<1>6. ReqSound
  BY <1>2 DEF ReqSound
<1>7. EndsSound /\ DeleteSparesLiveTurns /\ TasksKeepSessions
  BY <1>3 DEF EndsSound, DeleteSparesLiveTurns, TasksKeepSessions
<1> QED
  BY <1>4, <1>5, <1>6, <1>7, TypeInit DEF IInv

LEMMA IInvNext == IInv /\ [Next]_vars => IInv'
<1> SUFFICES ASSUME IInv, [Next]_vars PROVE IInv'
  OBVIOUS
<1>1. TypeOK /\ TurnInv /\ ReqInv /\ NoOrphanRows
  BY DEF IInv, TurnInv, ReqInv
<1>2. TypeOK'
  BY <1>1, TypeNext
<1>3. NoOrphanRows'
  BY <1>1, RowsNext
<1>4. (\E t \in Turns : TurnStep(t)) \/ OtherStep
  BY DEF Next, OtherStep
<1>5. TurnInv'
  BY <1>1, <1>4, TurnInvTurn, OtherFrame, TurnInvFrame
<1>6. ReqInv'
  <2>1. ASSUME NEW q \in Reqs, ReqStep(q) PROVE ReqInv'
    BY <1>1, <2>1, ReqInvReq
  <2>2. ASSUME req' = req, UNCHANGED history PROVE ReqInv'
    BY <1>1, <2>2, ReqInvFrame DEF history
  <2> QED
    BY <1>1, <1>4, <2>1, <2>2, ReqInvTurn DEF OtherStep, CreateSession, CreateTask, DeleteTask,
       vars
<1> QED
  BY <1>2, <1>3, <1>5, <1>6 DEF IInv, TurnInv, ReqInv

LEMMA IInvAlways == Spec => []IInv
  BY IInvInit, IInvNext, PTL DEF Spec

\* The tables, the registry, the turns and the requests stay well typed.
THEOREM RegistryTypeOK == Spec => []TypeOK
  BY IInvAlways, PTL DEF IInv

\* A turn alone in its session is the one SessionManager.Lookup returns.
THEOREM RegistryLiveTurnFound == Spec => []LiveTurnFound
  BY IInvAlways, PTL DEF IInv

\* SessionManager never holds the Session of a turn whose handler returned.
THEOREM RegistryNoStaleEntry == Spec => []NoStaleEntry
  BY IInvAlways, PTL DEF IInv

\* Messages and plans exist only for sessions that exist, however turns
\* outlive a deletion.
THEOREM RegistryNoOrphanRows == Spec => []NoOrphanRows
  BY IInvAlways, PTL DEF IInv

\* DELETE spares every turn that its Lookup could have found.
THEOREM RegistryDeleteSpares == Spec => []DeleteSparesLiveTurns
  BY IInvAlways, PTL DEF IInv

\* Neither delete takes a session whose task was there when it looked.
THEOREM RegistryTasksKeep == Spec => []TasksKeepSessions
  BY IInvAlways, PTL DEF IInv
=============================================================================
