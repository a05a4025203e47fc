------------------------------ MODULE ClientCache ------------------------------
(***************************************************************************)
(* The per-cluster client cache of internal/tools/k8s: the factory that    *)
(* builds a dynamic client and a discovery-backed Resolver from a stored   *)
(* kubeconfig (client.go), the Resolver's own double-checked cache         *)
(* (resolver.go), the tool calls that use both and the two cluster         *)
(* handlers that write the row and then invalidate the cache.              *)
(*                                                                         *)
(* Two locks matter.  f.mu is one mutex for all clusters and is held while *)
(* the row is read and decrypted, and while Invalidate waits for a         *)
(* Resolver's lock.  r.mu is a Resolver's RWMutex, held for writing while  *)
(* the discovery API is queried.  A read lock is held for a map lookup     *)
(* only, so taking it, looking and releasing it is one step that needs the *)
(* absence of a writer.                                                    *)
(*                                                                         *)
(* Data is abstracted to what the properties tell apart: the tools ask for *)
(* one resource that the cluster serves, and a discovery either lists it   *)
(* or misses it (a failed or partial one).                                 *)
(***************************************************************************)
EXTENDS Naturals, Sequences, FiniteSets

CONSTANTS Clusters,   \* cluster ids
          Calls,      \* tool calls, each made once
          Reqs,       \* cluster requests of the HTTP API, each made once
          None        \* no holder, no entry, no cluster

(***************************************************************************)
(* A call builds at most one entry per factory call, and the entry is      *)
(* named after that call.                                                  *)
(***************************************************************************)
Entries == Calls \X {"get", "resolver"}

\* A call and a request are different goroutines, and nil is none of them.
ASSUME CacheAssumption ==
  /\ None \notin Clusters \cup Calls \cup Reqs \cup Entries
  /\ Calls \cap Reqs = {}

VARIABLES row,       \* cluster -> "unborn", "there" or "gone": its table row
          cache,     \* cluster -> its clusterClients, or None
          fmu,       \* who holds the factory's mutex
          rmu,       \* entry -> who holds its Resolver's write lock
          resolver,  \* entry -> the Resolver's flags and history
          call,      \* the tool calls
          req,       \* the cluster requests
          deleted    \* clusters whose deletion was answered with 204

vars == <<row, cache, fmu, rmu, resolver, call, req, deleted>>

(***************************************************************************)
(* What the tools do with the factory, in order.  Get, Describe and List   *)
(* resolve the name first and fetch the client second; PlanWrite and       *)
(* applyOne the other way round; ListTable takes the REST config and asks  *)
(* the Resolver for the scope of the resource as well.                     *)
(***************************************************************************)
ReadTool  == <<"resolver", "resolve", "get">>
WriteTool == <<"get", "resolver", "resolve">>
TableTool == <<"get", "resolver", "resolve", "resolve">>

Fresh == [loaded |-> FALSE, known |-> FALSE, missed |-> FALSE,
          fetches |-> 0, resets |-> 0]

Idle == [at |-> "idle", cluster |-> None, todo |-> <<>>, late |-> FALSE,
         client |-> None, res |-> None, answer |-> "none"]

Init ==
  /\ row \in [Clusters -> {"unborn", "there"}]
  /\ cache = [c \in Clusters |-> None]
  /\ fmu = None
  /\ rmu = [e \in Entries |-> None]
  /\ resolver = [e \in Entries |-> Fresh]
  /\ call = [t \in Calls |-> Idle]
  /\ req = [r \in Reqs |-> [at |-> "idle", cluster |-> None, op |-> "none"]]
  /\ deleted = {}

--------------------------------------------------------------------------------
(* Tool calls: the factory. *)

Wants(t, what) == call[t].at = "run" /\ Head(call[t].todo) = what
Asking(t)      == Wants(t, "get") \/ Wants(t, "resolver")

(* The call's next state once the factory call it is in has returned entry *)
(* e; Resolver turns a failure into a throwaway Resolver without discovery.*)
Returned(t, e) ==
  IF Head(call[t].todo) = "get"
  THEN [call[t] EXCEPT !.at = IF e = None \/ Tail(call[t].todo) = <<>>
                                THEN "done" ELSE "run",
                       !.client = e,
                       !.todo = IF e = None THEN <<>> ELSE Tail(@)]
  ELSE [call[t] EXCEPT !.at = "run", !.res = e, !.todo = Tail(@)]

(* The model calls a tool that names a cluster whose row exists or existed. *)
Start(t, c, tool) ==
  /\ call[t].at = "idle"
  /\ row[c] # "unborn"
  /\ call' = [call EXCEPT ![t] = [Idle EXCEPT !.at = "run", !.cluster = c,
                                              !.todo = tool,
                                              !.late = c \in deleted]]
  /\ UNCHANGED <<row, cache, fmu, rmu, resolver, req, deleted>>

(* clients(): a cached pair is returned under the mutex. *)
Cached(t) ==
  /\ Asking(t)
  /\ fmu = None
  /\ cache[call[t].cluster] # None
  /\ call' = [call EXCEPT ![t] = Returned(t, cache[call[t].cluster])]
  /\ UNCHANGED <<row, cache, fmu, rmu, resolver, req, deleted>>

(* clients(): nothing cached; the mutex stays held for the build. *)
Lock(t) ==
  /\ Asking(t)
  /\ fmu = None
  /\ cache[call[t].cluster] = None
  /\ fmu' = t
  /\ call' = [call EXCEPT ![t].at = "read"]
  /\ UNCHANGED <<row, cache, rmu, resolver, req, deleted>>

(* Mutant: the mutex is given up while the row is read. *)
ReadRowUnlocked(t) ==
  /\ call[t].at = "read"
  /\ row[call[t].cluster] = "there"
  /\ fmu' = None
  /\ call' = [call EXCEPT ![t].at = "put"]
  /\ UNCHANGED <<row, cache, rmu, resolver, req, deleted>>

(* The row is read and its kubeconfig decrypted and parsed. *)
ReadRow(t) ==
  /\ call[t].at = "read"
  /\ row[call[t].cluster] = "there"
  /\ call' = [call EXCEPT ![t].at = "put"]
  /\ UNCHANGED <<row, cache, fmu, rmu, resolver, req, deleted>>

(* The new pair is cached and returned, and the deferred Unlock runs. *)
Put(t) ==
  LET e == <<t, Head(call[t].todo)>> IN
  /\ call[t].at = "put"
  /\ cache' = [cache EXCEPT ![call[t].cluster] = e]
  /\ fmu' = None
  /\ call' = [call EXCEPT ![t] = Returned(t, e)]
  /\ UNCHANGED <<row, rmu, resolver, req, deleted>>

(* Mutant: an early return without the Unlock. *)
BuildFailsLocked(t) ==
  /\ call[t].at \in {"read", "put"}
  /\ call' = [call EXCEPT ![t] = Returned(t, None)]
  /\ UNCHANGED <<row, cache, fmu, rmu, resolver, req, deleted>>

(* No row, a cancelled context, a blob that does not decrypt or parse: an  *)
(* error and nothing cached.                                               *)
BuildFails(t) ==
  /\ call[t].at \in {"read", "put"}
  /\ fmu' = None
  /\ call' = [call EXCEPT ![t] = Returned(t, None)]
  /\ UNCHANGED <<row, cache, rmu, resolver, req, deleted>>

--------------------------------------------------------------------------------
(* Tool calls: Resolve and IsNamespaced of the Resolver. *)

Answered(t, known) ==
  [call[t] EXCEPT !.at = IF Tail(call[t].todo) = <<>> THEN "done" ELSE "run",
                  !.todo = Tail(@),
                  !.answer = IF known THEN "discovered" ELSE "fallback"]

(* The throwaway Resolver has no discovery client and always falls back. *)
FallBack(t) ==
  /\ Wants(t, "resolve")
  /\ call[t].res = None
  /\ call' = [call EXCEPT ![t] = Answered(t, FALSE)]
  /\ UNCHANGED <<row, cache, fmu, rmu, resolver, req, deleted>>

(* Under the read lock: answered from the cache when it is loaded; else    *)
(* the read lock is given up for the write lock.                           *)
Look(t) ==
  LET e == call[t].res IN
  /\ Wants(t, "resolve")
  /\ e # None
  /\ rmu[e] = None
  /\ call' = [call EXCEPT ![t] = IF resolver[e].loaded
                                   THEN Answered(t, resolver[e].known)
                                   ELSE [@ EXCEPT !.at = "wlock"]]
  /\ UNCHANGED <<row, cache, fmu, rmu, resolver, req, deleted>>

(* Mutant: the flag is not looked at again. *)
LockWriteUnchecked(t) ==
  LET e == call[t].res IN
  /\ call[t].at = "wlock"
  /\ rmu[e] = None
  /\ call' = [call EXCEPT ![t].at = "fetch"]
  /\ rmu' = [rmu EXCEPT ![e] = t]
  /\ UNCHANGED <<row, cache, fmu, resolver, req, deleted>>

(* Under the write lock, the flag is looked at a second time. *)
LockWrite(t) ==
  LET e == call[t].res IN
  /\ call[t].at = "wlock"
  /\ rmu[e] = None
  /\ IF resolver[e].loaded
       THEN /\ call' = [call EXCEPT ![t] = Answered(t, resolver[e].known)]
            /\ rmu' = rmu
       ELSE /\ call' = [call EXCEPT ![t].at = "fetch"]
            /\ rmu' = [rmu EXCEPT ![e] = t]
  /\ UNCHANGED <<row, cache, fmu, resolver, req, deleted>>

(* refreshLocked: whatever the discovery API answered, the cache counts as *)
(* loaded; the resource is in it only when its group was listed.           *)
Fetch(t, lists) ==
  LET e == call[t].res IN
  /\ call[t].at = "fetch"
  /\ resolver' = [resolver EXCEPT ![e].loaded = TRUE,
                                  ![e].known = lists,
                                  ![e].missed = @ \/ ~lists,
                                  ![e].fetches = @ + 1]
  /\ rmu' = [rmu EXCEPT ![e] = None]
  /\ call' = [call EXCEPT ![t] = Answered(t, lists)]
  /\ UNCHANGED <<row, cache, fmu, req, deleted>>

--------------------------------------------------------------------------------
(* The cluster handlers. *)

(* POST: the row is inserted under a new id, Invalidate comes next. *)
CreateCluster(r, c) ==
  /\ req[r].at = "idle"
  /\ row[c] = "unborn"
  /\ row' = [row EXCEPT ![c] = "there"]
  /\ req' = [req EXCEPT ![r] = [at |-> "lock", cluster |-> c, op |-> "create"]]
  /\ UNCHANGED <<cache, fmu, rmu, resolver, call, deleted>>

(* DELETE: no row, no Invalidate: 404. *)
DeleteCluster(r, c) ==
  /\ req[r].at = "idle"
  /\ row[c] # "unborn"
  /\ row' = [row EXCEPT ![c] = "gone"]
  /\ req' = [req EXCEPT ![r] = [at |-> IF row[c] = "there" THEN "lock"
                                                            ELSE "done",
                                cluster |-> c, op |-> "delete"]]
  /\ UNCHANGED <<cache, fmu, rmu, resolver, call, deleted>>

Reply(r) ==
  /\ req' = [req EXCEPT ![r].at = "done"]
  /\ deleted' = IF req[r].op = "delete" THEN deleted \cup {req[r].cluster}
                                         ELSE deleted

(* Factory.Invalidate takes the mutex; with nothing cached that is all. *)
Invalidate(r) ==
  LET c == req[r].cluster IN
  /\ req[r].at = "lock"
  /\ fmu = None
  /\ IF cache[c] = None
       THEN Reply(r) /\ fmu' = fmu
       ELSE /\ fmu' = r
            /\ req' = [req EXCEPT ![r].at = "reset"]
            /\ deleted' = deleted
  /\ UNCHANGED <<row, cache, rmu, resolver, call>>

(* Mutant: the maps are dropped, the flag is not. *)
ResetKeepsLoaded(e) ==
  resolver' = [resolver EXCEPT ![e].known = FALSE, ![e].resets = @ + 1]

(* Resolver.Invalidate. *)
Reset(e) ==
  resolver' = [resolver EXCEPT ![e].loaded = FALSE, ![e].known = FALSE,
                               ![e].resets = @ + 1]

(* With the mutex still held, the Resolver's write lock is waited for; the *)
(* entry is dropped and the request answered.                              *)
Drop(r) ==
  LET c == req[r].cluster IN
  /\ req[r].at = "reset"
  /\ rmu[cache[c]] = None
  /\ Reset(cache[c])
  /\ cache' = [cache EXCEPT ![c] = None]
  /\ fmu' = None
  /\ Reply(r)
  /\ UNCHANGED <<row, rmu, call>>

--------------------------------------------------------------------------------
CallStep(t) ==
  \/ Cached(t) \/ Lock(t) \/ ReadRow(t) \/ Put(t) \/ BuildFails(t)
  \/ FallBack(t) \/ Look(t) \/ LockWrite(t)
  \/ \E lists \in BOOLEAN : Fetch(t, lists)

ReqStep(r) == Invalidate(r) \/ Drop(r)

Next ==
  \/ \E t \in Calls, c \in Clusters, tool \in {ReadTool, WriteTool, TableTool} :
       Start(t, c, tool)
  \/ \E t \in Calls : CallStep(t)
  \/ \E r \in Reqs, c \in Clusters : CreateCluster(r, c) \/ DeleteCluster(r, c)
  \/ \E r \in Reqs : ReqStep(r)

Spec == Init /\ [][Next]_vars

(* Goroutines run, a mutex that is free is handed to a waiter, and a       *)
(* discovery request ends (client-go gives it a timeout).  Nobody has to   *)
(* start a call or a request.                                              *)
FairSpec ==
  /\ Spec
  /\ \A t \in Calls : WF_vars(CallStep(t))
  /\ \A r \in Reqs : WF_vars(ReqStep(r))

--------------------------------------------------------------------------------
(* Properties. *)

EntryOrNone == Entries \cup {None}

Call == [at      : {"idle", "run", "read", "put", "wlock", "fetch", "done"},
         cluster : Clusters \cup {None},
         todo    : Seq({"get", "resolver", "resolve"}),
         late    : BOOLEAN,
         client  : EntryOrNone,
         res     : EntryOrNone,
         answer  : {"none", "discovered", "fallback"}]

Request == [at      : {"idle", "lock", "reset", "done"},
            cluster : Clusters \cup {None},
            op      : {"none", "create", "delete"}]

Flags == [loaded : BOOLEAN, known : BOOLEAN, missed : BOOLEAN,
          fetches : Nat, resets : Nat]

(* The variables have their types; the factory's mutex is held by exactly  *)
(* the call that builds or the request that invalidates, and a Resolver's  *)
(* write lock by the call that queries its discovery API.                  *)
TypeOK ==
  /\ row \in [Clusters -> {"unborn", "there", "gone"}]
  /\ cache \in [Clusters -> EntryOrNone]
  /\ resolver \in [Entries -> Flags]
  /\ fmu \in Calls \cup Reqs \cup {None}
  /\ rmu \in [Entries -> Calls \cup {None}]
  /\ call \in [Calls -> Call]
  /\ req \in [Reqs -> Request]
  /\ deleted \subseteq Clusters
  /\ \A t \in Calls :
       /\ (call[t].at \in {"read", "put"}) <=> (fmu = t)
       /\ \A e \in Entries :
            (rmu[e] = t) <=> (call[t].at = "fetch" /\ call[t].res = e)
  /\ \A r \in Reqs : (req[r].at = "reset") <=> (fmu = r)

(* Once DELETE has answered 204 the credentials are out of use: no entry   *)
(* is cached for the cluster, and a tool call made after the answer never  *)
(* gets a client, however builds and the invalidation interleave           *)
(* (clients() holds f.mu from the look into the cache to the put).         *)
DeletedNotServed ==
  /\ \A c \in deleted : cache[c] = None
  /\ \A t \in Calls : call[t].late => call[t].client = None

(* A tool that is told to fall back to the built-in table, by a Resolver   *)
(* that has a discovery client, was told so because a discovery missed     *)
(* the resource: an invalidation under its feet makes it query again, it   *)
(* is never answered from the emptied map.                                 *)
NoFalseFallback ==
  \A t \in Calls :
    call[t].answer = "fallback" /\ call[t].res # None
      => resolver[call[t].res].missed

(* The locks keep their promise: each is held by the one its call or       *)
(* request says (TypeOK), and however many tools find the Resolver         *)
(* unloaded at once, the discovery API is queried once per load, at most   *)
(* once more than it was invalidated.                                      *)
SingleFetch ==
  /\ TypeOK
  /\ \A e \in Entries :
    resolver[e].fetches =< resolver[e].resets
                             + IF resolver[e].loaded THEN 1 ELSE 0

(* No call and no cluster request hangs on the two locks: every one that   *)
(* has begun returns.                                                      *)
CallsReturn ==
  /\ \A t \in Calls : (call[t].at # "idle") ~> (call[t].at = "done")
  /\ \A r \in Reqs : (req[r].at # "idle") ~> (req[r].at = "done")
================================================================================
