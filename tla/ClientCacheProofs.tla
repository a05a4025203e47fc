-------------------------- MODULE ClientCacheProofs --------------------------
(***************************************************************************)
(* The invariants of ClientCache, for any number of clusters, tool calls   *)
(* and cluster requests.                                                   *)
(*                                                                         *)
(* Three things are needed beside the properties.  Progress says what a    *)
(* call has done when it stands where it stands, so that what is left of   *)
(* its tool is known.  Deletion says why nothing can come back after a     *)
(* DELETE: its row is gone before its Invalidate takes f.mu, so no build   *)
(* that read the row is still under way when it has f.mu.  ResolverSound   *)
(* is the double-checked load: who queries under r.mu found the flag down, *)
(* and a loaded map without the resource comes from a discovery that       *)
(* missed it.                                                              *)
(***************************************************************************)
EXTENDS ClientCache, TLAPS

\* What can be left of a tool; Rest is what is left once a name was resolved.
Rest == {<<>>, <<"get">>, <<"resolve">>}
Todo == Rest \cup {ReadTool, WriteTool, TableTool,
                   <<"resolve", "get">>, <<"resolver", "resolve">>,
                   <<"resolver", "resolve", "resolve">>,
                   <<"resolve", "resolve">>}

\* Where a call stands says what it is about to do.
Progress ==
    \A t \in Calls :
        /\ call[t].todo \in Todo
        /\ call[t].at # "idle" => call[t].cluster \in Clusters
        /\ call[t].at \notin {"idle", "done"} => call[t].todo # <<>>
        /\ call[t].at \in {"read", "put"} => Head(call[t].todo) \in {"get", "resolver"}
        /\ call[t].at \in {"wlock", "fetch"}
             => call[t].res # None /\ Head(call[t].todo) = "resolve"
        /\ call[t].answer # "none" => call[t].todo \in Rest

\* Where a cluster request stands says what it has done.
ReqSound ==
    \A r \in Reqs :
        /\ req[r].at \in {"lock", "reset"} => req[r].cluster \in Clusters
        /\ req[r].at \in {"lock", "reset"} /\ req[r].op = "delete"
             => row[req[r].cluster] = "gone"
        /\ req[r].at = "reset" => cache[req[r].cluster] # None

\* After the answer to a DELETE the row is gone, nothing is cached and no
\* build that read the row is under way.
Deletion ==
    /\ \A c \in deleted : row[c] = "gone" /\ cache[c] = None
    /\ \A t \in Calls : call[t].at = "put" => call[t].cluster \notin deleted
    /\ \A t \in Calls :
         call[t].late => call[t].cluster \in deleted /\ call[t].client = None

\* The double-checked load of a Resolver.
ResolverSound ==
    /\ \A t \in Calls : call[t].at = "fetch" => ~resolver[call[t].res].loaded
    /\ \A e \in Entries :
         resolver[e].loaded /\ ~resolver[e].known => resolver[e].missed

IInv == /\ TypeOK /\ Progress /\ ReqSound /\ Deletion /\ ResolverSound
        /\ NoFalseFallback /\ SingleFetch

-----------------------------------------------------------------------------
(* What is left of a tool, and the records a factory call or a Resolver    *)
(* call leaves                                                             *)

\* A tool resolves a name after it asked for the Resolver, and asks for it
\* no more once it resolved a name.
LEMMA TodoFacts ==
  ASSUME NEW s \in Todo, s # <<>>
  PROVE  /\ Head(s) \in {"get", "resolver", "resolve"}
         /\ Tail(s) \in Todo
         /\ Head(s) = "resolver" => Tail(s) # <<>>
         /\ Head(s) = "resolve" => Tail(s) \in Rest
         /\ s \in Rest => Tail(s) = <<>> /\ Head(s) # "resolver"
<1>1. CASE s = <<"get">>
  <2>1. Head(s) = "get" /\ Tail(s) = <<>>
    BY <1>1
  <2> QED
    BY <2>1 DEF Todo, Rest
<1>2. CASE s = <<"resolve">>
  <2>1. Head(s) = "resolve" /\ Tail(s) = <<>>
    BY <1>2
  <2> QED
    BY <2>1 DEF Todo, Rest
<1>3. CASE s = ReadTool
  <2>1. Head(s) = "resolver" /\ Tail(s) = <<"resolve", "get">> /\ s \notin Rest
    BY <1>3 DEF Rest, ReadTool
  <2> QED
    BY <2>1 DEF Todo, Rest
<1>4. CASE s = WriteTool
  <2>1. Head(s) = "get" /\ Tail(s) = <<"resolver", "resolve">> /\ s \notin Rest
    BY <1>4 DEF Rest, WriteTool
  <2> QED
    BY <2>1 DEF Todo, Rest
<1>5. CASE s = TableTool
  <2>1. Head(s) = "get" /\ Tail(s) = <<"resolver", "resolve", "resolve">> /\ s \notin Rest
    BY <1>5 DEF Rest, TableTool
  <2> QED
    BY <2>1 DEF Todo, Rest
<1>6. CASE s = <<"resolve", "get">>
  <2>1. Head(s) = "resolve" /\ Tail(s) = <<"get">> /\ s \notin Rest
    BY <1>6 DEF Rest
  <2> QED
    BY <2>1 DEF Todo, Rest
<1>7. CASE s = <<"resolver", "resolve">>
  <2>1. Head(s) = "resolver" /\ Tail(s) = <<"resolve">> /\ s \notin Rest
    BY <1>7 DEF Rest
  <2> QED
    BY <2>1 DEF Todo, Rest
<1>8. CASE s = <<"resolver", "resolve", "resolve">>
  <2>1. Head(s) = "resolver" /\ Tail(s) = <<"resolve", "resolve">> /\ s \notin Rest
    BY <1>8 DEF Rest
  <2> QED
    BY <2>1 DEF Todo, Rest
<1>9. CASE s = <<"resolve", "resolve">>
  <2>1. Head(s) = "resolve" /\ Tail(s) = <<"resolve">> /\ s \notin Rest
    BY <1>9 DEF Rest
  <2> QED
    BY <2>1 DEF Todo, Rest
<1> QED
  BY <1>1, <1>2, <1>3, <1>4, <1>5, <1>6, <1>7, <1>8, <1>9 DEF Todo, Rest

LEMMA TodoIsSeq == Todo \subseteq Seq({"get", "resolver", "resolve"})
  BY DEF Todo, Rest, ReadTool, WriteTool, TableTool

\* The record Returned makes of a call that asked the factory.
LEMMA ReturnedFacts ==
  ASSUME TypeOK, Progress, NEW t \in Calls, NEW e \in EntryOrNone,
         call[t].todo # <<>>, Head(call[t].todo) \in {"get", "resolver"}
  PROVE  LET new == Returned(t, e) IN
         /\ new \in Call
         /\ new.at \in {"run", "done"}
         /\ new.cluster = call[t].cluster
         /\ new.late = call[t].late
         /\ new.answer = call[t].answer
         /\ new.client \in {call[t].client, e}
         /\ new.todo \in Todo
         /\ new.at = "run" => new.todo # <<>>
         /\ new.answer # "none" => new.todo \in Rest /\ new.res = call[t].res
<1> DEFINE old == call[t]
<1>1. old \in Call /\ old.todo \in Todo /\ (old.answer # "none" => old.todo \in Rest)
  BY DEF TypeOK, Progress
<1> HIDE DEF old
<1>2. /\ Tail(old.todo) \in Todo
      /\ Head(old.todo) = "resolver" => Tail(old.todo) # <<>>
      /\ old.todo \in Rest => Tail(old.todo) = <<>> /\ Head(old.todo) # "resolver"
  BY <1>1, TodoFacts DEF old
<1>3. /\ Tail(old.todo) \in Seq({"get", "resolver", "resolve"})
      /\ <<>> \in Seq({"get", "resolver", "resolve"})
      /\ <<>> \in Rest /\ <<>> \in Todo
  BY <1>2, TodoIsSeq DEF Todo, Rest
<1>4. CASE Head(old.todo) = "get"
  <2>1. Returned(t, e) = [old EXCEPT !.at = IF e = None \/ Tail(old.todo) = <<>>
                                              THEN "done" ELSE "run",
                                     !.client = e,
                                     !.todo = IF e = None THEN <<>> ELSE Tail(old.todo)]
    BY <1>4 DEF Returned, old
  <2> DEFINE a == IF e = None \/ Tail(old.todo) = <<>> THEN "done" ELSE "run"
             d == IF e = None THEN <<>> ELSE Tail(old.todo)
  <2>2. /\ a \in {"run", "done"}
        /\ d \in Seq({"get", "resolver", "resolve"}) /\ d \in Todo
        /\ a = "run" => d # <<>>
        /\ old.answer # "none" => d \in Rest
    BY <1>1, <1>2, <1>3
  <2>3. Returned(t, e) = [old EXCEPT !.at = a, !.client = e, !.todo = d]
    BY <2>1
  <2> HIDE DEF a, d
  <2> QED
    BY <2>2, <2>3, <1>1 DEF Call, old
<1>5. CASE Head(old.todo) = "resolver"
  <2>1. Returned(t, e) = [old EXCEPT !.at = "run", !.res = e, !.todo = Tail(old.todo)]
    BY <1>5 DEF Returned, old
  <2> QED
    BY <2>1, <1>1, <1>2, <1>3, <1>5 DEF Call, old
<1> QED
  BY <1>4, <1>5 DEF old

\* The record Answered makes of a call that resolved a name.
LEMMA AnsweredFacts ==
  ASSUME TypeOK, Progress, NEW t \in Calls, NEW known \in BOOLEAN,
         call[t].todo # <<>>, Head(call[t].todo) = "resolve"
  PROVE  LET new == Answered(t, known) IN
         /\ new \in Call
         /\ new.at \in {"run", "done"}
         /\ new.cluster = call[t].cluster
         /\ new.late = call[t].late
         /\ new.client = call[t].client
         /\ new.res = call[t].res
         /\ new.todo \in Rest
         /\ new.at = "run" => new.todo # <<>>
         /\ known => new.answer = "discovered"
<1> DEFINE old == call[t]
<1>1. old \in Call /\ old.todo \in Todo
  BY DEF TypeOK, Progress
<1> HIDE DEF old
<1>2. Tail(old.todo) \in Rest /\ Tail(old.todo) \in Todo
  BY <1>1, TodoFacts DEF old
<1>3. Tail(old.todo) \in Seq({"get", "resolver", "resolve"})
  BY <1>2, TodoIsSeq
<1>4. Answered(t, known) =
        [old EXCEPT !.at = IF Tail(old.todo) = <<>> THEN "done" ELSE "run",
                    !.todo = Tail(old.todo),
                    !.answer = IF known THEN "discovered" ELSE "fallback"]
  BY DEF Answered, old
<1> QED
  BY <1>1, <1>2, <1>3, <1>4 DEF Call, old

\* One call's record is replaced, the others stay.
LEMMA CallUpdate ==
  ASSUME TypeOK, NEW t \in Calls, NEW new \in Call,
         call' = [call EXCEPT ![t] = new]
  PROVE  /\ call' \in [Calls -> Call]
         /\ call'[t] = new
         /\ \A u \in Calls : u # t => call'[u] = call[u]
  BY DEF TypeOK

\* A call moves on and keeps everything else.
LEMMA MovedFacts ==
  ASSUME TypeOK, NEW t \in Calls, NEW a \in {"read", "put", "wlock", "fetch"}
  PROVE  LET new == [call[t] EXCEPT !.at = a] IN
         /\ new \in Call /\ new.at = a
         /\ new.cluster = call[t].cluster /\ new.todo = call[t].todo
         /\ new.late = call[t].late /\ new.client = call[t].client
         /\ new.res = call[t].res /\ new.answer = call[t].answer
<1> DEFINE old == call[t]
<1>1. old \in Call
  BY DEF TypeOK
<1> HIDE DEF old
<1>2. LET new == [old EXCEPT !.at = a] IN
      /\ new \in Call /\ new.at = a
      /\ new.cluster = old.cluster /\ new.todo = old.todo
      /\ new.late = old.late /\ new.client = old.client
      /\ new.res = old.res /\ new.answer = old.answer
  BY <1>1 DEF Call
<1> QED
  BY <1>2 DEF old

LEMMA NoneFacts ==
  /\ None \notin Calls /\ None \notin Reqs /\ None \notin Entries
  /\ \A t \in Calls, r \in Reqs : t # r
  /\ None \in EntryOrNone /\ \A e \in Entries : e \in EntryOrNone
  BY CacheAssumption DEF EntryOrNone

-----------------------------------------------------------------------------
(* Every step preserves the invariant                                      *)

LEMMA InitOK == Init => IInv
<1> SUFFICES ASSUME Init PROVE IInv
  OBVIOUS
<1>1. Idle \in Call
  BY DEF Idle, Call, EntryOrNone
<1>2. Fresh \in Flags
  BY DEF Fresh, Flags
<1>3. TypeOK
  BY <1>1, <1>2, NoneFacts DEF Init, TypeOK, EntryOrNone, Request, Idle
<1>4. Progress
  BY DEF Init, Progress, Idle, Todo, Rest
<1>5. ReqSound /\ Deletion /\ ResolverSound /\ NoFalseFallback
  BY DEF Init, ReqSound, Deletion, ResolverSound, NoFalseFallback, Idle, Fresh
<1>6. SingleFetch
  BY <1>3 DEF Init, SingleFetch, Fresh
<1> QED
  BY <1>3, <1>4, <1>5, <1>6 DEF IInv

LEMMA StutterOK == IInv /\ UNCHANGED vars => IInv'
  BY DEF IInv, TypeOK, Progress, ReqSound, Deletion, ResolverSound,
         NoFalseFallback, SingleFetch, vars

LEMMA StartOK ==
  ASSUME IInv, NEW t \in Calls, NEW c \in Clusters,
         NEW tool \in {ReadTool, WriteTool, TableTool}, Start(t, c, tool)
  PROVE  IInv'
<1> DEFINE new == [Idle EXCEPT !.at = "run", !.cluster = c, !.todo = tool,
                               !.late = c \in deleted]
<1>1. /\ tool \in Todo /\ tool # <<>>
      /\ tool \in Seq({"get", "resolver", "resolve"})
  <2>1. tool \in Todo
    BY DEF Todo
  <2>2. tool # <<>>
    BY DEF ReadTool, WriteTool, TableTool
  <2> QED
    BY <2>1, <2>2, TodoIsSeq
<1>2. /\ new \in Call /\ new.at = "run" /\ new.cluster = c /\ new.todo = tool
      /\ new.answer = "none" /\ new.client = None
      /\ new.late => c \in deleted
  <2>1. CASE c \in deleted
    <3>1. new = [Idle EXCEPT !.at = "run", !.cluster = c, !.todo = tool,
                             !.late = TRUE]
      BY <2>1
    <3> HIDE DEF new
    <3> QED
      BY <1>1, <2>1, <3>1, NoneFacts DEF Idle, Call
  <2>2. CASE c \notin deleted
    <3>1. new = [Idle EXCEPT !.at = "run", !.cluster = c, !.todo = tool,
                             !.late = FALSE]
      <4>1. (c \in deleted) = FALSE
        BY <2>2
      <4> QED
        BY <4>1
    <3> HIDE DEF new
    <3> QED
      BY <1>1, <2>2, <3>1, NoneFacts DEF Idle, Call
  <2> QED
    BY <2>1, <2>2
<1>3. call' = [call EXCEPT ![t] = new] /\ call[t].at = "idle"
  BY DEF Start
<1> HIDE DEF new
<1>4. /\ call' \in [Calls -> Call] /\ call'[t] = new
      /\ \A u \in Calls : u # t => call'[u] = call[u]
  BY <1>2, <1>3, CallUpdate DEF IInv
<1>5. UNCHANGED <<row, cache, fmu, rmu, resolver, req, deleted>>
  BY DEF Start
<1>6. TypeOK'
  BY <1>2, <1>3, <1>4, <1>5 DEF IInv, TypeOK
<1>7. Progress'
  BY <1>1, <1>2, <1>4 DEF IInv, Progress
<1>8. ReqSound' /\ Deletion'
  BY <1>2, <1>4, <1>5 DEF IInv, ReqSound, Deletion
<1>9. ResolverSound' /\ NoFalseFallback'
  BY <1>2, <1>4, <1>5 DEF IInv, ResolverSound, NoFalseFallback
<1>10. SingleFetch'
  BY <1>5, <1>6 DEF IInv, SingleFetch
<1> QED
  BY <1>6, <1>7, <1>8, <1>9, <1>10 DEF IInv

\* A factory call that returns entry e, with the mutex free afterwards.
LEMMA ReturnOK ==
  ASSUME IInv, NEW t \in Calls, NEW e \in EntryOrNone,
         (Asking(t) /\ fmu = None) \/ call[t].at \in {"read", "put"},
         call' = [call EXCEPT ![t] = Returned(t, e)],
         fmu' = None,
         e # None => call[t].cluster \notin deleted,
         \/ cache' = cache
         \/ cache' = [cache EXCEPT ![call[t].cluster] = e] /\ call[t].at = "put",
         UNCHANGED <<row, rmu, resolver, req, deleted>>
  PROVE  IInv'
<1> DEFINE new == Returned(t, e)
<1>1. call[t].todo # <<>> /\ Head(call[t].todo) \in {"get", "resolver"}
  BY DEF IInv, Progress, Asking, Wants
<1>2. /\ new \in Call /\ new.at \in {"run", "done"}
      /\ new.cluster = call[t].cluster /\ new.late = call[t].late
      /\ new.answer = call[t].answer /\ new.client \in {call[t].client, e}
      /\ new.todo \in Todo
      /\ new.at = "run" => new.todo # <<>>
      /\ new.answer # "none" => new.todo \in Rest /\ new.res = call[t].res
  BY <1>1, ReturnedFacts DEF IInv
<1>3. call' = [call EXCEPT ![t] = new]
  OBVIOUS
<1> HIDE DEF new
<1>4. /\ call' \in [Calls -> Call] /\ call'[t] = new
      /\ \A u \in Calls : u # t => call'[u] = call[u]
  BY <1>2, <1>3, CallUpdate DEF IInv
<1>5. call[t].at \in {"run", "read", "put"} /\ call[t].cluster \in Clusters
  BY DEF IInv, Progress, Asking, Wants
<1>6. /\ fmu \in {None, t}
      /\ \A u \in Calls : call'[u].at \notin {"read", "put"}
      /\ \A r \in Reqs : req[r].at # "reset"
  BY <1>2, <1>4, <1>5, NoneFacts DEF IInv, TypeOK, Asking
<1>7. \A u \in Calls : (call'[u].at = "fetch") <=> (call[u].at = "fetch")
  BY <1>2, <1>4, <1>5
<1>8. /\ \A u \in Calls : fmu' # u
      /\ \A r \in Reqs : fmu' # r
  BY NoneFacts
<1>9. \A u \in Calls : call'[u].at = "fetch" => call'[u] = call[u]
  BY <1>2, <1>4, <1>5
<1>10. cache' \in [Clusters -> EntryOrNone]
  BY <1>5 DEF IInv, TypeOK
<1>11. TypeOK'
  <2>1. \A u \in Calls, d \in Entries :
           (rmu'[d] = u) <=> (call'[u].at = "fetch" /\ call'[u].res = d)
    BY <1>7, <1>9 DEF IInv, TypeOK
  <2> QED
    BY <1>4, <1>6, <1>8, <1>10, <2>1 DEF IInv, TypeOK
<1>12. Progress'
  BY <1>2, <1>4, <1>5 DEF IInv, Progress
<1>13. ReqSound'
  BY <1>6 DEF IInv, ReqSound
<1>14. Deletion'
  <2>1. \A c \in deleted' : row'[c] = "gone" /\ cache'[c] = None
    <3> SUFFICES ASSUME NEW c \in deleted PROVE row[c] = "gone" /\ cache'[c] = None
      OBVIOUS
    <3>1. /\ row[c] = "gone" /\ cache[c] = None
          /\ c \in Clusters /\ cache \in [Clusters -> EntryOrNone]
      BY DEF IInv, Deletion, TypeOK
    <3> QED
      BY <1>5, <3>1
  <2>2. \A u \in Calls : call'[u].late
           => call'[u].cluster \in deleted' /\ call'[u].client = None
    BY <1>2, <1>4 DEF IInv, Deletion
  <2> QED
    BY <1>6, <2>1, <2>2 DEF Deletion
<1>15. ResolverSound' /\ NoFalseFallback'
  BY <1>2, <1>4, <1>9 DEF IInv, ResolverSound, NoFalseFallback
<1>16. SingleFetch'
  BY <1>11 DEF IInv, SingleFetch
<1> QED
  BY <1>11, <1>12, <1>13, <1>14, <1>15, <1>16 DEF IInv

LEMMA CachedOK == ASSUME IInv, NEW t \in Calls, Cached(t) PROVE IInv'
<1>1. /\ Asking(t) /\ fmu = None /\ fmu' = None
      /\ cache[call[t].cluster] # None
      /\ call' = [call EXCEPT ![t] = Returned(t, cache[call[t].cluster])]
      /\ UNCHANGED <<row, cache, rmu, resolver, req, deleted>>
  BY DEF Cached
<1>2. call[t].cluster \in Clusters
  BY <1>1 DEF IInv, Progress, Asking, Wants
<1>3. cache[call[t].cluster] \in EntryOrNone /\ call[t].cluster \notin deleted
  BY <1>1, <1>2 DEF IInv, TypeOK, Deletion
<1> QED
  BY <1>1, <1>3, ReturnOK

LEMMA LockOK == ASSUME IInv, NEW t \in Calls, Lock(t) PROVE IInv'
<1> DEFINE new == [call[t] EXCEPT !.at = "read"]
<1>1. /\ Asking(t) /\ fmu = None /\ fmu' = t
      /\ call' = [call EXCEPT ![t] = new]
      /\ UNCHANGED <<row, cache, rmu, resolver, req, deleted>>
  BY DEF Lock
<1>2. /\ new \in Call /\ new.at = "read"
      /\ new.cluster = call[t].cluster /\ new.todo = call[t].todo
      /\ new.late = call[t].late /\ new.client = call[t].client
      /\ new.res = call[t].res /\ new.answer = call[t].answer
  BY MovedFacts DEF IInv
<1> HIDE DEF new
<1>3. /\ call' \in [Calls -> Call] /\ call'[t] = new
      /\ \A u \in Calls : u # t => call'[u] = call[u]
  BY <1>1, <1>2, CallUpdate DEF IInv
<1>4. call[t].at = "run" /\ Head(call[t].todo) \in {"get", "resolver"}
  BY <1>1 DEF Asking, Wants
<1>5. /\ \A u \in Calls : call[u].at \notin {"read", "put"}
      /\ \A r \in Reqs : req[r].at # "reset"
  BY <1>1, NoneFacts DEF IInv, TypeOK
<1>6. TypeOK'
  BY <1>1, <1>2, <1>3, <1>4, <1>5, NoneFacts DEF IInv, TypeOK
<1>7. Progress'
  BY <1>2, <1>3, <1>4 DEF IInv, Progress
<1>8. ReqSound' /\ Deletion'
  BY <1>1, <1>2, <1>3 DEF IInv, ReqSound, Deletion
<1>9. ResolverSound' /\ NoFalseFallback'
  BY <1>1, <1>2, <1>3 DEF IInv, ResolverSound, NoFalseFallback
<1>10. SingleFetch'
  BY <1>1, <1>6 DEF IInv, SingleFetch
<1> QED
  BY <1>6, <1>7, <1>8, <1>9, <1>10 DEF IInv

LEMMA ReadRowOK == ASSUME IInv, NEW t \in Calls, ReadRow(t) PROVE IInv'
<1> DEFINE new == [call[t] EXCEPT !.at = "put"]
<1>1. /\ call[t].at = "read" /\ row[call[t].cluster] = "there"
      /\ call' = [call EXCEPT ![t] = new]
      /\ UNCHANGED <<row, cache, fmu, rmu, resolver, req, deleted>>
  BY DEF ReadRow
<1>2. /\ new \in Call /\ new.at = "put"
      /\ new.cluster = call[t].cluster /\ new.todo = call[t].todo
      /\ new.late = call[t].late /\ new.client = call[t].client
      /\ new.res = call[t].res /\ new.answer = call[t].answer
  BY MovedFacts DEF IInv
<1> HIDE DEF new
<1>3. /\ call' \in [Calls -> Call] /\ call'[t] = new
      /\ \A u \in Calls : u # t => call'[u] = call[u]
  BY <1>1, <1>2, CallUpdate DEF IInv
<1>4. call[t].cluster \notin deleted
  BY <1>1 DEF IInv, Deletion
<1>5. TypeOK'
  BY <1>1, <1>2, <1>3 DEF IInv, TypeOK
<1>6. Progress'
  BY <1>1, <1>2, <1>3 DEF IInv, Progress
<1>7. ReqSound' /\ Deletion'
  BY <1>1, <1>2, <1>3, <1>4 DEF IInv, ReqSound, Deletion
<1>8. ResolverSound' /\ NoFalseFallback'
  BY <1>1, <1>2, <1>3 DEF IInv, ResolverSound, NoFalseFallback
<1>9. SingleFetch'
  BY <1>1, <1>5 DEF IInv, SingleFetch
<1> QED
  BY <1>5, <1>6, <1>7, <1>8, <1>9 DEF IInv

LEMMA PutOK == ASSUME IInv, NEW t \in Calls, Put(t) PROVE IInv'
<1> DEFINE e == <<t, Head(call[t].todo)>>
<1>1. /\ call[t].at = "put" /\ fmu' = None
      /\ cache' = [cache EXCEPT ![call[t].cluster] = e]
      /\ call' = [call EXCEPT ![t] = Returned(t, e)]
      /\ UNCHANGED <<row, rmu, resolver, req, deleted>>
  BY DEF Put
<1>2. e \in EntryOrNone
  BY <1>1 DEF IInv, Progress, Entries, EntryOrNone
<1>3. call[t].cluster \notin deleted
  BY <1>1 DEF IInv, Deletion
<1> HIDE DEF e
<1> QED
  BY <1>1, <1>2, <1>3, ReturnOK

LEMMA BuildFailsOK == ASSUME IInv, NEW t \in Calls, BuildFails(t) PROVE IInv'
  BY ReturnOK, NoneFacts DEF BuildFails

\* A name is resolved by a call that holds no lock; e is the Resolver asked.
LEMMA AnswerOK ==
  ASSUME IInv, NEW t \in Calls, NEW known \in BOOLEAN,
         Wants(t, "resolve") \/ call[t].at = "wlock",
         call' = [call EXCEPT ![t] = Answered(t, known)],
         \/ call[t].res = None
         \/ known = resolver[call[t].res].known /\ resolver[call[t].res].loaded,
         UNCHANGED <<row, cache, fmu, rmu, resolver, req, deleted>>
  PROVE  IInv'
<1> DEFINE new == Answered(t, known)
<1>1. /\ call[t].at \in {"run", "wlock"} /\ call[t].todo # <<>>
      /\ Head(call[t].todo) = "resolve"
  BY DEF IInv, Progress, Wants
<1>2. /\ new \in Call /\ new.at \in {"run", "done"}
      /\ new.cluster = call[t].cluster /\ new.late = call[t].late
      /\ new.client = call[t].client /\ new.res = call[t].res
      /\ new.todo \in Rest
      /\ new.at = "run" => new.todo # <<>>
      /\ known => new.answer = "discovered"
  BY <1>1, AnsweredFacts DEF IInv
<1>3. call' = [call EXCEPT ![t] = new]
  OBVIOUS
<1> HIDE DEF new
<1>4. /\ call' \in [Calls -> Call] /\ call'[t] = new
      /\ \A u \in Calls : u # t => call'[u] = call[u]
  BY <1>2, <1>3, CallUpdate DEF IInv
<1>5. call[t].res # None => known \/ resolver[call[t].res].missed
  BY DEF IInv, TypeOK, ResolverSound, Call, EntryOrNone
<1>6. TypeOK'
  BY <1>1, <1>2, <1>4 DEF IInv, TypeOK
<1>7. Progress'
  BY <1>1, <1>2, <1>4 DEF IInv, Progress, Todo
<1>8. ReqSound' /\ Deletion'
  BY <1>2, <1>4 DEF IInv, ReqSound, Deletion
<1>9. ResolverSound' /\ NoFalseFallback'
  BY <1>2, <1>4, <1>5 DEF IInv, ResolverSound, NoFalseFallback
<1>10. SingleFetch'
  BY <1>6 DEF IInv, SingleFetch
<1> QED
  BY <1>6, <1>7, <1>8, <1>9, <1>10 DEF IInv

LEMMA FallBackOK == ASSUME IInv, NEW t \in Calls, FallBack(t) PROVE IInv'
  BY AnswerOK DEF FallBack

\* A call that waits for a Resolver's write lock, or takes it while the flag
\* is down.
LEMMA WaitOK ==
  ASSUME IInv, NEW t \in Calls, NEW e \in Entries, call[t].res = e, rmu[e] = None,
         ~resolver[e].loaded,
         \/ /\ Wants(t, "resolve") /\ rmu' = rmu
            /\ call' = [call EXCEPT ![t] = [call[t] EXCEPT !.at = "wlock"]]
         \/ /\ call[t].at = "wlock" /\ rmu' = [rmu EXCEPT ![e] = t]
            /\ call' = [call EXCEPT ![t] = [call[t] EXCEPT !.at = "fetch"]],
         UNCHANGED <<row, cache, fmu, resolver, req, deleted>>
  PROVE  IInv'
<1>1. PICK a \in {"wlock", "fetch"} :
        /\ call' = [call EXCEPT ![t] = [call[t] EXCEPT !.at = a]]
        /\ a = "wlock" => rmu' = rmu
        /\ a = "fetch" => rmu' = [rmu EXCEPT ![e] = t]
  OBVIOUS
<1> DEFINE new == [call[t] EXCEPT !.at = a]
<1> a \in {"read", "put", "wlock", "fetch"}
  OBVIOUS
<1>2. /\ new \in Call /\ new.at = a
      /\ new.cluster = call[t].cluster /\ new.todo = call[t].todo
      /\ new.late = call[t].late /\ new.client = call[t].client
      /\ new.res = call[t].res /\ new.answer = call[t].answer
  BY MovedFacts DEF IInv
<1>3. call' = [call EXCEPT ![t] = new]
  BY <1>1
<1> HIDE DEF new
<1>4. /\ call' \in [Calls -> Call] /\ call'[t] = new
      /\ \A u \in Calls : u # t => call'[u] = call[u]
  BY <1>2, <1>3, CallUpdate DEF IInv
<1>5. /\ call[t].at \in {"run", "wlock"} /\ call[t].todo # <<>>
      /\ Head(call[t].todo) = "resolve" /\ call[t].cluster \in Clusters
  BY DEF IInv, Progress, Wants
<1>6. TypeOK'
  <2>1. \A u \in Calls : call[u].at = "fetch" => call[u].res # e
    BY NoneFacts DEF IInv, TypeOK
  <2>2. rmu' \in [Entries -> Calls \cup {None}]
    BY <1>1 DEF IInv, TypeOK
  <2>3. ASSUME NEW u \in Calls, NEW d \in Entries
        PROVE  (rmu'[d] = u) <=> (call'[u].at = "fetch" /\ call'[u].res = d)
    <3>1. (rmu[d] = u) <=> (call[u].at = "fetch" /\ call[u].res = d)
      BY DEF IInv, TypeOK
    <3>2. rmu \in [Entries -> Calls \cup {None}]
      BY DEF IInv, TypeOK
    <3> QED
      BY <1>1, <1>2, <1>4, <1>5, <2>1, <3>1, <3>2, NoneFacts
  <2>4. \A u \in Calls : (call'[u].at \in {"read", "put"}) <=> (fmu' = u)
    BY <1>2, <1>4, <1>5 DEF IInv, TypeOK
  <2> QED
    BY <1>4, <2>2, <2>3, <2>4 DEF IInv, TypeOK
<1>7. Progress'
  BY <1>2, <1>4, <1>5, NoneFacts DEF IInv, Progress
<1>8. ReqSound' /\ Deletion'
  BY <1>2, <1>4 DEF IInv, ReqSound, Deletion
<1>9. ResolverSound' /\ NoFalseFallback'
  BY <1>2, <1>4 DEF IInv, ResolverSound, NoFalseFallback
<1>10. SingleFetch'
  BY <1>6 DEF IInv, SingleFetch
<1> QED
  BY <1>6, <1>7, <1>8, <1>9, <1>10 DEF IInv

LEMMA LookOK == ASSUME IInv, NEW t \in Calls, Look(t) PROVE IInv'
<1> DEFINE e == call[t].res
<1>1. /\ Wants(t, "resolve") /\ e # None /\ rmu[e] = None
      /\ UNCHANGED <<row, cache, fmu, rmu, resolver, req, deleted>>
  BY DEF Look
<1>2. e \in Entries /\ resolver[e] \in Flags
  BY <1>1 DEF IInv, TypeOK, Call, EntryOrNone
<1>3. resolver[e].known \in BOOLEAN
  BY <1>2 DEF Flags
<1>4. CASE resolver[e].loaded
  <2>1. call' = [call EXCEPT ![t] = Answered(t, resolver[e].known)]
    BY <1>4 DEF Look
  <2> QED
    BY <1>1, <1>3, <1>4, <2>1, AnswerOK
<1>5. CASE ~resolver[e].loaded
  <2>1. call' = [call EXCEPT ![t] = [call[t] EXCEPT !.at = "wlock"]]
    BY <1>5 DEF Look
  <2> QED
    BY <1>1, <1>2, <1>5, <2>1, WaitOK
<1> QED
  BY <1>4, <1>5

LEMMA LockWriteOK == ASSUME IInv, NEW t \in Calls, LockWrite(t) PROVE IInv'
<1> DEFINE e == call[t].res
<1>1. /\ call[t].at = "wlock" /\ rmu[e] = None
      /\ UNCHANGED <<row, cache, fmu, resolver, req, deleted>>
  BY DEF LockWrite
<1>2. e \in Entries /\ resolver[e] \in Flags
  BY <1>1 DEF IInv, TypeOK, Progress, Call, EntryOrNone
<1>3. resolver[e].known \in BOOLEAN
  BY <1>2 DEF Flags
<1>4. CASE resolver[e].loaded
  <2>1. call' = [call EXCEPT ![t] = Answered(t, resolver[e].known)] /\ rmu' = rmu
    BY <1>4 DEF LockWrite
  <2> QED
    BY <1>1, <1>3, <1>4, <2>1, AnswerOK
<1>5. CASE ~resolver[e].loaded
  <2>1. /\ call' = [call EXCEPT ![t] = [call[t] EXCEPT !.at = "fetch"]]
        /\ rmu' = [rmu EXCEPT ![e] = t]
    BY <1>5 DEF LockWrite
  <2> QED
    BY <1>1, <1>2, <1>5, <2>1, WaitOK
<1> QED
  BY <1>4, <1>5

\* What refreshLocked and Invalidate make of a Resolver's flags.
Loaded(f, lists) == [f EXCEPT !.loaded = TRUE, !.known = lists,
                              !.missed = @ \/ ~lists, !.fetches = @ + 1]

LEMMA LoadedFlags ==
  ASSUME NEW f \in Flags, NEW lists \in BOOLEAN
  PROVE  LET new == Loaded(f, lists) IN
         /\ new \in Flags /\ new.loaded /\ new.known = lists
         /\ ~lists => new.missed
         /\ f.missed => new.missed
         /\ new.fetches = f.fetches + 1
         /\ new.resets = f.resets
<1> DEFINE m == f.missed \/ ~lists
           n == f.fetches + 1
<1>1. m \in BOOLEAN
  BY DEF Flags
<1>2. n \in Nat
  BY DEF Flags
<1>3. (~lists => m) /\ (f.missed => m)
  OBVIOUS
<1> HIDE DEF m, n
<1> DEFINE new == [f EXCEPT !.loaded = TRUE, !.known = lists, !.missed = m,
                            !.fetches = n]
<1>4. /\ new.loaded = TRUE /\ new.known = lists /\ new.missed = m
      /\ new.fetches = n /\ new.resets = f.resets
  BY DEF Flags
<1>5. new \in Flags
  BY <1>1, <1>2 DEF Flags
<1> HIDE DEF new
<1>6. new.missed \in BOOLEAN /\ (~lists => new.missed) /\ (f.missed => new.missed)
  BY <1>1, <1>3, <1>4
<1> QED
  BY <1>4, <1>5, <1>6 DEF new, m, n, Loaded

LEMMA ResetFlags ==
  ASSUME NEW f \in Flags
  PROVE  LET new == [f EXCEPT !.loaded = FALSE, !.known = FALSE,
                              !.resets = @ + 1] IN
         /\ new \in Flags /\ ~new.loaded /\ new.missed = f.missed
         /\ new.fetches = f.fetches
         /\ new.resets = f.resets + 1
<1> DEFINE n == f.resets + 1
<1>1. n \in Nat
  BY DEF Flags
<1> HIDE DEF n
<1> DEFINE new == [f EXCEPT !.loaded = FALSE, !.known = FALSE, !.resets = n]
<1>2. /\ new.loaded = FALSE /\ new.missed = f.missed
      /\ new.fetches = f.fetches /\ new.resets = n
  BY DEF Flags
<1>3. new \in Flags
  BY <1>1 DEF Flags
<1> HIDE DEF new
<1>4. ~new.loaded
  BY <1>2
<1> QED
  BY <1>2, <1>3, <1>4 DEF new, n

LEMMA FetchOK ==
  ASSUME IInv, NEW t \in Calls, NEW lists \in BOOLEAN, Fetch(t, lists)
  PROVE  IInv'
<1> DEFINE e == call[t].res
           new == Answered(t, lists)
           flags == Loaded(resolver[e], lists)
<1>1. /\ call[t].at = "fetch" /\ call' = [call EXCEPT ![t] = new]
      /\ rmu' = [rmu EXCEPT ![e] = None]
      /\ UNCHANGED <<row, cache, fmu, req, deleted>>
  BY DEF Fetch
<1>2. e \in Entries /\ resolver[e] \in Flags /\ resolver \in [Entries -> Flags]
  BY <1>1 DEF IInv, TypeOK, Progress, Call, EntryOrNone
<1>3. /\ resolver' = [resolver EXCEPT ![e] = flags]
  BY <1>2 DEF Fetch, Flags, Loaded
<1>4. /\ flags \in Flags /\ flags.loaded /\ flags.known = lists
      /\ ~lists => flags.missed
      /\ resolver[e].missed => flags.missed
      /\ flags.fetches = resolver[e].fetches + 1
      /\ flags.resets = resolver[e].resets
  BY <1>2, LoadedFlags
<1>5. /\ call[t].todo # <<>> /\ Head(call[t].todo) = "resolve"
  BY <1>1 DEF IInv, Progress
<1>6. /\ new \in Call /\ new.at \in {"run", "done"}
      /\ new.cluster = call[t].cluster /\ new.late = call[t].late
      /\ new.client = call[t].client /\ new.res = call[t].res
      /\ new.todo \in Rest
      /\ new.at = "run" => new.todo # <<>>
      /\ lists => new.answer = "discovered"
  BY <1>5, AnsweredFacts DEF IInv
<1> HIDE DEF new, flags
<1>7. /\ call' \in [Calls -> Call] /\ call'[t] = new
      /\ \A u \in Calls : u # t => call'[u] = call[u]
  BY <1>1, <1>6, CallUpdate DEF IInv
<1>8. /\ resolver' \in [Entries -> Flags] /\ resolver'[e] = flags
      /\ \A d \in Entries : d # e => resolver'[d] = resolver[d]
  BY <1>2, <1>3, <1>4
<1>9. /\ rmu[e] = t /\ rmu \in [Entries -> Calls \cup {None}]
      /\ \A u \in Calls : u # t /\ call[u].at = "fetch" => call[u].res # e
  BY <1>1, <1>2 DEF IInv, TypeOK
<1>10. TypeOK'
  <2>1. rmu' \in [Entries -> Calls \cup {None}]
    BY <1>1, <1>9
  <2>2. ASSUME NEW u \in Calls, NEW d \in Entries
        PROVE  (rmu'[d] = u) <=> (call'[u].at = "fetch" /\ call'[u].res = d)
    <3>1. (rmu[d] = u) <=> (call[u].at = "fetch" /\ call[u].res = d)
      BY DEF IInv, TypeOK
    <3> QED
      BY <1>1, <1>2, <1>6, <1>7, <1>9, <3>1, NoneFacts
  <2>3. \A u \in Calls : (call'[u].at \in {"read", "put"}) <=> (fmu' = u)
    BY <1>1, <1>6, <1>7 DEF IInv, TypeOK
  <2> QED
    BY <1>1, <1>7, <1>8, <2>1, <2>2, <2>3 DEF IInv, TypeOK
<1>11. Progress'
  BY <1>1, <1>6, <1>7 DEF IInv, Progress, Todo
<1>12. ReqSound' /\ Deletion'
  BY <1>1, <1>6, <1>7 DEF IInv, ReqSound, Deletion
<1>13. ResolverSound'
  <2>1. ASSUME NEW u \in Calls, call'[u].at = "fetch"
        PROVE  ~resolver'[call'[u].res].loaded
    <3>1. u # t /\ call'[u] = call[u] /\ call[u].res # e
      BY <1>6, <1>7, <1>9, <2>1
    <3>2. call[u].res \in Entries /\ ~resolver[call[u].res].loaded
      BY <2>1, <3>1 DEF IInv, TypeOK, Progress, ResolverSound, Call, EntryOrNone
    <3> QED
      BY <1>8, <3>1, <3>2
  <2>2. ASSUME NEW d \in Entries, resolver'[d].loaded, ~resolver'[d].known
        PROVE  resolver'[d].missed
    BY <1>4, <1>8, <2>2 DEF IInv, ResolverSound
  <2> QED
    BY <2>1, <2>2 DEF ResolverSound
<1>14. NoFalseFallback'
  <2> SUFFICES ASSUME NEW u \in Calls, call'[u].answer = "fallback", call'[u].res # None
               PROVE  resolver'[call'[u].res].missed
    BY DEF NoFalseFallback
  <2>1. call'[u].res \in Entries
    BY <1>7 DEF Call, EntryOrNone
  <2>2. CASE u = t
    BY <1>4, <1>6, <1>7, <1>8, <2>2
  <2>3. CASE u # t
    <3>1. call'[u] = call[u] /\ resolver[call[u].res].missed
      BY <1>7, <2>3 DEF IInv, NoFalseFallback
    <3> QED
      BY <1>4, <1>8, <2>1, <3>1
  <2> QED
    BY <2>2, <2>3
<1>15. SingleFetch'
  <2>1. ~resolver[e].loaded /\ resolver[e].fetches \in Nat /\ resolver[e].resets \in Nat
    BY <1>1, <1>2 DEF IInv, ResolverSound, Flags
  <2>2. resolver[e].fetches =< resolver[e].resets + 0
    BY <1>2, <2>1 DEF IInv, SingleFetch
  <2>3. flags.fetches =< flags.resets + 1
    BY <1>4, <2>1, <2>2
  <2>4. \A d \in Entries : resolver'[d].fetches =< resolver'[d].resets
                             + IF resolver'[d].loaded THEN 1 ELSE 0
    BY <1>4, <1>8, <2>3 DEF IInv, SingleFetch
  <2> QED
    BY <1>10, <2>4 DEF SingleFetch
<1> QED
  BY <1>10, <1>11, <1>12, <1>13, <1>14, <1>15 DEF IInv

-----------------------------------------------------------------------------
(* The cluster requests                                                    *)

\* One request's record is replaced, the others stay.
LEMMA ReqUpdate ==
  ASSUME TypeOK, NEW r \in Reqs, NEW new \in Request,
         req' = [req EXCEPT ![r] = new]
  PROVE  /\ req' \in [Reqs -> Request]
         /\ req'[r] = new
         /\ \A q \in Reqs : q # r => req'[q] = req[q]
  BY DEF TypeOK

\* POST and DELETE write the row; a row that is gone stays gone.
LEMMA WriteRowOK ==
  ASSUME IInv, NEW r \in Reqs, NEW c \in Clusters,
         CreateCluster(r, c) \/ DeleteCluster(r, c)
  PROVE  IInv'
<1>1. PICK new \in Request :
        /\ req' = [req EXCEPT ![r] = new]
        /\ new.at \in {"lock", "done"} /\ new.cluster = c
        /\ new.op = "delete" => row'[c] = "gone"
  <2>1. CASE CreateCluster(r, c)
    <3> DEFINE n == [at |-> "lock", cluster |-> c, op |-> "create"]
    <3>1. req' = [req EXCEPT ![r] = n] /\ n \in Request
      BY <2>1 DEF CreateCluster, Request
    <3> QED
      BY <3>1
  <2>2. CASE DeleteCluster(r, c)
    <3> DEFINE a == IF row[c] = "there" THEN "lock" ELSE "done"
               n == [at |-> a, cluster |-> c, op |-> "delete"]
    <3>1. a \in {"lock", "done"}
      OBVIOUS
    <3>2. req' = [req EXCEPT ![r] = n]
      BY <2>2 DEF DeleteCluster
    <3>3. row'[c] = "gone"
      BY <2>2 DEF DeleteCluster, IInv, TypeOK
    <3> HIDE DEF a
    <3>4. n \in Request /\ n.at = a /\ n.cluster = c
      BY <3>1 DEF Request
    <3> QED
      BY <3>1, <3>2, <3>3, <3>4
  <2> QED
    BY <2>1, <2>2
<1>2. /\ UNCHANGED <<cache, fmu, rmu, resolver, call, deleted>>
      /\ req[r].at = "idle"
  BY DEF CreateCluster, DeleteCluster
<1>3. /\ row' \in [Clusters -> {"unborn", "there", "gone"}]
      /\ \A d \in Clusters : row[d] = "gone" => row'[d] = "gone"
  BY DEF CreateCluster, DeleteCluster, IInv, TypeOK
<1>4. /\ req' \in [Reqs -> Request] /\ req'[r] = new
      /\ \A q \in Reqs : q # r => req'[q] = req[q]
  BY <1>1, ReqUpdate DEF IInv
<1>5. TypeOK'
  BY <1>1, <1>2, <1>3, <1>4 DEF IInv, TypeOK
<1>6. ReqSound'
  BY <1>1, <1>2, <1>3, <1>4 DEF IInv, ReqSound
<1>7. Deletion'
  BY <1>2, <1>3 DEF IInv, Deletion, TypeOK
<1>8. Progress' /\ ResolverSound' /\ NoFalseFallback'
  BY <1>2 DEF IInv, Progress, ResolverSound, NoFalseFallback
<1>9. SingleFetch'
  BY <1>2, <1>5 DEF IInv, SingleFetch
<1> QED
  BY <1>5, <1>6, <1>7, <1>8, <1>9 DEF IInv

\* An answered request is over, and a DELETE that is answered finds its row
\* gone; what it dropped stays dropped while nobody builds.
LEMMA ReplyOK ==
  ASSUME IInv, NEW r \in Reqs, Reply(r), req[r].at \in {"lock", "reset"},
         fmu \in {None, r}, fmu' = None,
         cache' = [cache EXCEPT ![req[r].cluster] = None],
         UNCHANGED <<row, rmu, call>>,
         resolver' \in [Entries -> Flags]
  PROVE  TypeOK' /\ Progress' /\ ReqSound' /\ Deletion'
<1> DEFINE new == [req[r] EXCEPT !.at = "done"]
           c == req[r].cluster
<1>1. req[r] \in Request /\ req \in [Reqs -> Request]
  BY DEF IInv, TypeOK
<1>2. req' = [req EXCEPT ![r] = new] /\ new \in Request /\ new.at = "done"
  BY <1>1 DEF Reply, Request
<1> HIDE DEF new
<1>3. /\ req' \in [Reqs -> Request] /\ req'[r] = new
      /\ \A q \in Reqs : q # r => req'[q] = req[q]
  BY <1>2, ReqUpdate DEF IInv
<1>4. /\ c \in Clusters /\ cache \in [Clusters -> EntryOrNone]
      /\ req[r].op = "delete" => row[c] = "gone"
  BY DEF IInv, TypeOK, ReqSound
<1>5. /\ cache' \in [Clusters -> EntryOrNone] /\ cache'[c] = None
      /\ \A d \in Clusters : cache[d] = None => cache'[d] = None
  BY <1>4, NoneFacts
<1>6. /\ deleted' \subseteq Clusters
      /\ deleted \subseteq deleted'
      /\ \A d \in deleted' : d \in deleted \/ (d = c /\ row[c] = "gone")
  BY <1>4 DEF Reply, IInv, TypeOK
<1>7. /\ \A t \in Calls : call[t].at \notin {"read", "put"} /\ fmu' # t
      /\ \A q \in Reqs : req'[q].at # "reset" /\ fmu' # q
  BY <1>2, <1>3, NoneFacts DEF IInv, TypeOK
<1>8. TypeOK'
  BY <1>3, <1>5, <1>6, <1>7 DEF IInv, TypeOK
<1>9. Progress'
  BY DEF IInv, Progress
<1>10. ReqSound'
  BY <1>2, <1>3, <1>7 DEF IInv, ReqSound
<1>11. Deletion'
  <2>1. \A d \in deleted' : row'[d] = "gone" /\ cache'[d] = None
    BY <1>5, <1>6 DEF IInv, Deletion
  <2>2. \A t \in Calls : call'[t].late
           => call'[t].cluster \in deleted' /\ call'[t].client = None
    BY <1>6 DEF IInv, Deletion
  <2> QED
    BY <1>7, <2>1, <2>2 DEF Deletion
<1> QED
  BY <1>8, <1>9, <1>10, <1>11

LEMMA InvalidateOK == ASSUME IInv, NEW r \in Reqs, Invalidate(r) PROVE IInv'
<1> DEFINE c == req[r].cluster
<1>1. /\ req[r].at = "lock" /\ fmu = None
      /\ UNCHANGED <<row, cache, rmu, resolver, call>>
  BY DEF Invalidate
<1>2. /\ c \in Clusters /\ cache \in [Clusters -> EntryOrNone]
      /\ req[r].op = "delete" => row[c] = "gone"
      /\ req[r] \in Request /\ req \in [Reqs -> Request]
      /\ resolver \in [Entries -> Flags]
  BY <1>1 DEF IInv, TypeOK, ReqSound
<1>3. TypeOK' /\ Progress' /\ ReqSound' /\ Deletion'
  <2>1. CASE cache[c] = None
    <3>1. Reply(r) /\ fmu' = None
      BY <1>1, <2>1 DEF Invalidate
    <3>2. cache' = [cache EXCEPT ![c] = None]
      BY <1>1, <1>2, <2>1
    <3> QED
      BY <1>1, <1>2, <3>1, <3>2, ReplyOK
  <2>2. CASE cache[c] # None
    <3> DEFINE new == [req[r] EXCEPT !.at = "reset"]
    <3>1. fmu' = r /\ req' = [req EXCEPT ![r] = new] /\ deleted' = deleted
      BY <2>2 DEF Invalidate
    <3>2. /\ new \in Request /\ new.at = "reset"
          /\ new.cluster = c /\ new.op = req[r].op
      BY <1>2 DEF Request
    <3> HIDE DEF new
    <3>3. /\ req' \in [Reqs -> Request] /\ req'[r] = new
          /\ \A q \in Reqs : q # r => req'[q] = req[q]
      BY <3>1, <3>2, ReqUpdate DEF IInv
    <3>4. /\ \A t \in Calls : call[t].at \notin {"read", "put"} /\ fmu' # t
          /\ \A q \in Reqs : req[q].at # "reset"
      BY <1>1, <3>1, NoneFacts DEF IInv, TypeOK
    <3>5. TypeOK'
      BY <1>1, <3>1, <3>2, <3>3, <3>4 DEF IInv, TypeOK
    <3>6. Progress' /\ Deletion'
      BY <1>1, <3>1 DEF IInv, Progress, Deletion
    <3>7. ReqSound'
      BY <1>1, <1>2, <2>2, <3>1, <3>2, <3>3 DEF IInv, ReqSound
    <3> QED
      BY <3>5, <3>6, <3>7
  <2> QED
    BY <2>1, <2>2
<1>4. ResolverSound' /\ NoFalseFallback'
  BY <1>1 DEF IInv, ResolverSound, NoFalseFallback
<1>5. SingleFetch'
  BY <1>1, <1>3 DEF IInv, SingleFetch
<1> QED
  BY <1>3, <1>4, <1>5 DEF IInv

LEMMA DropOK == ASSUME IInv, NEW r \in Reqs, Drop(r) PROVE IInv'
<1> DEFINE c == req[r].cluster
           e == cache[c]
           flags == [resolver[e] EXCEPT !.loaded = FALSE, !.known = FALSE,
                                        !.resets = @ + 1]
<1>1. /\ req[r].at = "reset" /\ rmu[e] = None /\ Reply(r) /\ fmu' = None
      /\ cache' = [cache EXCEPT ![c] = None]
      /\ UNCHANGED <<row, rmu, call>>
  BY DEF Drop
<1>2. /\ fmu = r /\ c \in Clusters /\ e \in Entries
      /\ resolver[e] \in Flags /\ resolver \in [Entries -> Flags]
  BY <1>1 DEF IInv, TypeOK, ReqSound, EntryOrNone
<1>3. resolver' = [resolver EXCEPT ![e] = flags]
  BY <1>2 DEF Drop, Reset, Flags
<1>4. /\ flags \in Flags /\ ~flags.loaded /\ flags.missed = resolver[e].missed
      /\ flags.fetches = resolver[e].fetches
      /\ flags.resets = resolver[e].resets + 1
  BY <1>2, ResetFlags
<1> HIDE DEF flags
<1>5. /\ resolver' \in [Entries -> Flags] /\ resolver'[e] = flags
      /\ \A d \in Entries : d # e => resolver'[d] = resolver[d]
  BY <1>2, <1>3, <1>4
<1>6. TypeOK' /\ Progress' /\ ReqSound' /\ Deletion'
  BY <1>1, <1>2, <1>5, ReplyOK
<1>7. ResolverSound'
  <2>1. ASSUME NEW t \in Calls, call'[t].at = "fetch"
        PROVE  ~resolver'[call'[t].res].loaded
    <3>1. call[t].res \in Entries /\ ~resolver[call[t].res].loaded
      BY <1>1, <2>1 DEF IInv, TypeOK, Progress, ResolverSound, Call, EntryOrNone
    <3> QED
      BY <1>1, <1>4, <1>5, <3>1
  <2>2. \A d \in Entries :
           resolver'[d].loaded /\ ~resolver'[d].known => resolver'[d].missed
    BY <1>4, <1>5 DEF IInv, ResolverSound
  <2> QED
    BY <2>1, <2>2 DEF ResolverSound
<1>8. NoFalseFallback'
  <2>1. \A t \in Calls : call[t].res \in Entries \/ call[t].res = None
    BY DEF IInv, TypeOK, Call, EntryOrNone
  <2> QED
    BY <1>1, <1>4, <1>5, <2>1 DEF IInv, NoFalseFallback
<1>9. SingleFetch'
  <2>1. resolver[e].fetches =< resolver[e].resets + 1
    <3>1. resolver[e].fetches \in Nat /\ resolver[e].resets \in Nat
      BY <1>2 DEF Flags
    <3>2. resolver[e].fetches =< resolver[e].resets
                                   + IF resolver[e].loaded THEN 1 ELSE 0
      BY <1>2 DEF IInv, SingleFetch
    <3> QED
      BY <3>1, <3>2
  <2>2. \A d \in Entries : resolver'[d].fetches =< resolver'[d].resets
                             + IF resolver'[d].loaded THEN 1 ELSE 0
    <3>1. flags.fetches =< flags.resets + 0
      BY <1>2, <1>4, <2>1 DEF Flags
    <3> QED
      BY <1>4, <1>5, <3>1 DEF IInv, SingleFetch
  <2> QED
    BY <1>6, <2>2 DEF SingleFetch
<1> QED
  BY <1>6, <1>7, <1>8, <1>9 DEF IInv

LEMMA StepOK == IInv /\ [Next]_vars => IInv'
<1> SUFFICES ASSUME IInv, [Next]_vars PROVE IInv'
  OBVIOUS
<1>1. CASE UNCHANGED vars
  BY <1>1, StutterOK
<1>2. ASSUME NEW t \in Calls, NEW c \in Clusters,
             NEW tool \in {ReadTool, WriteTool, TableTool}, Start(t, c, tool)
      PROVE  IInv'
  BY <1>2, StartOK
<1>3. ASSUME NEW t \in Calls, CallStep(t) PROVE IInv'
  BY <1>3, CachedOK, LockOK, ReadRowOK, PutOK, BuildFailsOK, FallBackOK,
     LookOK, LockWriteOK, FetchOK DEF CallStep
<1>4. ASSUME NEW r \in Reqs, NEW c \in Clusters,
             CreateCluster(r, c) \/ DeleteCluster(r, c)
      PROVE  IInv'
  BY <1>4, WriteRowOK
<1>5. ASSUME NEW r \in Reqs, ReqStep(r) PROVE IInv'
  BY <1>5, InvalidateOK, DropOK DEF ReqStep
<1> QED
  BY <1>1, <1>2, <1>3, <1>4, <1>5 DEF Next

-----------------------------------------------------------------------------
(* The theorems                                                            *)

\* The inductive invariant of the client cache: who holds f.mu and r.mu, and what
\* each call and each cluster request has read when it stands where it stands.
THEOREM CacheInvariant == Spec => []IInv
  BY InitOK, StepOK, PTL DEF Spec

\* Once DELETE has answered 204 nothing is cached for the cluster, and a tool
\* call that starts after the answer gets no client: Factory.clients holds
\* f.mu from the look into the cache to the put.
THEOREM DeletedNotServedTheorem == Spec => []DeletedNotServed
<1>1. IInv => DeletedNotServed
  BY DEF IInv, Deletion, DeletedNotServed
<1> QED
  BY <1>1, CacheInvariant, PTL

\* A Resolver with a discovery client sends a tool to the built-in table only
\* after a discovery that missed the resource.
THEOREM NoFalseFallbackTheorem == Spec => []NoFalseFallback
<1>1. IInv => NoFalseFallback
  BY DEF IInv
<1> QED
  BY <1>1, CacheInvariant, PTL

\* Every state is well typed, f.mu and r.mu are held by whom the call or
\* request says, and the discovery API is queried once per load.
THEOREM SingleFetchTheorem == Spec => []SingleFetch
<1>1. IInv => SingleFetch
  BY DEF IInv
<1> QED
  BY <1>1, CacheInvariant, PTL

=============================================================================
