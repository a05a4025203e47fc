----------------------------- MODULE PolicyStore -----------------------------
(***************************************************************************)
(* The policies table, the shared policy engine and the HTTP handlers that *)
(* edit the one and reload the other, across server restarts.  The table   *)
(* is one SQLite connection: every statement is a step.  Handlers run      *)
(* concurrently and hold no lock between their statements; Engine.Rules is *)
(* a plain field.                                                          *)
(***************************************************************************)
EXTENDS PolicyRules, SequencesExt

CONSTANTS
    Handlers,    \* edit requests; each is served once
    UserRules,   \* the rules a user may submit
    NameOrder,   \* every rule name, in the order of SQL's ORDER BY name
    Ops,         \* the operations decisions are compared on
    MaxCrashes   \* bound: server stops

ASSUME PolicyConstants ==
    /\ MaxCrashes \in Nat
    /\ NameOrder \in Seq(ToSet(NameOrder))
    /\ \A r \in UserRules : r.effect \in Effects /\ r.name \in ToSet(NameOrder)
    /\ \A i \in DOMAIN DefaultRules : DefaultRules[i].name \in ToSet(NameOrder)

VARIABLES
    rows,     \* the policies table: a set of [id, rule, enabled]
    nextId,   \* the next uuid
    rules,    \* Engine.Rules
    boot,     \* "down", "seeding" or "up"
    seeded,   \* rules the latest SeedDefaultPolicies that ran has inserted
    torn,     \* history: the server stopped in the middle of that
    h,        \* the handlers
    audit,    \* audit_log: the handlers whose edit it records
    crashes,
    overlap   \* history: two handlers overlapped since the server came up

vars == <<rows, nextId, rules, boot, seeded, torn, h, audit, crashes, overlap>>

Names == ToSet(NameOrder)
AllRules == UserRules \cup ToSet(DefaultRules)
Ids == 0..(nextId - 1)

\* at: "loaded" when update has read its row, "committed" after the edit,
\* "read" when the reload has its rows, "reloaded" whether it worked or not,
\* "dead" when the server that served the request stopped.  wrote, reload and
\* gone record what became of the edit, the reload and the client; old is
\* history: the rule the edit took out of the table.
Handler ==
    [at: {"idle", "loaded", "committed", "read", "reloaded", "done", "dead"},
     kind: {"none", "create", "update", "delete", "toggle"},
     id: Nat, rule: AllRules, enabled: BOOLEAN, snap: Seq(AllRules),
     wrote: BOOLEAN, reload: {"none", "ok", "failed"}, gone: BOOLEAN,
     old: SUBSET AllRules]

Waiting == [at |-> "idle", kind |-> "none", id |-> 0, rule |-> DefaultRules[1],
            enabled |-> FALSE, snap |-> <<>>, wrote |-> FALSE, reload |-> "none",
            gone |-> FALSE, old |-> {}]

TypeOK ==
    /\ rows \subseteq [id: Ids, rule: AllRules, enabled: BOOLEAN]
    /\ \A x, y \in rows : x.id = y.id \/ x.rule.name = y.rule.name => x = y
    /\ nextId \in Nat
    /\ rules \in Seq(AllRules)
    /\ boot \in {"down", "seeding", "up"}
    /\ seeded \in 0..Len(DefaultRules)
    /\ torn \in BOOLEAN
    /\ h \in [Handlers -> Handler]
    /\ audit \subseteq Handlers
    /\ crashes \in 0..MaxCrashes
    /\ overlap \in BOOLEAN

Init ==
    /\ rows = {}
    /\ nextId = 0
    /\ rules = <<>>
    /\ boot = "down"
    /\ seeded = 0
    /\ torn = FALSE
    /\ h = [x \in Handlers |-> Waiting]
    /\ audit = {}
    /\ crashes = 0
    /\ overlap = FALSE

-----------------------------------------------------------------------------
(* The table                                                               *)

Rank(n) == CHOOSE i \in DOMAIN NameOrder : NameOrder[i] = n

\* ListEnabledPoliciesForEngine and ReloadPolicies' decoding of its rows: the
\* enabled ones in name order, the i-th being the one with i - 1 before it.
Enabled(t) == {x \in t : x.enabled}
Before(e, x) == {y \in e : Rank(y.rule.name) < Rank(x.rule.name)}
Nth(e, i) == CHOOSE x \in e : Cardinality(Before(e, x)) = i - 1
EnabledByName(t) == [i \in 1..Cardinality(Enabled(t)) |-> Nth(Enabled(t), i).rule]

\* UpsertPolicy fails on the UNIQUE name of another row.
NameFree(id, r) == \A x \in rows : x.rule.name = r.name => x.id = id

Upserted(id, r, on) ==
    {x \in rows : x.id # id} \cup {[id |-> id, rule |-> r, enabled |-> on]}

RulesIn(t) == {y.rule : y \in t}

-----------------------------------------------------------------------------
(* Start and stop                                                          *)

\* startup up to countPolicies; a table with rows is left alone and buildDeps
\* gives the engine DefaultRules().
Start ==
    /\ boot = "down"
    /\ IF rows = {}
         THEN /\ boot' = "seeding" /\ seeded' = 0 /\ torn' = FALSE
              /\ UNCHANGED rules
         ELSE /\ boot' = "up" /\ rules' = DefaultRules
              /\ UNCHANGED <<seeded, torn>>
    /\ overlap' = FALSE
    /\ UNCHANGED <<rows, nextId, h, audit, crashes>>

\* Mutant: an insert's error is ignored and the loop goes on.
SeedOneSkips ==
    /\ boot = "seeding"
    /\ seeded < Len(DefaultRules)
    /\ \/ rows' = Upserted(nextId, DefaultRules[seeded + 1], TRUE)
       \/ UNCHANGED rows
    /\ nextId' = nextId + 1
    /\ seeded' = seeded + 1
    /\ UNCHANGED <<rules, boot, torn, h, audit, crashes, overlap>>

\* One UpsertPolicy of SeedDefaultPolicies' loop; there is no transaction
\* around it.  An error (the UNIQUE name) makes run() return.
SeedOne ==
    /\ boot = "seeding"
    /\ seeded < Len(DefaultRules)
    /\ LET r == DefaultRules[seeded + 1] IN
         IF NameFree(nextId, r)
           THEN /\ rows' = Upserted(nextId, r, TRUE)
                /\ nextId' = nextId + 1
                /\ seeded' = seeded + 1
                /\ UNCHANGED boot
           ELSE /\ boot' = "down"
                /\ UNCHANGED <<rows, nextId, seeded>>
    /\ UNCHANGED <<rules, torn, h, audit, crashes, overlap>>

\* The loop is over; buildDeps.
SeedDone ==
    /\ boot = "seeding"
    /\ seeded = Len(DefaultRules)
    /\ boot' = "up"
    /\ rules' = DefaultRules
    /\ UNCHANGED <<rows, nextId, seeded, torn, h, audit, crashes, overlap>>

\* The process ends, at any point; requests in flight end with it.
Crash ==
    /\ boot # "down"
    /\ crashes < MaxCrashes
    /\ crashes' = crashes + 1
    /\ boot' = "down"
    /\ torn' = (torn \/ boot = "seeding")
    /\ rules' = <<>>
    /\ h' = [x \in Handlers |->
               IF h[x].at = "idle" THEN h[x] ELSE [h[x] EXCEPT !.at = "dead", !.snap = <<>>]]
    /\ UNCHANGED <<rows, nextId, seeded, audit, overlap>>

-----------------------------------------------------------------------------
(* The handlers                                                            *)

Busy(x) == h[x].at \notin {"idle", "done", "dead"}

\* A request arrives; the first statement follows in the same step.
Arrives(x) ==
    /\ boot = "up"
    /\ h[x].at = "idle"
    /\ overlap' = (overlap \/ \E y \in Handlers : Busy(y))

Answer(x, kind, id, r, old, wrote) ==
    h' = [h EXCEPT ![x] =
            [Waiting EXCEPT !.at = IF wrote THEN "committed" ELSE "done",
                            !.kind = kind, !.id = id, !.rule = r, !.wrote = wrote,
                            !.old = old]]

\* createPolicyHandler: a taken name is a 500.
Create(x) ==
    /\ Arrives(x)
    /\ \E r \in UserRules :
         /\ Answer(x, "create", nextId, r, {}, NameFree(nextId, r))
         /\ rows' = IF NameFree(nextId, r) THEN Upserted(nextId, r, TRUE) ELSE rows
    /\ nextId' = nextId + 1
    /\ UNCHANGED <<rules, boot, seeded, torn, audit, crashes>>

\* updatePolicyHandler: getPolicyByID, for the enabled flag.
UpdateRead(x) ==
    /\ Arrives(x)
    /\ \E id \in Ids, r \in AllRules :
         LET old == {y \in rows : y.id = id} IN
         h' = [h EXCEPT ![x] =
                 [Waiting EXCEPT !.at = IF old = {} THEN "done" ELSE "loaded",
                                 !.kind = "update", !.id = id, !.rule = r,
                                 !.enabled = \E y \in old : y.enabled]]
    /\ UNCHANGED <<rows, nextId, rules, boot, seeded, torn, audit, crashes>>

\* Mutant: the update switches the rule on.
UpdateWriteEnables(x) ==
    /\ h[x].at = "loaded"
    /\ LET ok == NameFree(h[x].id, h[x].rule) IN
         /\ rows' = IF ok THEN Upserted(h[x].id, h[x].rule, TRUE) ELSE rows
         /\ h' = [h EXCEPT ![x].at = IF ok THEN "committed" ELSE "done",
                           ![x].wrote = ok,
                           ![x].old = IF ok THEN RulesIn({y \in rows : y.id = h[x].id}) ELSE {}]
    /\ UNCHANGED <<nextId, rules, boot, seeded, torn, audit, crashes, overlap>>

\* ... and the upsert with the flag read before; a row deleted in between is
\* inserted again.
UpdateWrite(x) ==
    /\ h[x].at = "loaded"
    /\ LET ok == NameFree(h[x].id, h[x].rule) IN
         /\ rows' = IF ok THEN Upserted(h[x].id, h[x].rule, h[x].enabled) ELSE rows
         /\ h' = [h EXCEPT ![x].at = IF ok THEN "committed" ELSE "done",
                           ![x].wrote = ok,
                           ![x].old = IF ok THEN RulesIn({y \in rows : y.id = h[x].id}) ELSE {}]
    /\ UNCHANGED <<nextId, rules, boot, seeded, torn, audit, crashes, overlap>>

\* deletePolicyHandler.
Delete(x) ==
    /\ Arrives(x)
    /\ \E id \in Ids :
         LET old == {y \in rows : y.id = id} IN
         /\ Answer(x, "delete", id, DefaultRules[1], RulesIn(old), old # {})
         /\ rows' = rows \ old
    /\ UNCHANGED <<nextId, rules, boot, seeded, torn, audit, crashes>>

\* togglePolicyHandler.
Toggle(x) ==
    /\ Arrives(x)
    /\ \E id \in Ids, on \in BOOLEAN :
         LET old == {y \in rows : y.id = id} IN
         /\ Answer(x, "toggle", id, DefaultRules[1], {}, old # {})
         /\ rows' = (rows \ old) \cup {[y EXCEPT !.enabled = on] : y \in old}
    /\ UNCHANGED <<nextId, rules, boot, seeded, torn, audit, crashes>>

\* ReloadPolicies: the query ...
ReloadRead(x) ==
    /\ h[x].at = "committed"
    /\ h' = [h EXCEPT ![x].at = "read", ![x].snap = EnabledByName(rows)]
    /\ UNCHANGED <<rows, nextId, rules, boot, seeded, torn, audit, crashes, overlap>>

\* ... which fails when the client has gone (the request's context); the
\* handler logs it and goes on.
ReloadFails(x) ==
    /\ h[x].at = "committed"
    /\ h' = [h EXCEPT ![x].at = "reloaded", ![x].reload = "failed", ![x].gone = TRUE]
    /\ UNCHANGED <<rows, nextId, rules, boot, seeded, torn, audit, crashes, overlap>>

\* ... and the assignment of e.Rules.
ReloadAssign(x) ==
    /\ h[x].at = "read"
    /\ rules' = h[x].snap
    /\ h' = [h EXCEPT ![x].at = "reloaded", ![x].reload = "ok", ![x].snap = <<>>]
    /\ UNCHANGED <<rows, nextId, boot, seeded, torn, audit, crashes, overlap>>

\* Mutant: one of the handlers lacks its writeAudit call.
WriteAuditNoToggle(x) ==
    /\ h[x].at = "reloaded"
    /\ \E gone \in {h[x].gone, TRUE} :
         /\ audit' = IF gone \/ h[x].kind = "toggle" THEN audit ELSE audit \cup {x}
         /\ h' = [h EXCEPT ![x].at = "done", ![x].gone = gone]
    /\ UNCHANGED <<rows, nextId, rules, boot, seeded, torn, crashes, overlap>>

\* writeAudit and the answer; the row is lost if the client has gone, before
\* the reload or since.
WriteAudit(x) ==
    /\ h[x].at = "reloaded"
    /\ \E gone \in {h[x].gone, TRUE} :
         /\ audit' = IF gone THEN audit ELSE audit \cup {x}
         /\ h' = [h EXCEPT ![x].at = "done", ![x].gone = gone]
    /\ UNCHANGED <<rows, nextId, rules, boot, seeded, torn, crashes, overlap>>

-----------------------------------------------------------------------------
HandlerStep(x) ==
    \/ Create(x) \/ UpdateRead(x) \/ UpdateWrite(x) \/ Delete(x) \/ Toggle(x)
    \/ ReloadRead(x) \/ ReloadFails(x) \/ ReloadAssign(x) \/ WriteAudit(x)

\* The server is up and every request has been served.
Served == boot = "up" /\ (\A x \in Handlers : h[x].at \in {"done", "dead"}) /\ UNCHANGED vars

Next == \/ Start \/ SeedOne \/ SeedDone \/ Crash
        \/ \E x \in Handlers : HandlerStep(x)
        \/ Served

Spec == Init /\ [][Next]_vars

-----------------------------------------------------------------------------
(* Properties                                                              *)

Quiet == boot = "up" /\ \A x \in Handlers : ~Busy(x)

\* The running server has committed edits and reloaded after each.
EditsOfThisBoot == {x \in Handlers : h[x].wrote /\ h[x].at # "dead"}
EditedAndReloaded == /\ EditsOfThisBoot # {}
                     /\ \A x \in EditsOfThisBoot : h[x].reload = "ok"

\* An operation's decision as the table promises it: among the enabled rows
\* that match, the one whose name sorts first; none: confirm writes.
Governs(t, op, e) ==
    LET hits == {x \in t : x.enabled /\ Matches(x.rule, op)} IN
    \/ \E x \in hits : /\ x.rule.effect = e
                       /\ \A y \in hits : Rank(x.rule.name) <= Rank(y.rule.name)
    \/ hits = {} /\ e = IF IsWrite(op.action) THEN "confirm" ELSE "allow"

\* ReloadPolicies: "policy edits take effect at runtime": once edits served
\* one after the other are answered, every decision is the table's.
SerialEditsGovern ==
    Quiet /\ ~overlap /\ EditedAndReloaded
        => \A op \in Ops : Governs(rows, op, Evaluate(rules, op))

\* "The toggle endpoint owns that": while requests do not overlap, only a
\* toggle changes the enabled flag of a row that stays.
OnlyToggleSwitches ==
    [][~overlap' =>
         \A x \in rows, y \in rows' : x.id = y.id /\ x.enabled # y.enabled =>
             \E k \in Handlers : h'[k].kind = "toggle" /\ h'[k].id = x.id /\ h[k].at = "idle"]_vars

\* The rules that have entered the table: the ones seeded, and those of
\* committed edits, the dead servers' included.
Defaults(n) == {DefaultRules[i] : i \in 1..n}
Writers == {x \in Handlers : h[x].wrote /\ h[x].kind \in {"create", "update"}}
Entered == Defaults(seeded) \cup {h[x].rule : x \in Writers}
Taken == UNION {h[x].old : x \in Handlers}

\* Seeding works on a table of its own, so that no insert of it can meet a
\* taken name and keep the server from starting; a server is up with fewer
\* than the default rules seeded only when a stop tore the seeding; and over
\* any stops and starts a rule that has entered the table is there until an
\* edit that replaces or deletes its row takes it out.
RulesKept ==
    /\ boot = "seeding" => RulesIn(rows) = Defaults(seeded) /\ \A y \in rows : y.enabled
    /\ boot = "up" => seeded = Len(DefaultRules) \/ torn
    /\ Entered \subseteq RulesIn(rows) \cup Taken

\* The table is sound (well typed, ids and names unique) and audit_log agrees
\* with it: what is recorded was committed, and a committed edit is missing
\* only when its client went away or the server stopped.
AuditMatchesTable ==
    /\ TypeOK
    /\ \A x \in Handlers :
        /\ x \in audit => h[x].wrote
        /\ h[x].at = "done" /\ h[x].wrote /\ ~h[x].gone => x \in audit

=============================================================================
