-------------------------- MODULE PolicyStoreProofs --------------------------
(***************************************************************************)
(* Proofs about PolicyStore, for any handlers, user rules, name order and  *)
(* operations.                                                             *)
(*                                                                         *)
(* The first part is about ORDER BY name: the list ReloadPolicies reads    *)
(* holds every enabled row, in name order, so that Engine.Evaluate's first *)
(* match is the row the table promises (ListGoverns).  That every place of *)
(* the list is taken is an induction over the place; SetInduction states   *)
(* it for a set of numbers, and rests on the well-foundedness of <.        *)
(*                                                                         *)
(* The second part is the invariant.  The handlers hold no lock, so what   *)
(* one has read is only known to be current while no other has overlapped  *)
(* it (Alone, Fresh), and the engine agrees with the table only once every *)
(* edit of this boot is reloaded (Current).  Unserved, that no request     *)
(* outlives its server, is what restarts rest on.                          *)
(***************************************************************************)
EXTENDS PolicyStore, FiniteSetTheorems, WellFoundedInduction, TLAPS

\* Every non-empty set of naturals has a least element.
LEMMA Least ==
  ASSUME NEW T \in SUBSET Nat, T # {}
  PROVE  \E a \in T : \A b \in T : a <= b
<1> DEFINE R == OpToRel(<, Nat)
<1>1. IsWellFoundedOn(R, Nat)
  BY NatLessThanWellFounded
<1>2. \A a, b \in Nat : ~(<<b, a>> \in R) => a <= b
  BY DEF OpToRel
<1> HIDE DEF R
<1>3. \E a \in T : \A b \in T : ~(<<b, a>> \in R)
  BY <1>1, WFMin
<1> QED
  BY <1>2, <1>3

\* Induction, stated for a set.
LEMMA SetInduction ==
  ASSUME NEW S \in SUBSET Nat, 0 \in S, \A n \in S : n + 1 \in S
  PROVE  S = Nat
<1>1. SUFFICES ASSUME Nat \ S # {} PROVE FALSE
  OBVIOUS
<1>2. PICK a \in Nat \ S : \A b \in Nat \ S : a <= b
  BY <1>1, Least
<1>3. a - 1 \in Nat /\ a - 1 \in S
  BY <1>2
<1> QED
  BY <1>2, <1>3

-----------------------------------------------------------------------------
(* ORDER BY name                                                           *)

\* The table, and any part of it: rows of their own names.
Row == [id: Nat, rule: AllRules, enabled: BOOLEAN]
Table(t) == /\ IsFiniteSet(t) /\ t \subseteq Row
            /\ \A x, y \in t : x.rule.name = y.rule.name => x = y
Key(x) == Rank(x.rule.name)

LEMMA RankSound ==
  ASSUME NEW n \in Names
  PROVE  Rank(n) \in Nat /\ Rank(n) \in DOMAIN NameOrder /\ NameOrder[Rank(n)] = n
<1>1. NameOrder \in Seq(Names)
  BY PolicyConstants DEF Names
<1>2. \E i \in DOMAIN NameOrder : NameOrder[i] = n
  BY DEF Names, ToSet
<1>3. Rank(n) \in DOMAIN NameOrder /\ NameOrder[Rank(n)] = n
  BY <1>2 DEF Rank
<1>4. DOMAIN NameOrder \subseteq Nat
  BY <1>1
<1> QED
  BY <1>3, <1>4

LEMMA RuleNames == \A r \in AllRules : r.name \in Names
  BY PolicyConstants DEF AllRules, Names, ToSet

\* No two rows of a table have the same place in the order.
LEMMA KeySound ==
  ASSUME NEW e, Table(e)
  PROVE  /\ \A x \in e : Key(x) \in Nat
         /\ \A x, y \in e : Key(x) = Key(y) => x = y
<1>1. \A x \in e : x.rule.name \in Names
  BY RuleNames DEF Table, Row
<1>2. \A x \in e : Key(x) \in Nat /\ NameOrder[Key(x)] = x.rule.name
  BY <1>1, RankSound DEF Key
<1>3. \A x, y \in e : x.rule.name = y.rule.name => x = y
  BY DEF Table
<1> QED
  BY <1>2, <1>3

\* A non-empty part of a table has a first row.
LEMMA FirstRow ==
  ASSUME NEW e, Table(e), NEW f \in SUBSET e, f # {}
  PROVE  \E x \in f : \A y \in f : Key(x) <= Key(y)
<1> DEFINE T == {Key(x) : x \in f}
<1>1. T \in SUBSET Nat /\ T # {}
  BY KeySound
<1>2. \E a \in T : \A b \in T : a <= b
  BY <1>1, Least
<1> QED
  BY <1>2

LEMMA BeforeFinite ==
  ASSUME NEW e, Table(e), NEW x \in e
  PROVE  /\ IsFiniteSet(Before(e, x)) /\ Cardinality(Before(e, x)) \in Nat
         /\ Cardinality(Before(e, x)) < Cardinality(e)
<1>1. IsFiniteSet(e)
  BY DEF Table
<1>2. Key(x) \in Nat
  BY KeySound
<1>3. Before(e, x) \in SUBSET e /\ x \notin Before(e, x)
  BY <1>2 DEF Before, Key
<1>4. Before(e, x) # e
  BY <1>3
<1>5. /\ IsFiniteSet(Before(e, x)) /\ Cardinality(Before(e, x)) <= Cardinality(e)
      /\ Cardinality(e) = Cardinality(Before(e, x)) => Before(e, x) = e
  BY <1>1, <1>3, FS_Subset
<1>6. Cardinality(Before(e, x)) \in Nat /\ Cardinality(e) \in Nat
  BY <1>1, <1>5, FS_CardinalityType
<1> QED
  BY <1>4, <1>5, <1>6

\* A row that comes later has more rows before it.
LEMMA BeforeGrows ==
  ASSUME NEW e, Table(e), NEW x \in e, NEW y \in e, Key(x) < Key(y)
  PROVE  Cardinality(Before(e, x)) < Cardinality(Before(e, y))
<1>1. Key(x) \in Nat /\ Key(y) \in Nat /\ \A z \in e : Key(z) \in Nat
  BY KeySound
<1>2. Before(e, x) \in SUBSET Before(e, y)
  BY <1>1 DEF Before, Key
<1>3. x \in Before(e, y) /\ x \notin Before(e, x)
  BY <1>1 DEF Before, Key
<1>4. /\ IsFiniteSet(Before(e, y)) /\ Cardinality(Before(e, y)) \in Nat
      /\ Cardinality(Before(e, x)) \in Nat
  BY BeforeFinite
<1>5. /\ Cardinality(Before(e, x)) <= Cardinality(Before(e, y))
      /\ Cardinality(Before(e, y)) = Cardinality(Before(e, x)) => Before(e, x) = Before(e, y)
  BY <1>2, <1>4, FS_Subset
<1> QED
  BY <1>3, <1>4, <1>5

\* The row after x, if there is one, has x and the rows before x before it.
LEMMA NextRow ==
  ASSUME NEW e, Table(e), NEW x \in e, Cardinality(Before(e, x)) + 1 < Cardinality(e)
  PROVE  \E z \in e : Cardinality(Before(e, z)) = Cardinality(Before(e, x)) + 1
<1> DEFINE b == Before(e, x)
           after == {y \in e : Key(x) < Key(y)}
<1>1. IsFiniteSet(b) /\ Cardinality(b) \in Nat
  BY BeforeFinite
<1>2. \A y \in e : Key(y) \in Nat
  BY KeySound
<1>3. x \notin b /\ b \subseteq e /\ \A y \in e : y \in b <=> Key(y) < Key(x)
  BY <1>2 DEF Before, Key
<1>4. Cardinality(b \cup {x}) = Cardinality(b) + 1
  BY <1>1, <1>3, FS_AddElement
<1>5. b \cup {x} # e
  BY <1>1, <1>4
<1>6. PICK w \in e : w \notin b /\ w # x
  BY <1>3, <1>5
<1>7. Key(w) # Key(x)
  BY <1>6, KeySound
<1>8. w \in after
  BY <1>2, <1>3, <1>6, <1>7
<1>9. after \in SUBSET e /\ after # {}
  BY <1>8
<1>10. PICK z \in after : \A y \in after : Key(z) <= Key(y)
  <2> HIDE DEF after
  <2> QED
    BY <1>9, FirstRow
<1>11. \A y \in e : Key(y) < Key(z) <=> (y \in b \/ y = x)
  <2> SUFFICES ASSUME NEW y \in e PROVE Key(y) < Key(z) <=> (y \in b \/ y = x)
    OBVIOUS
  <2>1. Key(x) \in Nat /\ Key(y) \in Nat /\ Key(z) \in Nat /\ Key(x) < Key(z)
    BY <1>2, <1>10
  <2>2. Key(y) = Key(x) => y = x
    BY KeySound
  <2>3. Key(x) < Key(y) => Key(z) <= Key(y)
    BY <1>10
  <2>4. y \in b <=> Key(y) < Key(x)
    BY <1>3
  <2> QED
    BY <2>1, <2>2, <2>3, <2>4
<1>12. Before(e, z) = b \cup {x}
  <2>1. \A y : y \in Before(e, z) <=> y \in e /\ Key(y) < Key(z)
    BY DEF Before, Key
  <2> HIDE DEF b, after
  <2> QED
    BY <2>1, <1>3, <1>11
<1> QED
  BY <1>4, <1>10, <1>12

\* Every place is taken.
LEMMA PlaceTaken ==
  ASSUME NEW e, Table(e), NEW i \in Nat, i < Cardinality(e)
  PROVE  \E x \in e : Cardinality(Before(e, x)) = i
<1> DEFINE S == {k \in Nat : k < Cardinality(e) =>
                              \E x \in e : Cardinality(Before(e, x)) = k}
<1>0. IsFiniteSet(e) /\ Cardinality(e) \in Nat
  BY FS_CardinalityType DEF Table
<1>1. 0 \in S
  <2> SUFFICES ASSUME 0 < Cardinality(e) PROVE \E x \in e : Cardinality(Before(e, x)) = 0
    OBVIOUS
  <2>1. e # {}
    BY FS_EmptySet
  <2>2. PICK x \in e : \A y \in e : Key(x) <= Key(y)
    BY <2>1, FirstRow
  <2>3. \A y \in e : ~(Key(y) < Key(x))
    BY <2>2, KeySound
  <2>4. Before(e, x) = {}
    BY <2>3 DEF Before, Key
  <2> QED
    BY <2>4, FS_EmptySet
<1>2. ASSUME NEW k \in S PROVE k + 1 \in S
  <2> SUFFICES ASSUME k + 1 < Cardinality(e)
               PROVE  \E x \in e : Cardinality(Before(e, x)) = k + 1
    OBVIOUS
  <2>1. k < Cardinality(e)
    BY <1>0
  <2>2. PICK x \in e : Cardinality(Before(e, x)) = k
    BY <2>1
  <2> QED
    BY <2>2, NextRow
<1> HIDE DEF S
<1>3. S = Nat
  <2>1. S \in SUBSET Nat
    BY DEF S
  <2> QED
    BY <2>1, <1>1, <1>2, SetInduction
<1> QED
  BY <1>3 DEF S

LEMMA NthSound ==
  ASSUME NEW e, Table(e), NEW i \in 1..Cardinality(e)
  PROVE  Nth(e, i) \in e /\ Cardinality(Before(e, Nth(e, i))) = i - 1
<1>1. Cardinality(e) \in Nat
  BY FS_CardinalityType DEF Table
<1>2. i - 1 \in Nat /\ i - 1 < Cardinality(e)
  BY <1>1
<1>3. \E x \in e : Cardinality(Before(e, x)) = i - 1
  BY <1>2, PlaceTaken
<1> QED
  BY <1>3 DEF Nth

\* Every row is in the list ...
LEMMA RowHasPlace ==
  ASSUME NEW e, Table(e), NEW x \in e
  PROVE  \E i \in 1..Cardinality(e) : Nth(e, i) = x
<1>1. Cardinality(e) \in Nat
  BY FS_CardinalityType DEF Table
<1>2. PICK i \in 1..Cardinality(e) : Cardinality(Before(e, x)) = i - 1
  <2>1. Cardinality(Before(e, x)) + 1 \in 1..Cardinality(e)
        /\ Cardinality(Before(e, x)) = (Cardinality(Before(e, x)) + 1) - 1
    BY <1>1, BeforeFinite
  <2> QED
    BY <2>1
<1> DEFINE y == Nth(e, i)
<1>3. y \in e /\ Cardinality(Before(e, y)) = i - 1
  BY NthSound
<1> HIDE DEF y
<1>4. ~(Key(x) < Key(y)) /\ ~(Key(y) < Key(x))
  BY <1>1, <1>2, <1>3, BeforeGrows
<1>5. Key(x) \in Nat /\ Key(y) \in Nat
  BY <1>3, KeySound
<1>6. Key(x) = Key(y)
  BY <1>4, <1>5
<1>7. x = y
  BY <1>3, <1>6, KeySound
<1> QED
  BY <1>7 DEF y

\* ... and the list is in name order.
LEMMA NthOrdered ==
  ASSUME NEW e, Table(e), NEW i \in 1..Cardinality(e), NEW j \in 1..Cardinality(e), i <= j
  PROVE  Key(Nth(e, i)) <= Key(Nth(e, j))
<1> DEFINE x == Nth(e, i)
           y == Nth(e, j)
<1>1. /\ x \in e /\ Cardinality(Before(e, x)) = i - 1
      /\ y \in e /\ Cardinality(Before(e, y)) = j - 1
  BY NthSound
<1>0. Cardinality(e) \in Nat
  BY FS_CardinalityType DEF Table
<1> HIDE DEF x, y
<1>2. ~(Key(y) < Key(x))
  BY <1>0, <1>1, BeforeGrows
<1>3. Key(x) \in Nat /\ Key(y) \in Nat
  BY <1>1, KeySound
<1>4. Key(x) <= Key(y)
  BY <1>2, <1>3
<1> QED
  BY <1>4 DEF x, y

LEMMA EnabledTable ==
  ASSUME NEW t, Table(t)
  PROVE  Table(Enabled(t)) /\ Cardinality(Enabled(t)) \in Nat
<1>1. Enabled(t) \in SUBSET t
  BY DEF Enabled
<1>2. IsFiniteSet(Enabled(t))
  BY <1>1, FS_Subset DEF Table
<1>3. Table(Enabled(t))
  BY <1>1, <1>2 DEF Table
<1> QED
  BY <1>2, <1>3, FS_CardinalityType

\* What ReloadPolicies reads is a list of rules.
LEMMA EnabledByNameType ==
  ASSUME NEW t, Table(t)
  PROVE  EnabledByName(t) \in Seq(AllRules)
<1> DEFINE e == Enabled(t)
           n == Cardinality(e)
<1>1. Table(e) /\ n \in Nat
  BY EnabledTable
<1>2. \A i \in 1..n : Nth(e, i) \in e
  BY <1>1, NthSound
<1>3. \A x \in e : x.rule \in AllRules
  BY <1>1 DEF Table, Row
<1> HIDE DEF e
<1>4. \A i \in 1..n : Nth(e, i).rule \in AllRules
  BY <1>2, <1>3
<1>5. EnabledByName(t) = [i \in 1..n |-> Nth(e, i).rule]
  BY DEF EnabledByName, e
<1> HIDE DEF n
<1>6. [i \in 1..n |-> Nth(e, i).rule] \in [1..n -> AllRules]
  BY <1>4
<1> QED
  BY <1>1, <1>5, <1>6

\* Engine.Evaluate on that list decides as the table says.
LEMMA ListGoverns ==
  ASSUME NEW t, Table(t), NEW op
  PROVE  Governs(t, op, Evaluate(EnabledByName(t), op))
<1> DEFINE e == Enabled(t)
           s == EnabledByName(t)
           n == Cardinality(e)
           H == {i \in DOMAIN s : Matches(s[i], op)}
           hits == {x \in t : x.enabled /\ Matches(x.rule, op)}
<1>1. Table(e) /\ n \in Nat
  BY EnabledTable
<1>2. DOMAIN s = 1..n /\ \A i \in 1..n : s[i] = Nth(e, i).rule
  BY DEF EnabledByName
<1>3. \A i \in 1..n : Nth(e, i) \in e
  BY <1>1, NthSound
<1>4. \A x \in e : \E i \in 1..n : Nth(e, i) = x
  BY <1>1, RowHasPlace
<1>5. \A i, j \in 1..n : i <= j => Key(Nth(e, i)) <= Key(Nth(e, j))
  BY <1>1, NthOrdered
<1>6. \A x : x \in hits <=> x \in e /\ Matches(x.rule, op)
  BY DEF Enabled
<1>7. Evaluate(s, op) = IF H # {} THEN s[Min(H)].effect
                        ELSE IF IsWrite(op.action) THEN "confirm" ELSE "allow"
  BY DEF Evaluate
<1>8. \A i : i \in H <=> i \in 1..n /\ Matches(Nth(e, i).rule, op)
  BY <1>2
<1>9. \A v : Governs(t, op, v) <=>
        \/ \E x \in hits : /\ x.rule.effect = v
                            /\ \A y \in hits : Key(x) <= Key(y)
        \/ hits = {} /\ v = IF IsWrite(op.action) THEN "confirm" ELSE "allow"
  BY DEF Governs, Key
<1> HIDE DEF e, s, n, H, hits
<1>10. CASE H = {}
  <2>1. hits = {}
    BY <1>10, <1>4, <1>6, <1>8
  <2> QED
    BY <2>1, <1>7, <1>9, <1>10 DEF s
<1>11. CASE H # {}
  <2>1. H \in SUBSET Nat
    BY <1>8
  <2>2. \E a \in H : \A b \in H : a <= b
    BY <2>1, <1>11, Least
  <2>3. Min(H) \in H /\ \A b \in H : Min(H) <= b
    BY <2>2 DEF Min
  <2> PICK m \in H : m = Min(H)
    BY <2>3
  <2>4. m \in 1..n /\ Nth(e, m) \in hits
    BY <1>3, <1>6, <1>8
  <2>5. Evaluate(s, op) = Nth(e, m).rule.effect
    BY <1>2, <1>7, <1>11, <2>4
  <2>6. \A y \in hits : Key(Nth(e, m)) <= Key(y)
    <3> SUFFICES ASSUME NEW y \in hits PROVE Key(Nth(e, m)) <= Key(y)
      OBVIOUS
    <3>1. PICK j \in 1..n : Nth(e, j) = y
      BY <1>4, <1>6
    <3>2. j \in H
      BY <3>1, <1>6, <1>8
    <3> QED
      BY <3>1, <3>2, <2>3, <2>4, <1>5
  <2> QED
    BY <2>4, <2>5, <2>6, <1>9 DEF s
<1> QED
  BY <1>10, <1>11

-----------------------------------------------------------------------------
(* The inductive invariant                                                 *)

\* What a handler's place says of its edit and its reload.
Phase(r, n) ==
    /\ r.at = "idle" => ~r.wrote
    /\ r.at = "loaded" => r.id \in 0..(n - 1) /\ ~r.wrote
    /\ r.at \in {"committed", "read", "reloaded"} => r.wrote
    /\ r.at \in {"loaded", "committed", "read"} => r.reload = "none"
Phases == \A x \in Handlers : Phase(h[x], nextId)

\* No request is served by a server that is not up.
Unserved == boot # "up" => \A x \in Handlers : h[x].at \in {"idle", "dead"}

\* While no two requests have overlapped, at most one is being served ...
Alone == ~overlap => \A x, y \in Handlers : Busy(x) /\ Busy(y) => x = y

\* ... so what it has read of the table is still so ...
FreshFor(r, t) ==
    /\ r.at = "loaded" => \A y \in t : y.id = r.id => y.enabled = r.enabled
    /\ r.at = "read" => r.snap = EnabledByName(t)
Fresh == ~overlap => \A x \in Handlers : FreshFor(h[x], rows)

\* ... and the engine has what the last reload read.
Current == ~overlap /\ EditedAndReloaded => rules = EnabledByName(rows)

Audited(x, r, log) ==
    /\ x \in log => r.wrote
    /\ r.at = "done" /\ r.wrote /\ ~r.gone => x \in log
AuditSound == \A x \in Handlers : Audited(x, h[x], audit)

IInv == /\ TypeOK /\ IsFiniteSet(rows)
        /\ Phases /\ Unserved /\ Alone /\ Fresh /\ Current /\ AuditSound

LEMMA DefaultFacts ==
  /\ DefaultRules \in Seq(AllRules) /\ Len(DefaultRules) \in Nat
  /\ DefaultRules[1] \in AllRules
  /\ \A i \in 1..Len(DefaultRules) : DefaultRules[i] \in AllRules
<1>1. /\ DefaultRules \in Seq({DefaultRules[i] : i \in 1..4}) /\ Len(DefaultRules) = 4
      /\ DOMAIN DefaultRules = 1..4
  BY DEF DefaultRules
<1>2. \A i \in 1..4 : DefaultRules[i] \in AllRules
  BY <1>1, Zenon DEF AllRules, ToSet
<1>3. DefaultRules \in [1..4 -> AllRules]
  BY <1>1, <1>2
<1> QED
  BY <1>1, <1>2, <1>3

LEMMA WaitingType ==
  /\ Waiting \in Handler /\ Waiting.at = "idle" /\ Waiting.wrote = FALSE /\ Waiting.reload = "none"
  /\ Waiting.old = {}
<1>1. <<>> \in Seq(AllRules) /\ 0 \in Nat
  OBVIOUS
<1> QED
  BY <1>1, DefaultFacts DEF Waiting, Handler

\* The table of a reachable state is one the lemmas above speak of.
LEMMA RowsTable == ASSUME IInv PROVE Table(rows) /\ nextId \in Nat
<1>1. /\ rows \subseteq [id: Ids, rule: AllRules, enabled: BOOLEAN] /\ nextId \in Nat
      /\ IsFiniteSet(rows)
      /\ \A x, y \in rows : x.rule.name = y.rule.name => x = y
  BY DEF IInv, TypeOK
<1>2. Ids \subseteq Nat
  BY <1>1 DEF Ids
<1> QED
  BY <1>1, <1>2 DEF Table, Row

\* An edit that is not reloaded yet stands between table and engine ...
LEMMA EditPending ==
  ASSUME IInv, NEW x \in Handlers, NEW new, h' = [h EXCEPT ![x] = new],
         new.wrote, new.at # "dead", new.reload # "ok"
  PROVE  ~EditedAndReloaded'
<1>1. h'[x] = new
  BY DEF IInv, TypeOK
<1> QED
  BY <1>1 DEF EditedAndReloaded, EditsOfThisBoot

\* ... and a step that neither commits nor reloads leaves the edits as they are.
LEMMA EditsStand ==
  ASSUME IInv, NEW x \in Handlers, NEW new, h' = [h EXCEPT ![x] = new], EditedAndReloaded',
         \/ ~new.wrote /\ ~h[x].wrote
         \/ /\ new.wrote /\ h[x].wrote /\ new.at # "dead" /\ h[x].at # "dead"
            /\ new.reload = h[x].reload
  PROVE  EditedAndReloaded
<1>1. h'[x] = new /\ \A y \in Handlers : y # x => h'[y] = h[y]
  BY DEF IInv, TypeOK
<1>2. \A y \in Handlers : (h'[y].wrote /\ h'[y].at # "dead") => h'[y].reload = "ok"
  BY DEF EditedAndReloaded, EditsOfThisBoot
<1>3. PICK y \in Handlers : h'[y].wrote /\ h'[y].at # "dead"
  BY DEF EditedAndReloaded, EditsOfThisBoot
<1>4. ASSUME NEW z \in Handlers, h[z].wrote, h[z].at # "dead" PROVE h[z].reload = "ok"
  BY <1>1, <1>2, <1>4
<1>5. CASE ~new.wrote /\ ~h[x].wrote
  BY <1>1, <1>3, <1>4, <1>5 DEF EditedAndReloaded, EditsOfThisBoot
<1>6. CASE new.wrote /\ h[x].wrote /\ h[x].at # "dead"
  BY <1>1, <1>3, <1>4, <1>6 DEF EditedAndReloaded, EditsOfThisBoot
<1> QED
  BY <1>5, <1>6

\* The rows of a table whose ids are below n.
Sound(t, n) ==
    /\ IsFiniteSet(t) /\ n \in Nat
    /\ t \subseteq [id: 0..(n - 1), rule: AllRules, enabled: BOOLEAN]
    /\ \A x, y \in t : x.id = y.id \/ x.rule.name = y.rule.name => x = y

LEMMA RowsSound == ASSUME IInv PROVE Sound(rows, nextId)
  BY DEF IInv, TypeOK, Sound, Ids

\* A step of handler x that leaves new behind preserves the invariant, when the
\* table stays sound and new tells the truth about it.
LEMMA HandlerKeeps ==
  ASSUME IInv, NEW x \in Handlers, NEW new \in Handler, boot = "up",
         h' = [h EXCEPT ![x] = new], UNCHANGED <<boot, seeded, torn, crashes>>,
         Sound(rows', nextId'), nextId <= nextId',
         rules' \in Seq(AllRules), audit' \subseteq Handlers, overlap' \in BOOLEAN,
         Phase(new, nextId'), Audited(x, new, audit'),
         \A y \in Handlers \ {x} : y \in audit' <=> y \in audit,
         ~overlap' => ~overlap /\ \A y \in Handlers \ {x} : ~Busy(y),
         ~overlap' => FreshFor(new, rows'),
         ~overlap' /\ EditedAndReloaded' => rules' = EnabledByName(rows')
  PROVE  IInv'
<1>1. h \in [Handlers -> Handler] /\ nextId \in Nat /\ nextId' \in Nat
  BY DEF IInv, TypeOK, Sound
<1>2. h'[x] = new /\ \A y \in Handlers \ {x} : h'[y] = h[y]
  BY <1>1
<1>3. h' \in [Handlers -> Handler]
  BY <1>1
<1>4. TypeOK' /\ IsFiniteSet(rows')
  BY <1>3 DEF IInv, TypeOK, Sound, Ids
<1>5. Phases'
  <2> SUFFICES ASSUME NEW y \in Handlers PROVE Phase(h'[y], nextId')
    BY DEF Phases, Phase
  <2>1. CASE y = x
    BY <2>1, <1>2
  <2>2. CASE y # x
    <3>1. Phase(h[y], nextId) /\ h'[y] = h[y]
      BY <2>2, <1>2 DEF IInv, Phases
    <3> QED
      BY <3>1, <1>1 DEF Phase
  <2> QED
    BY <2>1, <2>2
<1>6. Unserved'
  BY DEF Unserved
<1>7. Alone'
  <2> SUFFICES ASSUME ~overlap', NEW y \in Handlers, NEW z \in Handlers, Busy(y)', Busy(z)'
               PROVE  y = z
    BY DEF Alone
  <2>1. \A w \in Handlers \ {x} : ~Busy(w)'
    BY <1>2 DEF Busy
  <2> QED
    BY <2>1
<1>8. Fresh'
  <2> SUFFICES ASSUME ~overlap', NEW y \in Handlers PROVE FreshFor(h'[y], rows')
    BY DEF Fresh, FreshFor
  <2>1. CASE y = x
    BY <2>1, <1>2
  <2>2. CASE y # x
    <3>1. h'[y].at \in {"idle", "done", "dead"}
      BY <2>2, <1>2 DEF Busy
    <3> QED
      BY <3>1 DEF FreshFor
  <2> QED
    BY <2>1, <2>2
<1>9. Current'
  BY DEF Current
<1>10. AuditSound'
  <2> SUFFICES ASSUME NEW y \in Handlers PROVE Audited(y, h'[y], audit')
    BY DEF AuditSound, Audited
  <2>1. CASE y = x
    BY <2>1, <1>2
  <2>2. CASE y # x
    BY <2>2, <1>2 DEF IInv, AuditSound, Audited
  <2> QED
    BY <2>1, <2>2
<1> QED
  BY <1>4, <1>5, <1>6, <1>7, <1>8, <1>9, <1>10 DEF IInv

\* The handler that arrives, and the one being served, are alone unless overlap.
LEMMA ArrivesAlone ==
  ASSUME IInv, NEW x \in Handlers, Arrives(x)
  PROVE  /\ boot = "up" /\ h[x].at = "idle" /\ overlap' \in BOOLEAN
         /\ ~overlap' => ~overlap /\ \A y \in Handlers \ {x} : ~Busy(y)
         /\ ~h[x].wrote /\ x \notin audit
<1>1. boot = "up" /\ h[x].at = "idle" /\ overlap' = (overlap \/ \E y \in Handlers : Busy(y))
  BY DEF Arrives
<1>2. ~h[x].wrote /\ x \notin audit
  BY <1>1 DEF IInv, Phases, Phase, AuditSound, Audited
<1>3. ~overlap' => ~overlap /\ \A y \in Handlers \ {x} : ~Busy(y)
  BY <1>1
<1>4. overlap' \in BOOLEAN
  BY <1>1
<1> QED
  BY <1>1, <1>2, <1>3, <1>4

LEMMA ServedAlone ==
  ASSUME IInv, NEW x \in Handlers, Busy(x), UNCHANGED overlap
  PROVE  /\ boot = "up" /\ overlap' \in BOOLEAN
         /\ ~overlap' => ~overlap /\ \A y \in Handlers \ {x} : ~Busy(y)
<1>1. boot = "up"
  BY DEF IInv, Unserved, Busy
<1>2. ~overlap => \A y \in Handlers \ {x} : ~Busy(y)
  BY DEF IInv, Alone
<1>3. overlap' \in BOOLEAN
  BY DEF IInv, TypeOK
<1> QED
  BY <1>1, <1>2, <1>3

-----------------------------------------------------------------------------
(* The statements                                                          *)

LEMMA SoundSubset ==
  ASSUME NEW t, NEW n, NEW m \in Nat, Sound(t, n), n <= m, NEW u \in SUBSET t
  PROVE  Sound(u, m)
<1>1. IsFiniteSet(u)
  BY FS_Subset DEF Sound
<1>2. \A i \in 0..(n - 1) : i \in 0..(m - 1)
  BY DEF Sound
<1>3. ASSUME NEW x \in t PROVE x \in [id: 0..(m - 1), rule: AllRules, enabled: BOOLEAN]
  <2>1. x \in [id: 0..(n - 1), rule: AllRules, enabled: BOOLEAN]
    BY DEF Sound
  <2> QED
    BY <2>1, <1>2, Zenon
<1> QED
  BY <1>1, <1>3 DEF Sound

\* A row takes the place of the one with its id, if its name is free.
LEMMA SoundAdd ==
  ASSUME NEW t, NEW m \in Nat, Sound(t, m), NEW r \in [id: 0..(m - 1), rule: AllRules, enabled: BOOLEAN],
         \A x \in t : x.id # r.id /\ x.rule.name # r.rule.name
  PROVE  Sound(t \cup {r}, m)
<1>1. IsFiniteSet(t \cup {r})
  BY FS_AddElement DEF Sound
<1> QED
  BY <1>1 DEF Sound

LEMMA UpsertSound ==
  ASSUME IInv, NEW id, NEW r \in AllRules, NEW on \in BOOLEAN, NEW m \in Nat,
         id \in 0..(m - 1), nextId <= m, NameFree(id, r)
  PROVE  Sound(Upserted(id, r, on), m)
<1> DEFINE rest == {x \in rows : x.id # id}
           row == [id |-> id, rule |-> r, enabled |-> on]
<1>1. rest \in SUBSET rows /\ Sound(rows, nextId)
  BY RowsSound
<1>2. \A x \in rest : x.id # id /\ x.rule.name # r.name
  BY DEF NameFree
<1>3. /\ row \in [id: 0..(m - 1), rule: AllRules, enabled: BOOLEAN]
      /\ row.id = id /\ row.rule = r
  OBVIOUS
<1>4. Upserted(id, r, on) = rest \cup {row}
  BY DEF Upserted
<1> HIDE DEF rest, row
<1>5. Sound(rest, m)
  BY <1>1, SoundSubset
<1>6. Sound(rest \cup {row}, m)
  BY <1>2, <1>3, <1>5, SoundAdd
<1> QED
  BY <1>4, <1>6

LEMMA ToggleSound ==
  ASSUME IInv, NEW id, NEW on \in BOOLEAN
  PROVE  Sound((rows \ {y \in rows : y.id = id})
               \cup {[y EXCEPT !.enabled = on] : y \in {y \in rows : y.id = id}}, nextId)
<1> DEFINE old == {y \in rows : y.id = id}
           rest == rows \ old
<1>1. Sound(rows, nextId) /\ nextId \in Nat
  BY RowsSound DEF Sound
<1>2. CASE old = {}
  <2>1. rest \cup {[y EXCEPT !.enabled = on] : y \in old} = rows
    BY <1>2
  <2> QED
    BY <1>1, <2>1
<1>3. CASE old # {}
  <2> PICK z \in rows : z.id = id
    BY <1>3
  <2> DEFINE new == [z EXCEPT !.enabled = on]
  <2>1. old = {z}
    BY <1>1 DEF Sound
  <2>2. z \in [id: 0..(nextId - 1), rule: AllRules, enabled: BOOLEAN]
    BY <1>1 DEF Sound
  <2>3. /\ new \in [id: 0..(nextId - 1), rule: AllRules, enabled: BOOLEAN]
        /\ new.id = z.id /\ new.rule = z.rule
    BY <2>2
  <2>4. {[y EXCEPT !.enabled = on] : y \in old} = {new}
    BY <2>1
  <2>5. rest \in SUBSET rows /\ \A x \in rest : x.id # z.id /\ x.rule.name # z.rule.name
    BY <1>1, <2>1 DEF Sound
  <2> HIDE DEF rest, new
  <2>6. Sound(rest, nextId)
    BY <1>1, <2>5, SoundSubset
  <2>7. Sound(rest \cup {new}, nextId)
    BY <1>1, <2>3, <2>5, <2>6, SoundAdd
  <2> QED
    BY <2>4, <2>7 DEF rest
<1> QED
  BY <1>2, <1>3

LEMMA RulesOfRows ==
  ASSUME IInv, NEW t \in SUBSET rows
  PROVE  RulesIn(t) \in SUBSET AllRules
  BY DEF IInv, TypeOK, RulesIn

LEMMA AnswerFacts ==
  ASSUME NEW x \in Handlers, NEW kind \in {"create", "delete", "toggle"}, NEW id \in Nat,
         NEW r \in AllRules, NEW old \in SUBSET AllRules, NEW wrote \in BOOLEAN,
         Answer(x, kind, id, r, old, wrote)
  PROVE  \E new \in Handler :
           /\ h' = [h EXCEPT ![x] = new]
           /\ new.at = (IF wrote THEN "committed" ELSE "done")
           /\ new.kind = kind /\ new.id = id /\ new.wrote = wrote /\ new.reload = "none"
           /\ new.rule = r /\ new.old = old
<1> DEFINE pl == IF wrote THEN "committed" ELSE "done"
           new == [Waiting EXCEPT !.at = pl, !.kind = kind, !.id = id, !.rule = r, !.wrote = wrote,
                            !.old = old]
<1>1. h' = [h EXCEPT ![x] = new]
  BY DEF Answer
<1>2. pl \in {"committed", "done"}
  OBVIOUS
<1>3. Waiting \in Handler /\ Waiting.reload = "none"
  BY WaitingType
<1> HIDE DEF pl
<1>4. /\ new \in Handler /\ new.at = pl /\ new.kind = kind /\ new.id = id /\ new.wrote = wrote
      /\ new.reload = "none" /\ new.rule = r /\ new.old = old
  BY <1>2, <1>3 DEF Handler
<1> HIDE DEF new
<1> QED
  BY <1>1, <1>4 DEF pl

\* A handler that answers its first statement: create, delete and toggle.
LEMMA FirstStatement ==
  ASSUME IInv, NEW x \in Handlers, Arrives(x), NEW new \in Handler, NEW wrote \in BOOLEAN,
         h' = [h EXCEPT ![x] = new],
         new.at = (IF wrote THEN "committed" ELSE "done"),
         new.wrote = wrote, new.reload = "none",
         Sound(rows', nextId'), nextId <= nextId', ~wrote => rows' = rows,
         UNCHANGED <<rules, boot, seeded, torn, audit, crashes>>
  PROVE  IInv'
<1>1. /\ boot = "up" /\ h[x].at = "idle" /\ overlap' \in BOOLEAN
      /\ ~overlap' => ~overlap /\ \A y \in Handlers \ {x} : ~Busy(y)
      /\ ~h[x].wrote /\ x \notin audit
  BY ArrivesAlone
<1>2. rules' \in Seq(AllRules) /\ audit' \subseteq Handlers
  BY DEF IInv, TypeOK
<1>3. Phase(new, nextId')
  BY DEF Phase
<1>4. Audited(x, new, audit')
  BY <1>1 DEF Audited
<1>5. FreshFor(new, rows')
  BY DEF FreshFor
<1>6. ASSUME ~overlap', EditedAndReloaded' PROVE rules' = EnabledByName(rows')
  <2>1. ~wrote
    BY <1>6, EditPending
  <2>2. EditedAndReloaded
    BY <1>1, <1>6, <2>1, EditsStand
  <2> QED
    BY <1>1, <1>6, <2>1, <2>2 DEF IInv, Current
<1> QED
  BY <1>1, <1>2, <1>3, <1>4, <1>5, <1>6, HandlerKeeps

LEMMA CreateOK == ASSUME IInv, NEW x \in Handlers, Create(x) PROVE IInv'
<1>1. PICK r \in UserRules :
        /\ Answer(x, "create", nextId, r, {}, NameFree(nextId, r))
        /\ rows' = IF NameFree(nextId, r) THEN Upserted(nextId, r, TRUE) ELSE rows
  BY DEF Create
<1>2. /\ Arrives(x) /\ nextId' = nextId + 1
      /\ UNCHANGED <<rules, boot, seeded, torn, audit, crashes>>
  BY DEF Create
<1>3. nextId \in Nat /\ nextId' \in Nat /\ nextId <= nextId' /\ nextId \in 0..(nextId' - 1)
  BY <1>2 DEF IInv, TypeOK
<1>4. r \in AllRules
  BY DEF AllRules
<1> DEFINE wrote == NameFree(nextId, r)
<1>5. wrote \in BOOLEAN
  BY DEF NameFree
<1>6. Answer(x, "create", nextId, r, {}, wrote) /\ (~wrote => rows' = rows)
  BY <1>1
<1>7. Sound(rows', nextId')
  <2>1. CASE wrote
    BY <2>1, <1>1, <1>3, <1>4, UpsertSound
  <2>2. CASE ~wrote
    <3>1. Sound(rows, nextId) /\ rows \in SUBSET rows
      BY RowsSound
    <3> QED
      BY <2>2, <1>3, <1>6, <3>1, SoundSubset
  <2> QED
    BY <2>1, <2>2
<1> HIDE DEF wrote
<1>8. PICK new \in Handler :
        /\ h' = [h EXCEPT ![x] = new]
        /\ new.at = (IF wrote THEN "committed" ELSE "done")
        /\ new.wrote = wrote /\ new.reload = "none"
  BY <1>3, <1>4, <1>5, <1>6, AnswerFacts
<1> QED
  BY <1>2, <1>3, <1>5, <1>6, <1>7, <1>8, FirstStatement

LEMMA DeleteOK == ASSUME IInv, NEW x \in Handlers, Delete(x) PROVE IInv'
<1>1. PICK id \in Ids :
        /\ Answer(x, "delete", id, DefaultRules[1], RulesIn({y \in rows : y.id = id}),
                  {y \in rows : y.id = id} # {})
        /\ rows' = rows \ {y \in rows : y.id = id}
  BY DEF Delete
<1>2. /\ Arrives(x) /\ UNCHANGED <<nextId, rules, boot, seeded, torn, audit, crashes>>
  BY DEF Delete
<1>3. nextId \in Nat /\ nextId' = nextId /\ id \in Nat /\ nextId <= nextId'
  BY <1>2 DEF IInv, TypeOK, Ids
<1> DEFINE wrote == {y \in rows : y.id = id} # {}
<1>5. wrote \in BOOLEAN
  OBVIOUS
<1>4. RulesIn({y \in rows : y.id = id}) \in SUBSET AllRules
  BY RulesOfRows
<1>6. PICK kind \in {"create", "delete", "toggle"}, r \in AllRules, out \in SUBSET AllRules,
           w \in BOOLEAN :
        Answer(x, kind, id, r, out, w) /\ (~w => rows' = rows)
  BY <1>1, <1>4, <1>5, DefaultFacts
<1>7. Sound(rows', nextId')
  <2>1. Sound(rows, nextId) /\ rows' \in SUBSET rows
    BY <1>1, RowsSound
  <2> QED
    BY <1>3, <2>1, SoundSubset
<1> HIDE DEF wrote
<1>8. Answer(x, kind, id, r, out, w) /\ id \in Nat
  BY <1>3, <1>6
<1>9. PICK new \in Handler :
        /\ h' = [h EXCEPT ![x] = new]
        /\ new.at = (IF w THEN "committed" ELSE "done")
        /\ new.kind = kind /\ new.id = id /\ new.wrote = w /\ new.reload = "none"
        /\ new.rule = r /\ new.old = out
  BY <1>8, AnswerFacts
<1> QED
  BY <1>2, <1>3, <1>6, <1>7, <1>9, FirstStatement

LEMMA ToggleFacts ==
  ASSUME IInv, NEW x \in Handlers, Toggle(x)
  PROVE  \E id \in Ids, on \in BOOLEAN, new \in Handler, wrote \in BOOLEAN :
           /\ rows' = (rows \ {y \in rows : y.id = id})
                      \cup {[y EXCEPT !.enabled = on] : y \in {y \in rows : y.id = id}}
           /\ ~wrote => rows' = rows
           /\ h' = [h EXCEPT ![x] = new]
           /\ new.at = (IF wrote THEN "committed" ELSE "done")
           /\ new.kind = "toggle" /\ new.id = id /\ new.wrote = wrote /\ new.reload = "none"
           /\ new.old = {}
<1>1. PICK id \in Ids, on \in BOOLEAN :
        /\ Answer(x, "toggle", id, DefaultRules[1], {}, {y \in rows : y.id = id} # {})
        /\ rows' = (rows \ {y \in rows : y.id = id})
                   \cup {[y EXCEPT !.enabled = on] : y \in {y \in rows : y.id = id}}
  BY DEF Toggle
<1>2. id \in Nat
  BY DEF IInv, TypeOK, Ids
<1> DEFINE old == {y \in rows : y.id = id}
           wrote == old # {}
<1>5. wrote \in BOOLEAN
  OBVIOUS
<1>6. PICK w \in BOOLEAN : Answer(x, "toggle", id, DefaultRules[1], {}, w) /\ (~w => rows' = rows)
  BY <1>1, <1>5
<1>7. PICK kind \in {"create", "delete", "toggle"}, r \in AllRules, none \in SUBSET AllRules :
        kind = "toggle" /\ r = DefaultRules[1] /\ none = {}
  BY DefaultFacts
<1> HIDE DEF wrote, old
<1>8. Answer(x, kind, id, r, none, w)
  BY <1>6, <1>7
<1>9. PICK new \in Handler :
        /\ h' = [h EXCEPT ![x] = new]
        /\ new.at = (IF w THEN "committed" ELSE "done")
        /\ new.kind = kind /\ new.id = id /\ new.wrote = w /\ new.reload = "none"
        /\ new.rule = r /\ new.old = none
  BY <1>2, <1>8, AnswerFacts
<1>10. new.kind = "toggle" /\ new.old = {}
  BY <1>7, <1>9
<1> QED
  BY <1>1, <1>6, <1>9, <1>10

LEMMA ToggleOK == ASSUME IInv, NEW x \in Handlers, Toggle(x) PROVE IInv'
<1>1. PICK id \in Ids, on \in BOOLEAN, new \in Handler, wrote \in BOOLEAN :
        /\ rows' = (rows \ {y \in rows : y.id = id})
                   \cup {[y EXCEPT !.enabled = on] : y \in {y \in rows : y.id = id}}
        /\ (~wrote => rows' = rows)
        /\ h' = [h EXCEPT ![x] = new]
        /\ new.at = (IF wrote THEN "committed" ELSE "done")
        /\ new.wrote = wrote /\ new.reload = "none"
  BY ToggleFacts
<1>2. /\ Arrives(x) /\ UNCHANGED <<nextId, rules, boot, seeded, torn, audit, crashes>>
  BY DEF Toggle
<1>3. nextId \in Nat /\ nextId' = nextId /\ nextId <= nextId'
  BY <1>2 DEF IInv, TypeOK
<1>4. Sound(rows', nextId')
  BY <1>1, <1>3, ToggleSound
<1> QED
  BY <1>1, <1>2, <1>3, <1>4, FirstStatement

LEMMA UpdateReadOK == ASSUME IInv, NEW x \in Handlers, UpdateRead(x) PROVE IInv'
<1>1. PICK id \in Ids, r \in AllRules :
         h' = [h EXCEPT ![x] =
                 [Waiting EXCEPT !.at = IF {y \in rows : y.id = id} = {} THEN "done" ELSE "loaded",
                                 !.kind = "update", !.id = id, !.rule = r,
                                 !.enabled = \E y \in {y \in rows : y.id = id} : y.enabled]]
  BY DEF UpdateRead
<1>2. Arrives(x) /\ UNCHANGED <<rows, nextId, rules, boot, seeded, torn, audit, crashes>>
  BY DEF UpdateRead
<1>3. nextId \in Nat /\ id \in Nat /\ id \in 0..(nextId - 1)
  BY DEF IInv, TypeOK, Ids
<1> DEFINE old == {y \in rows : y.id = id}
           pl == IF old = {} THEN "done" ELSE "loaded"
           on == \E y \in old : y.enabled
           new == [Waiting EXCEPT !.at = pl, !.kind = "update", !.id = id, !.rule = r,
                                  !.enabled = on]
<1>4. h' = [h EXCEPT ![x] = new]
  BY <1>1
<1>5. pl \in {"done", "loaded"} /\ on \in BOOLEAN
  OBVIOUS
<1>6. \A y \in rows : y.id = id => y.enabled = on
  <2> SUFFICES ASSUME NEW y \in rows, y.id = id PROVE y.enabled = on
    OBVIOUS
  <2>1. old = {y}
    BY RowsSound DEF Sound
  <2>2. y.enabled \in BOOLEAN
    BY DEF IInv, TypeOK
  <2> QED
    BY <2>1, <2>2, Zenon
<1>7. Waiting \in Handler /\ Waiting.reload = "none" /\ Waiting.wrote = FALSE
  BY WaitingType
<1> HIDE DEF pl, on, old
<1>8. /\ new \in Handler /\ new.at = pl /\ new.id = id /\ new.enabled = on
      /\ new.wrote = FALSE /\ new.reload = "none"
  BY <1>3, <1>5, <1>7 DEF Handler
<1> HIDE DEF new
<1>9. /\ boot = "up" /\ h[x].at = "idle" /\ overlap' \in BOOLEAN
      /\ ~overlap' => ~overlap /\ \A y \in Handlers \ {x} : ~Busy(y)
      /\ ~h[x].wrote /\ x \notin audit
  BY <1>2, ArrivesAlone
<1>10. rules' \in Seq(AllRules) /\ audit' \subseteq Handlers /\ Sound(rows', nextId')
       /\ nextId <= nextId'
  BY <1>2, <1>3, RowsSound DEF IInv, TypeOK
<1>11. Phase(new, nextId')
  BY <1>2, <1>3, <1>5, <1>8 DEF Phase
<1>12. Audited(x, new, audit')
  BY <1>2, <1>8, <1>9 DEF Audited
<1>13. FreshFor(new, rows')
  BY <1>2, <1>5, <1>6, <1>8 DEF FreshFor
<1>14. ASSUME ~overlap', EditedAndReloaded' PROVE rules' = EnabledByName(rows')
  <2>1. EditedAndReloaded
    BY <1>4, <1>8, <1>9, <1>14, EditsStand
  <2> QED
    BY <1>2, <1>9, <1>14, <2>1 DEF IInv, Current
<1> QED
  BY <1>2, <1>4, <1>8, <1>9, <1>10, <1>11, <1>12, <1>13, <1>14, HandlerKeeps

LEMMA UpdateWriteOK == ASSUME IInv, NEW x \in Handlers, UpdateWrite(x) PROVE IInv'
<1> DEFINE o == h[x]
           ok == NameFree(o.id, o.rule)
           pl == IF ok THEN "committed" ELSE "done"
           out == IF ok THEN RulesIn({y \in rows : y.id = o.id}) ELSE {}
           new == [o EXCEPT !.at = pl, !.wrote = ok, !.old = out]
<1>1. /\ o.at = "loaded" /\ UNCHANGED <<nextId, rules, boot, seeded, torn, audit, crashes, overlap>>
      /\ rows' = IF ok THEN Upserted(o.id, o.rule, o.enabled) ELSE rows
      /\ h' = [h EXCEPT ![x].at = pl, ![x].wrote = ok, ![x].old = out]
  BY DEF UpdateWrite
<1>2. o \in Handler /\ h' = [h EXCEPT ![x] = new]
  BY <1>1 DEF IInv, TypeOK
<1>3. ok \in BOOLEAN
  BY DEF NameFree
<1>4. pl \in {"committed", "done"} /\ (pl = "committed" => ok) /\ (ok => pl = "committed")
  OBVIOUS
<1>5. nextId \in Nat /\ o.id \in 0..(nextId - 1) /\ ~o.wrote /\ o.reload = "none"
      /\ x \notin audit
  BY <1>1 DEF IInv, TypeOK, Phases, Phase, AuditSound, Audited
<1>6. o.rule \in AllRules /\ o.enabled \in BOOLEAN
  BY <1>2 DEF Handler
<1>7. Sound(rows', nextId')
  <2>0. nextId' = nextId /\ nextId <= nextId
    BY <1>1, <1>5
  <2>1. CASE ok
    <3>1. Sound(Upserted(o.id, o.rule, o.enabled), nextId)
      <4> HIDE DEF o
      <4> QED
        BY <2>0, <2>1, <1>5, <1>6, UpsertSound
    <3> QED
      BY <2>0, <2>1, <3>1, <1>1
  <2>2. CASE ~ok
    BY <2>0, <2>2, <1>1, RowsSound
  <2> QED
    BY <2>1, <2>2
<1>8. Busy(x)
  BY <1>1 DEF Busy
<1>a. out \in SUBSET AllRules
  BY RulesOfRows
<1> HIDE DEF o, ok, pl, out
<1>9. new \in Handler /\ new.at = pl /\ new.wrote = ok /\ new.reload = "none"
  BY <1>a, <1>2, <1>3, <1>4, <1>5 DEF Handler
<1> HIDE DEF new
<1>10. /\ boot = "up" /\ overlap' \in BOOLEAN
       /\ ~overlap' => ~overlap /\ \A y \in Handlers \ {x} : ~Busy(y)
  BY <1>1, <1>8, ServedAlone
<1>11. rules' \in Seq(AllRules) /\ audit' \subseteq Handlers /\ nextId <= nextId'
  BY <1>1, <1>5 DEF IInv, TypeOK
<1>12. Phase(new, nextId')
  BY <1>4, <1>9 DEF Phase
<1>13. Audited(x, new, audit')
  BY <1>1, <1>4, <1>5, <1>9 DEF Audited
<1>14. FreshFor(new, rows')
  BY <1>4, <1>9 DEF FreshFor
<1>15. ASSUME ~overlap', EditedAndReloaded' PROVE rules' = EnabledByName(rows')
  <2>1. ~ok
    BY <1>2, <1>4, <1>9, <1>15, EditPending
  <2>2. EditedAndReloaded
    BY <1>2, <1>5, <1>9, <1>15, <2>1, EditsStand DEF o
  <2>3. rows' = rows /\ rules' = rules
    BY <1>1, <2>1
  <2> QED
    BY <1>10, <1>15, <2>2, <2>3 DEF IInv, Current
<1> QED
  BY <1>1, <1>2, <1>7, <1>9, <1>10, <1>11, <1>12, <1>13, <1>14, <1>15, HandlerKeeps

\* A step of a handler that has committed, on an unchanged table.
LEMMA ReloadKeeps ==
  ASSUME IInv, NEW x \in Handlers, NEW new \in Handler, h' = [h EXCEPT ![x] = new],
         h[x].at \in {"committed", "read", "reloaded"},
         new.at \in {"read", "reloaded", "done"}, new.wrote,
         new.at = "read" => new.reload = "none" /\ new.snap = EnabledByName(rows),
         rules' \in Seq(AllRules), audit' \subseteq Handlers,
         \A y \in Handlers \ {x} : y \in audit' <=> y \in audit,
         new.at = "done" /\ ~new.gone => x \in audit',
         ~overlap /\ EditedAndReloaded' => rules' = EnabledByName(rows),
         UNCHANGED <<rows, nextId, boot, seeded, torn, crashes, overlap>>
  PROVE  IInv'
<1>1. Busy(x)
  BY DEF Busy
<1>2. /\ boot = "up" /\ overlap' \in BOOLEAN
      /\ ~overlap' => ~overlap /\ \A y \in Handlers \ {x} : ~Busy(y)
  BY <1>1, ServedAlone
<1>3. Sound(rows', nextId') /\ nextId <= nextId'
  BY RowsSound DEF IInv, TypeOK
<1>4. Phase(new, nextId')
  BY DEF Phase
<1>5. Audited(x, new, audit')
  BY DEF Audited
<1>6. FreshFor(new, rows')
  BY DEF FreshFor
<1>7. ~overlap' /\ EditedAndReloaded' => rules' = EnabledByName(rows')
  OBVIOUS
<1> QED
  BY <1>2, <1>3, <1>4, <1>5, <1>6, <1>7, HandlerKeeps

LEMMA ReloadReadOK == ASSUME IInv, NEW x \in Handlers, ReloadRead(x) PROVE IInv'
<1> DEFINE o == h[x]
           list == EnabledByName(rows)
           new == [o EXCEPT !.at = "read", !.snap = list]
<1>1. /\ o.at = "committed" /\ h' = [h EXCEPT ![x].at = "read", ![x].snap = list]
      /\ UNCHANGED <<rows, nextId, rules, boot, seeded, torn, audit, crashes, overlap>>
  BY DEF ReloadRead
<1>2. o \in Handler /\ h' = [h EXCEPT ![x] = new]
  BY <1>1 DEF IInv, TypeOK
<1>3. list \in Seq(AllRules)
  BY RowsTable, EnabledByNameType
<1>4. o.wrote /\ o.reload = "none"
  BY <1>1 DEF IInv, Phases, Phase
<1> HIDE DEF o, list
<1>5. /\ new \in Handler /\ new.at = "read" /\ new.snap = list /\ new.wrote = o.wrote
      /\ new.reload = "none"
  BY <1>2, <1>3, <1>4 DEF Handler
<1> HIDE DEF new
<1>6. ~EditedAndReloaded'
  BY <1>2, <1>4, <1>5, EditPending
<1>7. rules' \in Seq(AllRules) /\ audit' \subseteq Handlers
  BY <1>1 DEF IInv, TypeOK
<1> QED
  BY <1>1, <1>2, <1>4, <1>5, <1>6, <1>7, ReloadKeeps DEF o, list

LEMMA ReloadFailsOK == ASSUME IInv, NEW x \in Handlers, ReloadFails(x) PROVE IInv'
<1> DEFINE o == h[x]
           new == [o EXCEPT !.at = "reloaded", !.reload = "failed", !.gone = TRUE]
<1>1. /\ o.at = "committed"
      /\ h' = [h EXCEPT ![x].at = "reloaded", ![x].reload = "failed", ![x].gone = TRUE]
      /\ UNCHANGED <<rows, nextId, rules, boot, seeded, torn, audit, crashes, overlap>>
  BY DEF ReloadFails
<1>2. o \in Handler /\ h' = [h EXCEPT ![x] = new]
  BY <1>1 DEF IInv, TypeOK
<1>4. o.wrote
  BY <1>1 DEF IInv, Phases, Phase
<1> HIDE DEF o
<1>5. /\ new \in Handler /\ new.at = "reloaded" /\ new.wrote = o.wrote /\ new.reload = "failed"
  BY <1>2 DEF Handler
<1> HIDE DEF new
<1>6. ~EditedAndReloaded'
  BY <1>2, <1>4, <1>5, EditPending
<1>7. rules' \in Seq(AllRules) /\ audit' \subseteq Handlers
  BY <1>1 DEF IInv, TypeOK
<1> QED
  BY <1>1, <1>2, <1>4, <1>5, <1>6, <1>7, ReloadKeeps DEF o

LEMMA ReloadAssignOK == ASSUME IInv, NEW x \in Handlers, ReloadAssign(x) PROVE IInv'
<1> DEFINE o == h[x]
           new == [o EXCEPT !.at = "reloaded", !.reload = "ok", !.snap = <<>>]
<1>1. /\ o.at = "read" /\ rules' = o.snap
      /\ h' = [h EXCEPT ![x].at = "reloaded", ![x].reload = "ok", ![x].snap = <<>>]
      /\ UNCHANGED <<rows, nextId, boot, seeded, torn, audit, crashes, overlap>>
  BY DEF ReloadAssign
<1>2. o \in Handler /\ h' = [h EXCEPT ![x] = new]
  BY <1>1 DEF IInv, TypeOK
<1>3. ~overlap => o.snap = EnabledByName(rows)
  BY <1>1 DEF IInv, Fresh, FreshFor
<1>4. o.wrote
  BY <1>1 DEF IInv, Phases, Phase
<1>a. o.snap \in Seq(AllRules) /\ <<>> \in Seq(AllRules)
  BY <1>2 DEF Handler
<1> HIDE DEF o
<1>5. /\ new \in Handler /\ new.at = "reloaded" /\ new.wrote = o.wrote
  BY <1>2, <1>a DEF Handler
<1> HIDE DEF new
<1>7. rules' \in Seq(AllRules) /\ audit' \subseteq Handlers
  BY <1>1, <1>a DEF IInv, TypeOK
<1> QED
  BY <1>1, <1>2, <1>3, <1>4, <1>5, <1>7, ReloadKeeps DEF o

LEMMA WriteAuditOK == ASSUME IInv, NEW x \in Handlers, WriteAudit(x) PROVE IInv'
<1> PICK gone \in {h[x].gone, TRUE} :
         /\ audit' = IF gone THEN audit ELSE audit \cup {x}
         /\ h' = [h EXCEPT ![x].at = "done", ![x].gone = gone]
  BY DEF WriteAudit
<1> DEFINE o == h[x]
           new == [o EXCEPT !.at = "done", !.gone = gone]
<1>1. /\ o.at = "reloaded"
      /\ UNCHANGED <<rows, nextId, rules, boot, seeded, torn, crashes, overlap>>
  BY DEF WriteAudit
<1>2. o \in Handler /\ h' = [h EXCEPT ![x] = new]
  BY DEF IInv, TypeOK
<1>3. gone \in BOOLEAN
  BY <1>2 DEF Handler
<1>4. o.wrote
  BY <1>1 DEF IInv, Phases, Phase
<1> HIDE DEF o
<1>5. /\ new \in Handler /\ new.at = "done" /\ new.wrote = o.wrote /\ new.gone = gone
      /\ new.reload = o.reload
  BY <1>2, <1>3 DEF Handler
<1> HIDE DEF new
<1>6. ~overlap /\ EditedAndReloaded' => rules' = EnabledByName(rows)
  <2> SUFFICES ASSUME ~overlap, EditedAndReloaded' PROVE rules' = EnabledByName(rows)
    OBVIOUS
  <2>1. EditedAndReloaded
    BY <1>1, <1>2, <1>4, <1>5, EditsStand DEF o
  <2> QED
    BY <1>1, <2>1 DEF IInv, Current
<1>7. /\ rules' \in Seq(AllRules) /\ audit' \subseteq Handlers
      /\ \A y \in Handlers \ {x} : y \in audit' <=> y \in audit
      /\ ~gone => x \in audit'
  BY <1>1, <1>3 DEF IInv, TypeOK
<1> QED
  BY <1>1, <1>2, <1>4, <1>5, <1>6, <1>7, ReloadKeeps DEF o

-----------------------------------------------------------------------------
(* Start and stop                                                          *)

\* When every request is waiting or dead, whatever the server does to the table.
LEMMA ServerKeeps ==
  ASSUME IInv, h' \in [Handlers -> Handler], UNCHANGED audit,
         \A x \in Handlers : /\ h'[x].at \in {"idle", "dead"}
                             /\ h'[x].wrote = h[x].wrote
                             /\ h'[x].at = "idle" => ~h'[x].wrote,
         boot' \in {"down", "seeding", "up"}, seeded' \in 0..Len(DefaultRules),
         crashes' \in 0..MaxCrashes, overlap' \in BOOLEAN, torn' \in BOOLEAN,
         Sound(rows', nextId'), rules' \in Seq(AllRules)
  PROVE  IInv'
<1>1. TypeOK' /\ IsFiniteSet(rows')
  BY DEF IInv, TypeOK, Sound, Ids
<1>2. Phases'
  BY DEF Phases, Phase
<1>3. Unserved' /\ Alone'
  BY DEF Unserved, Alone, Busy
<1>4. Fresh'
  BY DEF Fresh, FreshFor
<1>5. Current'
  <2>1. ~EditedAndReloaded'
    BY DEF EditedAndReloaded, EditsOfThisBoot
  <2> QED
    BY <2>1 DEF Current
<1>6. AuditSound'
  BY DEF IInv, AuditSound, Audited
<1> QED
  BY <1>1, <1>2, <1>3, <1>4, <1>5, <1>6 DEF IInv

LEMMA StartOK == ASSUME IInv, Start \/ SeedOne \/ SeedDone PROVE IInv'
<1>1. boot # "up" /\ UNCHANGED <<h, audit, crashes>>
  BY DEF Start, SeedOne, SeedDone
<1>2. /\ h' \in [Handlers -> Handler] /\ crashes' \in 0..MaxCrashes
      /\ \A x \in Handlers : /\ h'[x].at \in {"idle", "dead"}
                             /\ h'[x].wrote = h[x].wrote
                             /\ h'[x].at = "idle" => ~h'[x].wrote
  BY <1>1 DEF IInv, TypeOK, Unserved, Phases, Phase
<1>3. /\ Len(DefaultRules) \in Nat /\ DefaultRules \in Seq(AllRules)
      /\ \A i \in 1..Len(DefaultRules) : DefaultRules[i] \in AllRules
  BY DefaultFacts
<1>4. seeded \in 0..Len(DefaultRules) /\ nextId \in Nat /\ rules \in Seq(AllRules)
  BY DEF IInv, TypeOK
<1>8. torn' \in BOOLEAN
  <2>1. torn' = FALSE \/ torn' = torn
    BY DEF Start, SeedOne, SeedDone
  <2> QED
    BY <2>1 DEF IInv, TypeOK
<1>5. CASE Start
  <2>1. /\ boot' \in {"seeding", "up"} /\ rules' \in Seq(AllRules)
        /\ seeded' \in 0..Len(DefaultRules) /\ UNCHANGED <<rows, nextId>>
    BY <1>3, <1>4, <1>5 DEF Start
  <2>2. overlap' \in BOOLEAN
    BY <1>5 DEF Start
  <2>3. Sound(rows', nextId')
    BY <2>1, RowsSound
  <2> QED
    BY <1>1, <1>2, <1>8, <2>1, <2>2, <2>3, ServerKeeps
<1>6. CASE SeedOne
  <2> DEFINE r == DefaultRules[seeded + 1]
  <2>1. r \in AllRules /\ seeded + 1 \in 0..Len(DefaultRules)
    BY <1>3, <1>4, <1>6 DEF SeedOne
  <2>2. rules' = rules /\ overlap' = overlap
    BY <1>6 DEF SeedOne
  <2>3. overlap' \in BOOLEAN
    BY <2>2 DEF IInv, TypeOK
  <2>4. CASE NameFree(nextId, r)
    <3>1. /\ rows' = Upserted(nextId, r, TRUE) /\ nextId' = nextId + 1
          /\ seeded' = seeded + 1 /\ boot' = "seeding"
      BY <1>6, <2>4 DEF SeedOne
    <3>2. nextId + 1 \in Nat /\ nextId \in 0..((nextId + 1) - 1) /\ nextId <= nextId + 1
      BY <1>4
    <3> HIDE DEF r
    <3>3. Sound(Upserted(nextId, r, TRUE), nextId + 1)
      BY <2>1, <2>4, <3>2, UpsertSound
    <3> QED
      BY <1>1, <1>2, <1>4, <1>8, <2>1, <2>2, <2>3, <3>1, <3>3, ServerKeeps
  <2>5. CASE ~NameFree(nextId, r)
    <3>1. boot' = "down" /\ UNCHANGED <<rows, nextId, seeded>>
      BY <1>6, <2>5 DEF SeedOne
    <3>2. Sound(rows', nextId')
      BY <3>1, RowsSound
    <3> QED
      BY <1>1, <1>2, <1>4, <1>8, <2>2, <2>3, <3>1, <3>2, ServerKeeps
  <2> QED
    BY <2>4, <2>5
<1>7. CASE SeedDone
  <2>1. /\ boot' = "up" /\ rules' = DefaultRules /\ UNCHANGED <<rows, nextId, seeded, overlap>>
    BY <1>7 DEF SeedDone
  <2>2. overlap' \in BOOLEAN
    BY <2>1 DEF IInv, TypeOK
  <2>3. Sound(rows', nextId')
    BY <2>1, RowsSound
  <2> QED
    BY <1>1, <1>2, <1>3, <1>4, <1>8, <2>1, <2>2, <2>3, ServerKeeps
<1> QED
  BY <1>5, <1>6, <1>7

LEMMA CrashOK == ASSUME IInv, Crash PROVE IInv'
<1>1. /\ crashes < MaxCrashes /\ crashes' = crashes + 1 /\ boot' = "down" /\ rules' = <<>>
      /\ UNCHANGED <<rows, nextId, seeded, audit, overlap>>
  BY DEF Crash
<1>2. h' = [x \in Handlers |->
              IF h[x].at = "idle" THEN h[x] ELSE [h[x] EXCEPT !.at = "dead", !.snap = <<>>]]
  BY DEF Crash
<1>3. ASSUME NEW x \in Handlers
      PROVE  /\ h'[x] \in Handler /\ h'[x].at \in {"idle", "dead"}
             /\ h'[x].wrote = h[x].wrote
             /\ h'[x].at = "idle" => ~h'[x].wrote
  <2> DEFINE o == h[x]
             new == [o EXCEPT !.at = "dead", !.snap = <<>>]
  <2>1. o \in Handler /\ <<>> \in Seq(AllRules) /\ (o.at = "idle" => ~o.wrote)
    BY DEF IInv, TypeOK, Phases, Phase
  <2>2. h'[x] = IF o.at = "idle" THEN o ELSE new
    BY <1>2
  <2> HIDE DEF o
  <2>3. new \in Handler /\ new.at = "dead" /\ new.wrote = o.wrote
    BY <2>1 DEF Handler
  <2> HIDE DEF new
  <2> QED
    BY <2>1, <2>2, <2>3 DEF o
<1>4. h' \in [Handlers -> Handler]
  <2>1. DOMAIN h' = Handlers /\ \A x \in Handlers : h'[x] \in Handler
    BY <1>2, <1>3
  <2>2. h' = [x \in Handlers |-> h'[x]]
    BY <1>2
  <2> QED
    BY <2>1, <2>2
<1>5. crashes' \in 0..MaxCrashes /\ rules' \in Seq(AllRules)
      /\ seeded' \in 0..Len(DefaultRules)
  BY <1>1, PolicyConstants DEF IInv, TypeOK
<1>6. overlap' \in BOOLEAN /\ torn' \in BOOLEAN
  <2>1. torn' = (torn \/ boot = "seeding")
    BY DEF Crash
  <2>2. torn' \in BOOLEAN
    BY <2>1
  <2>3. overlap' \in BOOLEAN
    BY <1>1 DEF IInv, TypeOK
  <2> QED
    BY <2>2, <2>3
<1>7. Sound(rows', nextId')
  BY <1>1, RowsSound
<1> QED
  BY <1>1, <1>3, <1>4, <1>5, <1>6, <1>7, ServerKeeps

LEMMA StutterOK == ASSUME IInv, UNCHANGED vars PROVE IInv'
<1>1. UNCHANGED <<rows, nextId, rules, boot, seeded, torn, h, audit, crashes, overlap>>
  BY DEF vars
<1>2. TypeOK' /\ IsFiniteSet(rows)'
  BY <1>1 DEF IInv, TypeOK, Ids
<1>3. Phases' /\ Unserved' /\ AuditSound'
  BY <1>1 DEF IInv, Phases, Phase, Unserved, AuditSound, Audited
<1>4. Alone' /\ Fresh'
  BY <1>1 DEF IInv, Alone, Busy, Fresh, FreshFor
<1>5. Current'
  BY <1>1 DEF IInv, Current, EditedAndReloaded, EditsOfThisBoot
<1> QED
  BY <1>2, <1>3, <1>4, <1>5 DEF IInv

-----------------------------------------------------------------------------
(* The theorems                                                            *)

LEMMA InitOK == Init => IInv
<1> SUFFICES ASSUME Init PROVE IInv
  OBVIOUS
<1>1. /\ rows = {} /\ nextId = 0 /\ rules = <<>> /\ boot = "down" /\ seeded = 0
      /\ h = [x \in Handlers |-> Waiting] /\ audit = {} /\ crashes = 0
  BY DEF Init
<1>2. overlap \in BOOLEAN /\ torn \in BOOLEAN
  BY Zenon DEF Init
<1>3. \A x \in Handlers : h[x].at = "idle" /\ h[x].wrote = FALSE
  BY <1>1, WaitingType
<1>4. h \in [Handlers -> Handler]
  BY <1>1, WaitingType
<1>5. rules \in Seq(AllRules) /\ seeded \in 0..Len(DefaultRules) /\ crashes \in 0..MaxCrashes
  BY <1>1, DefaultFacts, PolicyConstants
<1>6. TypeOK /\ IsFiniteSet(rows)
  BY <1>1, <1>2, <1>4, <1>5, FS_EmptySet DEF TypeOK
<1>7. Phases /\ Unserved
  BY <1>3 DEF Phases, Phase, Unserved
<1>8. Alone /\ Fresh
  BY <1>3 DEF Alone, Busy, Fresh, FreshFor
<1>9. Current
  BY <1>3 DEF Current, EditedAndReloaded, EditsOfThisBoot
<1>10. AuditSound
  BY <1>1, <1>3 DEF AuditSound, Audited
<1> QED
  BY <1>6, <1>7, <1>8, <1>9, <1>10 DEF IInv

LEMMA StepOK == IInv /\ [Next]_vars => IInv'
<1> SUFFICES ASSUME IInv, [Next]_vars PROVE IInv'
  OBVIOUS
<1>1. CASE Start \/ SeedOne \/ SeedDone
  BY <1>1, StartOK
<1>2. CASE Crash
  BY <1>2, CrashOK
<1>3. ASSUME NEW x \in Handlers, HandlerStep(x) PROVE IInv'
  BY <1>3, CreateOK, UpdateReadOK, UpdateWriteOK, DeleteOK, ToggleOK, ReloadReadOK,
     ReloadFailsOK, ReloadAssignOK, WriteAuditOK DEF HandlerStep
<1>4. CASE Served \/ UNCHANGED vars
  BY <1>4, StutterOK DEF Served
<1> QED
  BY <1>1, <1>2, <1>3, <1>4 DEF Next

\* The inductive invariant of the policy table: its rows, what each handler has
\* read and written, and what ReloadPolicies has assigned to the engine.
THEOREM PolicyInvariant == Spec => []IInv
  BY InitOK, StepOK, PTL DEF Spec

\* updates, deletes, toggles and restarts: the table stays well typed with
\* unique ids and names, and audit_log records committed edits only and misses
\* one only when its client went away or the server stopped.
THEOREM AuditMatchesTableTheorem == Spec => []AuditMatchesTable
<1>1. IInv => AuditMatchesTable
  BY DEF IInv, AuditSound, Audited, AuditMatchesTable
<1> QED
  BY PolicyInvariant, <1>1, PTL

\* Once edits served one after the other are answered and reloaded, the engine
\* decides every operation as the table says, for any table and any rules.
THEOREM SerialEditsGovernTheorem == Spec => []SerialEditsGovern
<1>1. IInv => SerialEditsGovern
  <2> SUFFICES ASSUME IInv, ~overlap, EditedAndReloaded, NEW op \in Ops
               PROVE  Governs(rows, op, Evaluate(rules, op))
    BY DEF SerialEditsGovern
  <2>1. rules = EnabledByName(rows)
    BY DEF IInv, Current
  <2>2. Governs(rows, op, Evaluate(EnabledByName(rows), op))
    BY RowsTable, ListGoverns
  <2> QED
    BY <2>1, <2>2
<1> QED
  BY PolicyInvariant, <1>1, PTL

-----------------------------------------------------------------------------
(* Seeding and what the table keeps                                        *)

\* A handler takes a rule out with the statement that commits its edit.
NoneTaken == \A x \in Handlers : h[x].at \in {"idle", "loaded"} => h[x].old = {}

Seeding == boot = "seeding" => RulesIn(rows) = Defaults(seeded) /\ \A y \in rows : y.enabled

\* A table that is not empty has been seeded in full, or its seeding was torn.
SeededOrTorn == /\ boot = "up" => seeded = Len(DefaultRules) \/ torn
                /\ boot = "down" => rows = {} \/ seeded = Len(DefaultRules) \/ torn

Kept == Entered \subseteq RulesIn(rows) \cup Taken

KInv == NoneTaken /\ Seeding /\ SeededOrTorn /\ Kept

LEMMA DefaultNames ==
  \A i, j \in 1..Len(DefaultRules) : DefaultRules[i].name = DefaultRules[j].name => i = j
<1>1. Len(DefaultRules) = 4
  BY DEF DefaultRules
<1>2. /\ DefaultRules[1].name = "deny-delete-system-ns"
      /\ DefaultRules[2].name = "deny-dangerous-kinds"
      /\ DefaultRules[3].name = "deny-privileged"
      /\ DefaultRules[4].name = "confirm-production"
  BY DEF DefaultRules, Rule
<1> QED
  BY <1>1, <1>2

\* What is in the table and has been taken out only grows, but for the rules
\* that are taken out; the writers of a step have their rule in the table.
LEMMA EnteredKept ==
  ASSUME Kept, Defaults(seeded)' \subseteq Defaults(seeded) \cup RulesIn(rows)',
         RulesIn(rows) \subseteq RulesIn(rows)' \cup Taken', Taken \subseteq Taken',
         \A k \in Handlers : k \in Writers' =>
            (k \in Writers /\ h'[k].rule = h[k].rule) \/ h'[k].rule \in RulesIn(rows)'
  PROVE  Kept'
<1> SUFFICES ASSUME NEW r \in Entered' PROVE r \in RulesIn(rows)' \cup Taken'
  BY DEF Kept
<1>1. CASE r \in Defaults(seeded)'
  BY <1>1 DEF Kept, Entered
<1>2. CASE r \in {h'[k].rule : k \in Writers'}
  <2>1. PICK k \in Writers' : r = h'[k].rule
    BY <1>2
  <2>2. k \in Handlers
    BY <2>1 DEF Writers
  <2>3. CASE k \in Writers /\ h'[k].rule = h[k].rule
    BY <2>1, <2>3 DEF Kept, Entered
  <2>4. CASE h'[k].rule \in RulesIn(rows)'
    BY <2>1, <2>4
  <2> QED
    BY <2>2, <2>3, <2>4
<1> QED
  BY <1>1, <1>2 DEF Entered

\* No edit in the step: nothing enters and nothing is taken out.
LEMMA EditsUntouched ==
  ASSUME \A k \in Handlers : /\ h'[k].wrote = h[k].wrote /\ h'[k].kind = h[k].kind
                             /\ h'[k].rule = h[k].rule /\ h'[k].old = h[k].old
  PROVE  /\ Taken' = Taken
         /\ \A k \in Handlers : k \in Writers' => k \in Writers /\ h'[k].rule = h[k].rule
<1>1. Taken' = Taken
  BY DEF Taken
<1>2. \A k \in Handlers : k \in Writers' => k \in Writers /\ h'[k].rule = h[k].rule
  BY DEF Writers
<1> QED
  BY <1>1, <1>2

\* The step of a handler on a running server.
LEMMA HandlerKept ==
  ASSUME KInv, NEW x \in Handlers, NEW new, h \in [Handlers -> Handler],
         h' = [h EXCEPT ![x] = new], boot = "up", UNCHANGED <<boot, seeded, torn>>,
         h[x].old \subseteq new.old, new.at \in {"idle", "loaded"} => new.old = {},
         RulesIn(rows) \subseteq RulesIn(rows)' \cup new.old,
         new.wrote /\ new.kind \in {"create", "update"} =>
            \/ h[x].wrote /\ new.kind = h[x].kind /\ new.rule = h[x].rule
            \/ new.rule \in RulesIn(rows)'
  PROVE  KInv'
<1>1. h'[x] = new /\ \A y \in Handlers : y # x => h'[y] = h[y]
  OBVIOUS
<1>2. NoneTaken'
  BY <1>1 DEF KInv, NoneTaken
<1>3. Seeding' /\ SeededOrTorn'
  BY DEF KInv, Seeding, SeededOrTorn
<1>4. Taken \subseteq Taken' /\ new.old \subseteq Taken'
  BY <1>1 DEF Taken
<1>5. \A k \in Handlers : k \in Writers' =>
         (k \in Writers /\ h'[k].rule = h[k].rule) \/ h'[k].rule \in RulesIn(rows)'
  BY <1>1 DEF Writers
<1>6. Defaults(seeded)' = Defaults(seeded)
  BY DEF Defaults
<1>7. Kept'
  BY <1>4, <1>5, <1>6, EnteredKept DEF KInv
<1> QED
  BY <1>2, <1>3, <1>7 DEF KInv

\* The rows an upsert leaves and the one it puts in.
LEMMA UpsertRules ==
  ASSUME NEW id, NEW r, NEW on
  PROVE  /\ r \in RulesIn(Upserted(id, r, on))
         /\ RulesIn(rows) \subseteq
              RulesIn(Upserted(id, r, on)) \cup RulesIn({y \in rows : y.id = id})
<1> DEFINE row == [id |-> id, rule |-> r, enabled |-> on]
<1>1. row \in Upserted(id, r, on) /\ row.rule = r
  BY DEF Upserted
<1>2. \A y \in rows : y \in Upserted(id, r, on) \/ y.id = id
  BY DEF Upserted
<1> HIDE DEF row
<1> QED
  BY <1>1, <1>2 DEF RulesIn

\* A new row takes out nothing.
LEMMA InsertRules ==
  ASSUME IInv, NEW r, NEW on
  PROVE  RulesIn(Upserted(nextId, r, on)) = RulesIn(rows) \cup {r}
<1> DEFINE row == [id |-> nextId, rule |-> r, enabled |-> on]
<1>1. nextId \in Nat /\ \A y \in rows : y.id \in 0..(nextId - 1)
  BY DEF IInv, TypeOK, Ids
<1>2. \A y \in rows : y.id # nextId
  BY <1>1
<1>3. Upserted(nextId, r, on) = rows \cup {row} /\ row.rule = r
  BY <1>2 DEF Upserted
<1> HIDE DEF row
<1> QED
  BY <1>3 DEF RulesIn

LEMMA CreateKept == ASSUME IInv, KInv, NEW x \in Handlers, Create(x) PROVE KInv'
<1>1. PICK r \in UserRules :
        /\ Answer(x, "create", nextId, r, {}, NameFree(nextId, r))
        /\ rows' = IF NameFree(nextId, r) THEN Upserted(nextId, r, TRUE) ELSE rows
  BY DEF Create
<1>2. Arrives(x) /\ UNCHANGED <<boot, seeded, torn>>
  BY DEF Create
<1> DEFINE wrote == NameFree(nextId, r)
<1>3. nextId \in Nat /\ r \in AllRules /\ {} \in SUBSET AllRules /\ wrote \in BOOLEAN
  BY DEF IInv, TypeOK, AllRules, NameFree
<1>4. \/ wrote /\ RulesIn(rows)' = RulesIn(rows) \cup {r}
      \/ ~wrote /\ RulesIn(rows)' = RulesIn(rows)
  <2>1. CASE wrote
    <3>1. rows' = Upserted(nextId, r, TRUE)
      BY <1>1, <2>1
    <3> QED
      BY <2>1, <3>1, InsertRules
  <2>2. CASE ~wrote
    BY <1>1, <2>2
  <2> QED
    BY <2>1, <2>2
<1>5. Answer(x, "create", nextId, r, {}, wrote)
  BY <1>1
<1> HIDE DEF wrote
<1>6. PICK new \in Handler :
        /\ h' = [h EXCEPT ![x] = new]
        /\ new.at = (IF wrote THEN "committed" ELSE "done")
        /\ new.wrote = wrote /\ new.rule = r /\ new.old = {}
  BY <1>3, <1>5, AnswerFacts
<1>7. boot = "up" /\ h[x].at = "idle" /\ h \in [Handlers -> Handler]
  BY <1>2 DEF Arrives, IInv, TypeOK
<1>8. h[x].old = {}
  BY <1>7 DEF KInv, NoneTaken
<1> QED
  BY <1>2, <1>4, <1>6, <1>7, <1>8, HandlerKept

LEMMA DeleteKept == ASSUME IInv, KInv, NEW x \in Handlers, Delete(x) PROVE KInv'
<1>1. PICK id \in Ids :
        /\ Answer(x, "delete", id, DefaultRules[1], RulesIn({y \in rows : y.id = id}),
                  {y \in rows : y.id = id} # {})
        /\ rows' = rows \ {y \in rows : y.id = id}
  BY DEF Delete
<1>2. Arrives(x) /\ UNCHANGED <<boot, seeded, torn>>
  BY DEF Delete
<1> DEFINE wrote == {y \in rows : y.id = id} # {}
           out == RulesIn({y \in rows : y.id = id})
<1>3. id \in Nat /\ DefaultRules[1] \in AllRules /\ out \in SUBSET AllRules /\ wrote \in BOOLEAN
  BY DefaultFacts, RulesOfRows DEF IInv, TypeOK, Ids
<1>4. RulesIn(rows) \subseteq RulesIn(rows)' \cup out
  BY <1>1 DEF RulesIn
<1>5. Answer(x, "delete", id, DefaultRules[1], out, wrote)
  BY <1>1
<1> HIDE DEF wrote, out
<1>6. PICK new \in Handler :
        /\ h' = [h EXCEPT ![x] = new]
        /\ new.at = (IF wrote THEN "committed" ELSE "done")
        /\ new.kind = "delete" /\ new.old = out
  BY <1>3, <1>5, AnswerFacts
<1>7. boot = "up" /\ h[x].at = "idle" /\ h \in [Handlers -> Handler]
  BY <1>2 DEF Arrives, IInv, TypeOK
<1>8. h[x].old = {}
  BY <1>7 DEF KInv, NoneTaken
<1> QED
  BY <1>2, <1>4, <1>6, <1>7, <1>8, HandlerKept

LEMMA ToggleKept == ASSUME IInv, KInv, NEW x \in Handlers, Toggle(x) PROVE KInv'
<1>1. PICK id \in Ids, on \in BOOLEAN, new \in Handler, wrote \in BOOLEAN :
        /\ rows' = (rows \ {y \in rows : y.id = id})
                   \cup {[y EXCEPT !.enabled = on] : y \in {y \in rows : y.id = id}}
        /\ h' = [h EXCEPT ![x] = new]
        /\ new.at = (IF wrote THEN "committed" ELSE "done")
        /\ new.kind = "toggle" /\ new.old = {}
  BY ToggleFacts
<1>2. Arrives(x) /\ UNCHANGED <<boot, seeded, torn>>
  BY DEF Toggle
<1>3. RulesIn(rows) \subseteq RulesIn(rows)'
  <2> SUFFICES ASSUME NEW y \in rows PROVE y.rule \in RulesIn(rows)'
    BY DEF RulesIn
  <2>1. CASE y.id # id
    BY <1>1, <2>1 DEF RulesIn
  <2>2. CASE y.id = id
    <3> DEFINE z == [y EXCEPT !.enabled = on]
    <3>1. z \in rows'
      BY <1>1, <2>2
    <3>2. z.rule = y.rule
      BY DEF IInv, TypeOK
    <3> HIDE DEF z
    <3> QED
      BY <3>1, <3>2 DEF RulesIn
  <2> QED
    BY <2>1, <2>2
<1>4. boot = "up" /\ h[x].at = "idle" /\ h \in [Handlers -> Handler]
  BY <1>2 DEF Arrives, IInv, TypeOK
<1>5. h[x].old = {}
  BY <1>4 DEF KInv, NoneTaken
<1> QED
  BY <1>1, <1>2, <1>3, <1>4, <1>5, HandlerKept

LEMMA UpdateReadKept == ASSUME IInv, KInv, NEW x \in Handlers, UpdateRead(x) PROVE KInv'
<1>1. PICK id \in Ids, r \in AllRules :
         h' = [h EXCEPT ![x] =
                 [Waiting EXCEPT !.at = IF {y \in rows : y.id = id} = {} THEN "done" ELSE "loaded",
                                 !.kind = "update", !.id = id, !.rule = r,
                                 !.enabled = \E y \in {y \in rows : y.id = id} : y.enabled]]
  BY DEF UpdateRead
<1>2. Arrives(x) /\ UNCHANGED <<rows, boot, seeded, torn>>
  BY DEF UpdateRead
<1> DEFINE pl == IF {y \in rows : y.id = id} = {} THEN "done" ELSE "loaded"
           on == \E y \in {y \in rows : y.id = id} : y.enabled
           new == [Waiting EXCEPT !.at = pl, !.kind = "update", !.id = id, !.rule = r,
                                  !.enabled = on]
<1>3. h' = [h EXCEPT ![x] = new]
  BY <1>1
<1>4. Waiting \in Handler /\ Waiting.wrote = FALSE /\ Waiting.old = {}
  BY WaitingType
<1> HIDE DEF pl, on
<1>5. new.wrote = FALSE /\ new.old = {}
  BY <1>4 DEF Handler
<1> HIDE DEF new
<1>6. boot = "up" /\ h[x].at = "idle" /\ h \in [Handlers -> Handler]
  BY <1>2 DEF Arrives, IInv, TypeOK
<1>7. h[x].old = {}
  BY <1>6 DEF KInv, NoneTaken
<1> QED
  BY <1>2, <1>3, <1>5, <1>6, <1>7, HandlerKept

LEMMA UpdateWriteKept == ASSUME IInv, KInv, NEW x \in Handlers, UpdateWrite(x) PROVE KInv'
<1> DEFINE o == h[x]
           ok == NameFree(o.id, o.rule)
           pl == IF ok THEN "committed" ELSE "done"
           out == IF ok THEN RulesIn({y \in rows : y.id = o.id}) ELSE {}
           new == [o EXCEPT !.at = pl, !.wrote = ok, !.old = out]
<1>1. /\ o.at = "loaded" /\ UNCHANGED <<boot, seeded, torn>>
      /\ rows' = IF ok THEN Upserted(o.id, o.rule, o.enabled) ELSE rows
      /\ h' = [h EXCEPT ![x].at = pl, ![x].wrote = ok, ![x].old = out]
  BY DEF UpdateWrite
<1>2. o \in Handler /\ h \in [Handlers -> Handler] /\ h' = [h EXCEPT ![x] = new]
  BY <1>1 DEF IInv, TypeOK
<1>3. boot = "up" /\ o.old = {}
  BY <1>1 DEF IInv, Unserved, KInv, NoneTaken
<1>4. \/ ok /\ o.rule \in RulesIn(rows)' /\ RulesIn(rows) \subseteq RulesIn(rows)' \cup out
      \/ ~ok /\ RulesIn(rows)' = RulesIn(rows)
  <2>1. CASE ok
    <3>1. rows' = Upserted(o.id, o.rule, o.enabled) /\ out = RulesIn({y \in rows : y.id = o.id})
      BY <1>1, <2>1
    <3> HIDE DEF o, out
    <3> QED
      BY <2>1, <3>1, UpsertRules
  <2>2. CASE ~ok
    BY <1>1, <2>2
  <2> QED
    BY <2>1, <2>2
<1>5. pl \in {"committed", "done"}
  OBVIOUS
<1> HIDE DEF ok, pl, out
<1> HIDE DEF o
<1>6. new.at = pl /\ new.wrote = ok /\ new.rule = o.rule /\ new.old = out
  BY <1>2 DEF Handler
<1> HIDE DEF new
<1>7. h[x].old \subseteq new.old
  BY <1>3 DEF o
<1> QED
  BY <1>1, <1>2, <1>3, <1>4, <1>5, <1>6, <1>7, HandlerKept

\* A step after the commit: only the handler's place and its reload change.
LEMMA ServedKept ==
  ASSUME IInv, KInv, NEW x \in Handlers,
         ReloadRead(x) \/ ReloadFails(x) \/ ReloadAssign(x) \/ WriteAudit(x)
  PROVE  KInv'
<1>1. UNCHANGED <<rows, boot, seeded, torn>> /\ h \in [Handlers -> Handler]
  BY DEF ReloadRead, ReloadFails, ReloadAssign, WriteAudit, IInv, TypeOK
<1>2. \A k \in Handlers : k # x => h'[k] = h[k]
  BY <1>1 DEF ReloadRead, ReloadFails, ReloadAssign, WriteAudit
<1>3. /\ h'[x].wrote = h[x].wrote /\ h'[x].kind = h[x].kind
      /\ h'[x].rule = h[x].rule /\ h'[x].old = h[x].old
      /\ h'[x].at \in {"read", "reloaded", "done"}
  <2> DEFINE o == h[x]
             list == EnabledByName(rows)
             Same(new) == /\ new.wrote = o.wrote /\ new.kind = o.kind /\ new.rule = o.rule
                          /\ new.old = o.old /\ new.at \in {"read", "reloaded", "done"}
  <2>0. o \in Handler
    BY <1>1
  <2>1. ASSUME ReloadRead(x) PROVE Same(h'[x])
    <3> DEFINE new == [o EXCEPT !.at = "read", !.snap = list]
    <3>1. h'[x] = new
      BY <1>1, <2>1 DEF ReloadRead
    <3> HIDE DEF o, list
    <3>2. Same(new)
      BY <2>0 DEF Handler
    <3> HIDE DEF new
    <3> QED
      BY <3>1, <3>2
  <2>2. ASSUME ReloadFails(x) PROVE Same(h'[x])
    <3> DEFINE new == [o EXCEPT !.at = "reloaded", !.reload = "failed", !.gone = TRUE]
    <3>1. h'[x] = new
      BY <1>1, <2>2 DEF ReloadFails
    <3> HIDE DEF o, list
    <3>2. Same(new)
      BY <2>0 DEF Handler
    <3> HIDE DEF new
    <3> QED
      BY <3>1, <3>2
  <2>3. ASSUME ReloadAssign(x) PROVE Same(h'[x])
    <3> DEFINE new == [o EXCEPT !.at = "reloaded", !.reload = "ok", !.snap = <<>>]
    <3>1. h'[x] = new
      BY <1>1, <2>3 DEF ReloadAssign
    <3> HIDE DEF o, list
    <3>2. Same(new)
      BY <2>0 DEF Handler
    <3> HIDE DEF new
    <3> QED
      BY <3>1, <3>2
  <2>4. ASSUME WriteAudit(x) PROVE Same(h'[x])
    <3>1. PICK gone : h' = [h EXCEPT ![x].at = "done", ![x].gone = gone]
      BY <2>4 DEF WriteAudit
    <3> DEFINE new == [o EXCEPT !.at = "done", !.gone = gone]
    <3>2. h'[x] = new
      BY <1>1, <3>1
    <3> HIDE DEF o
    <3>3. Same(new)
      BY <2>0 DEF Handler
    <3> HIDE DEF new
    <3> QED
      BY <3>2, <3>3
  <2>5. Same(h'[x])
    <3> HIDE DEF Same
    <3> QED
      BY <2>1, <2>2, <2>3, <2>4
  <2> QED
    BY <2>5
<1>4. \A k \in Handlers : /\ h'[k].wrote = h[k].wrote /\ h'[k].kind = h[k].kind
                          /\ h'[k].rule = h[k].rule /\ h'[k].old = h[k].old
  BY <1>2, <1>3
<1>5. Kept'
  BY <1>1, <1>4, EditsUntouched, EnteredKept DEF KInv
<1>6. NoneTaken'
  BY <1>2, <1>3 DEF KInv, NoneTaken
<1> QED
  BY <1>1, <1>5, <1>6 DEF KInv, Seeding, SeededOrTorn

\* Starting, seeding and stopping leave the edits as they are.
LEMMA StartKept == ASSUME IInv, KInv, Start PROVE KInv'
<1>1. h' = h /\ rows' = rows /\ boot = "down"
  BY DEF Start
<1>2. NoneTaken'
  BY <1>1 DEF KInv, NoneTaken
<1>3. CASE rows = {}
  <2>1. boot' = "seeding" /\ seeded' = 0
    BY <1>3 DEF Start
  <2>2. Defaults(0) = {} /\ RulesIn(rows') = {}
    BY <1>1, <1>3 DEF Defaults, RulesIn
  <2>3. Defaults(seeded)' = {}
    BY <2>1, <2>2 DEF Defaults
  <2>4. Seeding' /\ SeededOrTorn'
    BY <1>1, <1>3, <2>1, <2>2, <2>3 DEF Seeding, SeededOrTorn
  <2>5. Kept'
    BY <1>1, <2>3, EditsUntouched, EnteredKept DEF KInv
  <2> QED
    BY <1>2, <2>4, <2>5 DEF KInv
<1>4. CASE rows # {}
  <2>1. boot' = "up" /\ seeded' = seeded /\ torn' = torn
    BY <1>4 DEF Start
  <2>2. Seeding' /\ SeededOrTorn'
    BY <1>1, <1>4, <2>1 DEF KInv, Seeding, SeededOrTorn
  <2>3. Kept'
    BY <1>1, <2>1, EditsUntouched, EnteredKept DEF KInv
  <2> QED
    BY <1>2, <2>2, <2>3 DEF KInv
<1> QED
  BY <1>3, <1>4

LEMMA SeedOneKept == ASSUME IInv, KInv, SeedOne PROVE KInv'
<1> DEFINE r == DefaultRules[seeded + 1]
<1>1. /\ h' = h /\ torn' = torn /\ boot = "seeding" /\ seeded < Len(DefaultRules)
      /\ IF NameFree(nextId, r)
           THEN /\ rows' = Upserted(nextId, r, TRUE)
                /\ nextId' = nextId + 1
                /\ seeded' = seeded + 1
                /\ UNCHANGED boot
           ELSE /\ boot' = "down"
                /\ UNCHANGED <<rows, nextId, seeded>>
  BY DEF SeedOne
<1>2. /\ seeded \in Nat /\ Len(DefaultRules) \in Nat /\ seeded + 1 \in 1..Len(DefaultRules)
      /\ \A n \in 1..seeded : n \in 1..Len(DefaultRules) /\ n # seeded + 1
  BY <1>1, DefaultFacts DEF IInv, TypeOK
<1>3. RulesIn(rows) = Defaults(seeded) /\ \A y \in rows : y.enabled
  BY <1>1 DEF KInv, Seeding
<1>4. NameFree(nextId, r)
  <2>1. ASSUME NEW y \in rows PROVE y.rule.name # r.name
    <3>1. y.rule \in Defaults(seeded)
      BY <1>3 DEF RulesIn
    <3>2. PICK n \in 1..seeded : y.rule = DefaultRules[n]
      BY <3>1 DEF Defaults
    <3> QED
      BY <1>2, <3>2, DefaultNames
  <2> QED
    BY <2>1 DEF NameFree
<1>5. /\ rows' = Upserted(nextId, r, TRUE) /\ seeded' = seeded + 1 /\ boot' = "seeding"
  BY <1>1, <1>4
<1>6. RulesIn(rows)' = RulesIn(rows) \cup {r}
  <2> HIDE DEF r
  <2> QED
    BY <1>5, InsertRules
<1>7. Defaults(seeded + 1) = Defaults(seeded) \cup {r}
  <2>1. \A n : n \in 1..(seeded + 1) <=> n \in 1..seeded \/ n = seeded + 1
    BY <1>2
  <2> QED
    BY <2>1 DEF Defaults
<1>8. Defaults(seeded)' = Defaults(seeded + 1)
  BY <1>5 DEF Defaults
<1>9. \A y \in rows' : y.enabled
  BY <1>3, <1>5 DEF Upserted
<1> HIDE DEF r
<1>10. Seeding' /\ SeededOrTorn'
  BY <1>3, <1>5, <1>6, <1>7, <1>8, <1>9 DEF Seeding, SeededOrTorn
<1>11. NoneTaken'
  BY <1>1 DEF KInv, NoneTaken
<1>12. Kept'
  BY <1>1, <1>6, <1>7, <1>8, EditsUntouched, EnteredKept DEF KInv
<1> QED
  BY <1>10, <1>11, <1>12 DEF KInv

LEMMA SeedDoneKept == ASSUME IInv, KInv, SeedDone PROVE KInv'
<1>1. /\ h' = h /\ rows' = rows /\ seeded' = seeded /\ torn' = torn /\ boot' = "up"
      /\ seeded = Len(DefaultRules)
  BY DEF SeedDone
<1>2. NoneTaken' /\ Seeding' /\ SeededOrTorn'
  BY <1>1 DEF KInv, NoneTaken, Seeding, SeededOrTorn
<1>3. Kept'
  BY <1>1, EditsUntouched, EnteredKept DEF KInv
<1> QED
  BY <1>2, <1>3 DEF KInv

LEMMA CrashKept == ASSUME IInv, KInv, Crash PROVE KInv'
<1>1. /\ boot # "down" /\ boot' = "down" /\ torn' = (torn \/ boot = "seeding")
      /\ UNCHANGED <<rows, seeded>>
      /\ h' = [x \in Handlers |->
                 IF h[x].at = "idle" THEN h[x] ELSE [h[x] EXCEPT !.at = "dead", !.snap = <<>>]]
  BY DEF Crash
<1>2. ASSUME NEW k \in Handlers
      PROVE  /\ h'[k].wrote = h[k].wrote /\ h'[k].kind = h[k].kind
             /\ h'[k].rule = h[k].rule /\ h'[k].old = h[k].old
             /\ h'[k].at \in {"idle", "loaded"} => h'[k] = h[k]
  <2> DEFINE o == h[k]
             new == [o EXCEPT !.at = "dead", !.snap = <<>>]
  <2>1. o \in Handler /\ h'[k] = IF o.at = "idle" THEN o ELSE new
    BY <1>1 DEF IInv, TypeOK
  <2> HIDE DEF o
  <2>2. /\ new.wrote = o.wrote /\ new.kind = o.kind /\ new.rule = o.rule /\ new.old = o.old
        /\ new.at = "dead"
    BY <2>1 DEF Handler
  <2> HIDE DEF new
  <2> QED
    BY <2>1, <2>2 DEF o
<1>3. NoneTaken'
  BY <1>2 DEF KInv, NoneTaken
<1>4. Seeding' /\ SeededOrTorn'
  <2>1. boot \in {"seeding", "up"}
    BY <1>1 DEF IInv, TypeOK
  <2> QED
    BY <1>1, <2>1 DEF KInv, Seeding, SeededOrTorn
<1>5. Kept'
  BY <1>1, <1>2, EditsUntouched, EnteredKept DEF KInv
<1> QED
  BY <1>3, <1>4, <1>5 DEF KInv

LEMMA KeptInit == Init => KInv
<1> SUFFICES ASSUME Init PROVE KInv
  OBVIOUS
<1>1. rows = {} /\ boot = "down" /\ seeded = 0 /\ h = [x \in Handlers |-> Waiting]
  BY DEF Init
<1>2. \A x \in Handlers : h[x].old = {} /\ h[x].wrote = FALSE
  BY <1>1, WaitingType
<1>3. Defaults(seeded) = {} /\ Writers = {}
  BY <1>1, <1>2 DEF Defaults, Writers
<1>4. Kept
  BY <1>3 DEF Kept, Entered
<1> QED
  BY <1>1, <1>2, <1>4 DEF KInv, NoneTaken, Seeding, SeededOrTorn

LEMMA KeptStep == IInv /\ KInv /\ [Next]_vars => KInv'
<1> SUFFICES ASSUME IInv, KInv, [Next]_vars PROVE KInv'
  OBVIOUS
<1>1. CASE Start \/ SeedOne \/ SeedDone \/ Crash
  BY <1>1, StartKept, SeedOneKept, SeedDoneKept, CrashKept
<1>2. ASSUME NEW x \in Handlers, HandlerStep(x) PROVE KInv'
  BY <1>2, CreateKept, UpdateReadKept, UpdateWriteKept, DeleteKept, ToggleKept, ServedKept
     DEF HandlerStep
<1>3. CASE UNCHANGED vars
  <2>1. UNCHANGED <<rows, boot, seeded, torn, h>>
    BY <1>3 DEF vars
  <2>2. NoneTaken' /\ Seeding' /\ SeededOrTorn'
    BY <2>1 DEF KInv, NoneTaken, Seeding, SeededOrTorn
  <2>3. Kept'
    BY <2>1, EditsUntouched, EnteredKept DEF KInv
  <2> QED
    BY <2>2, <2>3 DEF KInv
<1> QED
  BY <1>1, <1>2, <1>3 DEF Next, Served

\* SeedDefaultPolicies and the edits, over any stops and starts: the inserts of
\* the seeding never meet a taken name, only a stop in the middle leaves a table
\* short of its default rules, and what has entered the table stays until an
\* edit takes it out.
THEOREM RulesKeptTheorem == Spec => []RulesKept
<1>1. KInv => RulesKept
  BY DEF KInv, Seeding, SeededOrTorn, Kept, RulesKept
<1> QED
  BY PolicyInvariant, KeptInit, KeptStep, <1>1, PTL DEF Spec

-----------------------------------------------------------------------------
(* The enabled flag                                                        *)

\* Rows that stay keep their flag in every step that changes no row's flag: the
\* ids of a table are unique, and a new row has a new id.
LEMMA SameRow ==
  ASSUME IInv, NEW x \in rows, NEW y, y \in rows, x.id = y.id
  PROVE  x.enabled = y.enabled
  BY DEF IInv, TypeOK

LEMMA FlagKept ==
  ASSUME IInv, NEW x \in rows, NEW id, NEW r, NEW on,
         NEW y \in Upserted(id, r, on), x.id = y.id, x.id = id => x.enabled = on
  PROVE  x.enabled = y.enabled
<1>1. CASE y \in rows
  BY <1>1, SameRow
<1>2. CASE y = [id |-> id, rule |-> r, enabled |-> on]
  BY <1>2
<1> QED
  BY <1>1, <1>2 DEF Upserted

\* Without overlapping requests only togglePolicyHandler changes the enabled flag
\* of a row: the update handler writes back the flag it has read.
THEOREM OnlyToggleSwitchesTheorem == Spec => OnlyToggleSwitches
<1> DEFINE Only ==
      ~overlap' =>
         \A x \in rows, y \in rows' : x.id = y.id /\ x.enabled # y.enabled =>
             \E k \in Handlers : h'[k].kind = "toggle" /\ h'[k].id = x.id /\ h[k].at = "idle"
<1>1. IInv /\ [Next]_vars => [Only]_vars
  <2> SUFFICES ASSUME IInv, Next, ~overlap', NEW x \in rows, NEW y \in rows',
                      x.id = y.id, x.enabled # y.enabled
               PROVE  \E k \in Handlers : h'[k].kind = "toggle" /\ h'[k].id = x.id /\ h[k].at = "idle"
    OBVIOUS
  <2>1. rows' # rows
    BY SameRow
  <2>2. nextId \in Nat /\ x.id \in 0..(nextId - 1) /\ x.id # nextId
    BY DEF IInv, TypeOK, Ids
  <2>3. ~SeedOne
    <3>1. SUFFICES ASSUME SeedOne PROVE FALSE
      OBVIOUS
    <3>2. PICK r : rows' = Upserted(nextId, r, TRUE)
      BY <2>1, <3>1 DEF SeedOne
    <3>3. y \in Upserted(nextId, r, TRUE) /\ (x.id = nextId => x.enabled = TRUE)
      BY <2>2, <3>2
    <3>4. x.enabled = y.enabled
      BY <3>3, FlagKept, Zenon
    <3> QED
      BY <3>4
  <2>4. PICK k \in Handlers : HandlerStep(k)
    BY <2>1, <2>3 DEF Next, Start, SeedDone, Crash, Served, vars
  <2>5. ~Create(k)
    <3>1. SUFFICES ASSUME Create(k) PROVE FALSE
      OBVIOUS
    <3>2. PICK r \in UserRules : rows' = Upserted(nextId, r, TRUE)
      BY <2>1, <3>1 DEF Create
    <3>3. y \in Upserted(nextId, r, TRUE) /\ (x.id = nextId => x.enabled = TRUE)
      BY <2>2, <3>2
    <3>4. x.enabled = y.enabled
      BY <3>3, FlagKept, Zenon
    <3> QED
      BY <3>4
  <2>6. ~UpdateWrite(k)
    <3>1. SUFFICES ASSUME UpdateWrite(k) PROVE FALSE
      OBVIOUS
    <3>2. /\ rows' = Upserted(h[k].id, h[k].rule, h[k].enabled)
          /\ h[k].at = "loaded" /\ ~overlap
      BY <2>1, <3>1 DEF UpdateWrite
    <3>3. x.id = h[k].id => x.enabled = h[k].enabled
      BY <3>2 DEF IInv, Fresh, FreshFor
    <3>4. x.enabled = y.enabled
      BY <3>2, <3>3, FlagKept
    <3> QED
      BY <3>4
  <2>7. ~Delete(k)
    <3>1. SUFFICES ASSUME Delete(k) PROVE FALSE
      OBVIOUS
    <3>2. y \in rows
      BY <3>1 DEF Delete
    <3> QED
      BY <3>2, SameRow
  <2>8. Toggle(k)
    BY <2>1, <2>4, <2>5, <2>6, <2>7
       DEF HandlerStep, UpdateRead, ReloadRead, ReloadFails, ReloadAssign, WriteAudit
  <2>9. PICK id \in Ids, on \in BOOLEAN, new \in Handler, wrote \in BOOLEAN :
          /\ rows' = (rows \ {z \in rows : z.id = id})
                     \cup {[z EXCEPT !.enabled = on] : z \in {z \in rows : z.id = id}}
          /\ ~wrote => rows' = rows
          /\ h' = [h EXCEPT ![k] = new]
          /\ new.at = (IF wrote THEN "committed" ELSE "done")
          /\ new.kind = "toggle" /\ new.id = id /\ new.wrote = wrote /\ new.reload = "none"
          /\ new.old = {}
    BY <2>8, ToggleFacts
  <2>10. h'[k] = new /\ h[k].at = "idle"
    BY <2>8, <2>9 DEF IInv, TypeOK, Toggle, Arrives
  <2>11. y \notin rows
    BY SameRow
  <2>12. PICK z \in rows : z.id = id /\ y = [z EXCEPT !.enabled = on]
    BY <2>9, <2>11
  <2>13. y.id = z.id
    BY <2>12 DEF IInv, TypeOK
  <2> QED
    BY <2>9, <2>10, <2>12, <2>13
<1>2. Spec => [][Only]_vars
  BY PolicyInvariant, <1>1, PTL DEF Spec
<1> QED
  BY <1>2 DEF OnlyToggleSwitches

=============================================================================
