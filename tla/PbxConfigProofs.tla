-------------------------- MODULE PbxConfigProofs --------------------------
(***************************************************************************)
(* Proofs about PbxConfig.  For any number of control connections, any     *)
(* provisioned database and any order in which commands check, commit,     *)
(* load and replace: routes of the database resolve, a command that ran    *)
(* alone leaves the snapshot equal to the database, commands that do not   *)
(* overlap keep what is checked against the snapshot only, and no id is    *)
(* given twice.                                                            *)
(***************************************************************************)
EXTENDS PbxConfig, FiniteSetTheorems, WellFoundedInduction, TLAPS

----------------------------------------------------------------------------
(* The inductive invariant *)

Phases == {"idle", "checked", "written", "loading", "loaded", "replaced"}
Setting == [key : {"trace"}, value : BOOLEAN] \cup [key : LimitNames, value : Limits]

\* Typed tables whose ids are ids.
IsTab(tab) == IsTables(tab) /\ \A t \in Tables : DOMAIN tab[t] \subseteq Ids

\* A request that passed a handler: at most a batch of typed rows.
RequestOK(q) ==
  /\ q.table \in Tables /\ q.op \in {"insert", "update"} =>
       /\ q.rows \in Seq(Rows(q.table)) /\ Len(q.rows) \in 1..MaxBatch
  /\ q.op = "update" /\ q.table \in Tables => Len(q.rows) = 1
  /\ q.table = "setting" => q.rows = <<q.rows[1]>> /\ q.rows[1] \in Setting

Command(q, load) == [phase : Phases, q : {q}, load : {load}, alone : BOOLEAN, was : BOOLEAN]

DbOK ==
  /\ db \in Database(db.tab) /\ IsTab(db.tab)
  /\ \A t \in Tables : db.next[t] >= 1 /\ DOMAIN db.tab[t] \subseteq 1 .. (db.next[t] - 1)

SnapOK == snap \in Snapshot(snap.tab) /\ IsTab(snap.tab)

CmdOK ==
  /\ DOMAIN cmd = Clients
  /\ \A c \in Clients :
       /\ cmd[c] \in Command(cmd[c].q, cmd[c].load)
       /\ Busy(c) => RequestOK(cmd[c].q)
       /\ cmd[c].phase \in {"loading", "loaded", "replaced"} =>
            cmd[c].load \in Snapshot(cmd[c].load.tab) /\ IsTab(cmd[c].load.tab)

RestOK ==
  /\ admission \in [LimitNames -> Limits]
  /\ {changed, traced, settled, disturbed} \subseteq BOOLEAN
  /\ {view, issued, restarts} \subseteq Nat /\ issued <= MaxCommands
  /\ moved \subseteq Ids

\* The commands that may still commit; the others have spent a batch of ids.
Pending == {c \in Clients : cmd[c].phase = "checked"}
IdsGiven(n) == \A t \in Tables : db.next[t] <= 1 + InitIds + MaxBatch * n
IdBound == Cardinality(Pending) <= issued /\ IdsGiven(issued - Cardinality(Pending))

\* What a snapshot has of the database.
Same(s, d) ==
  s.domain = d.domain /\ s.limits = d.limits /\ s.trace = d.trace /\ s.tab = Loaded(d).tab

\* A command that runs alone has loaded what is in the database.
AloneOK ==
  \A c \in Clients : Busy(c) /\ cmd[c].alone =>
    /\ \A d \in Clients \ {c} : ~Busy(d)
    /\ cmd[c].phase = "loading" => cmd[c].load = LoadResources(db)
    /\ cmd[c].phase \in {"loaded", "replaced"} => Same(cmd[c].load, db)

SettledOK == settled => Same(snap, db)

\* The checks a handler made on the snapshot and the transaction does not repeat.
CheckedOK(q) ==
  /\ q.table \in Policies /\ q.op \in {"insert", "update"} =>
       \A k \in DOMAIN q.rows : \A tg \in q.rows[k].targets : tg[2] \in DOMAIN snap.tab[tg[1]]
  /\ q.table \in {"ext", "peer", "reg"} /\ q.op = "delete" => ~TargetReferenced(snap.tab, <<q.table, q.id>>)
  /\ q.table = "setting" /\ q.rows[1].key # "trace" =>
       validate_cdr_spool_limits([snap.limits EXCEPT ![q.rows[1].key] = q.rows[1].value])

\* A settings command in one of these phases is under way.
SettingIn(phases) == \E c \in Clients : cmd[c].phase \in phases /\ IsSetting(c)

\* What holds as long as commands do not overlap and loads succeed.
Sequential ==
  /\ \A c \in Clients : Busy(c) => cmd[c].alone
  /\ ~settled => \E c \in Clients : cmd[c].phase \in {"written", "loading", "loaded"}
  /\ TargetsExist(db.tab) /\ validate_cdr_spool_limits(db.limits)
  /\ \A c \in Clients : cmd[c].phase = "checked" => CheckedOK(cmd[c].q)
  /\ admission = db.limits \/ SettingIn({"written", "loading", "loaded", "replaced"})
  /\ db.trace = snap.trace \/ SettingIn({"written", "loading", "loaded"})
  /\ \A c \in Clients : cmd[c].phase \in {"checked", "written", "loading", "loaded"} => cmd[c].was = snap.trace
  /\ traced => snap.trace \/ \E c \in Clients : cmd[c].phase = "replaced" /\ IsSetting(c) /\ cmd[c].was

IInv ==
  /\ DbOK /\ SnapOK /\ CmdOK /\ RestOK /\ IdBound
  /\ RoutesResolve /\ AloneOK /\ SettledOK /\ (~disturbed => Sequential)

----------------------------------------------------------------------------
(* Numbers *)

\* A set of naturals that is not empty has a least element.
LEMMA Smallest ==
  ASSUME NEW S \in SUBSET Nat, S # {}
  PROVE  \E n \in S : \A m \in S : n <= m
<1> DEFINE R == {ss \in Nat \X Nat : ss[1] < ss[2]}
<1>1. IsWellFoundedOn(R, Nat)
  BY NatLessThanWellFounded DEF OpToRel
<1>2. PICK x \in S : \A y \in S : ~(<<y, x>> \in R)
  <2> HIDE DEF R
  <2> QED BY <1>1, WFMin
<1>3. \A y \in S : x <= y
  <2> TAKE y \in S
  <2>1. x \in Nat /\ y \in Nat OBVIOUS
  <2>2. ~(y < x) BY <1>2, <2>1
  <2> QED BY <2>1, <2>2
<1> QED BY <1>3

\* ... and a bounded one a greatest element.
LEMMA Largest ==
  ASSUME NEW S \in SUBSET Nat, S # {}, NEW b \in Nat, \A n \in S : n <= b
  PROVE  \E n \in S : \A m \in S : m <= n
<1> DEFINE T == {n \in Nat : \A m \in S : m <= n}
<1>1. T \in SUBSET Nat /\ T # {}
  OBVIOUS
<1>2. PICK n \in T : \A m \in T : n <= m
  <2> HIDE DEF T
  <2> QED BY <1>1, Smallest
<1>3. n \in S
  <2> SUFFICES ASSUME n \notin S PROVE FALSE OBVIOUS
  <2>1. \A m \in S : m < n
    <3> TAKE m \in S
    <3>1. m <= n /\ m # n /\ m \in Nat /\ n \in Nat OBVIOUS
    <3> QED BY ONLY <3>1
  <2>0. PICK m \in S : TRUE OBVIOUS
  <2>2. n \in Nat /\ n # 0 BY <2>0, <2>1
  <2>3. n - 1 \in T
    <3>1. \A k \in S : k <= n - 1 BY <2>1, <2>2
    <3> QED BY <3>1, <2>2
  <2> QED BY <2>2, <2>3, <1>2
<1> QED BY <1>3

\* A product grows with its second factor, by the first factor at each step.
LEMMA Products ==
  ASSUME NEW m \in Nat, NEW a \in Nat, NEW b \in Nat, a <= b
  PROVE  /\ m * a \in Nat /\ m * a <= m * b
         /\ m * (a + 1) = m * a + m
<1>1. m * (a + 1) = m * a + m
  BY SMT
<1>2. m * a \in Nat
  BY SMT
<1>3. m * a <= m * b
  <2> DEFINE k == b - a
  <2>1. k \in Nat /\ b = a + k
    OBVIOUS
  <2>2. m * k \in Nat
    BY <2>1, SMT
  <2>3. m * b = m * a + m * k
    <3> HIDE DEF k
    <3> QED BY <2>1, SMT
  <2> QED BY <1>2, <2>2, <2>3
<1> QED BY <1>1, <1>2, <1>3

\* The last id of a bounded set of ids is one of them and none is larger.
LEMMA LastBound ==
  ASSUME NEW b \in Nat, NEW S \in SUBSET (1 .. b)
  PROVE  Last(S) \in 0 .. b
<1>1. CASE S = {}
  BY <1>1 DEF Last
<1>2. CASE S # {}
  <2>1. S \in SUBSET Nat /\ \A n \in S : n <= b
    OBVIOUS
  <2>2. PICK n \in S : \A m \in S : m <= n
    BY <1>2, <2>1, Largest
  <2>3. Last(S) \in S
    BY <1>2, <2>2 DEF Last
  <2>4. \A k \in S : k \in 0 .. b
    OBVIOUS
  <2> QED BY <2>3, <2>4
<1> QED BY <1>1, <1>2

----------------------------------------------------------------------------
(* Opening the database *)

\* The sequences of the database are ahead of its tables, so seeding them changes nothing.
LEMMA OpenedSame ==
  ASSUME DbOK
  PROVE  Opened = db
<1>1. db \in Database(db.tab)
  BY DEF DbOK
<1>2. \A t \in Tables : db.next[t] \in Nat /\ Max2(db.next[t], Last(DOMAIN db.tab[t]) + 1) = db.next[t]
  <2> TAKE t \in Tables
  <2>1. db.next[t] \in Nat /\ db.next[t] >= 1 /\ DOMAIN db.tab[t] \in SUBSET (1 .. (db.next[t] - 1))
    BY <1>1 DEF DbOK, Database
  <2>2. Last(DOMAIN db.tab[t]) \in 0 .. (db.next[t] - 1)
    <3>1. db.next[t] - 1 \in Nat BY <2>1
    <3> QED BY <2>1, <3>1, LastBound
  <2>3. Last(DOMAIN db.tab[t]) + 1 <= db.next[t] /\ Last(DOMAIN db.tab[t]) + 1 \in Nat
    BY <2>1, <2>2
  <2> QED BY <2>1, <2>3 DEF Max2
<1>3. [t \in Tables |-> IF t = "agent" THEN db.next[t] ELSE Max2(db.next[t], Last(DOMAIN db.tab[t]) + 1)]
        = db.next
  <2>1. db.next \in [Tables -> Nat]
    BY <1>1 DEF Database
  <2> QED BY <1>2, <2>1
<1>4. [db EXCEPT !.next = db.next] = db
  BY <1>1 DEF Database
<1> QED BY <1>3, <1>4 DEF Opened, seed_config_sequences

----------------------------------------------------------------------------
(* What a transaction on a table does *)

\* The fields a transaction on table t leaves alone, and the bounds of the ones it changes.
Within(t) ==
  /\ db' \in Database(db'.tab)
  /\ db'.domain = db.domain /\ db'.limits = db.limits /\ db'.trace = db.trace
  /\ DOMAIN db'.tab = Tables /\ db'.tab = [u \in Tables |-> db'.tab[u]]
  /\ \A u \in Tables \ {t} : db'.tab[u] = db.tab[u] /\ db'.next[u] = db.next[u]
  /\ db'.next[t] >= db.next[t] /\ db'.next[t] <= db.next[t] + MaxBatch

Fresh(t) == db.next[t] .. (db'.next[t] - 1)

Inserted(q) ==
  /\ DOMAIN db'.tab[q.table] = DOMAIN db.tab[q.table] \cup Fresh(q.table)
  /\ \A i \in DOMAIN db.tab[q.table] : db'.tab[q.table][i] = db.tab[q.table][i]
  /\ \A i \in Fresh(q.table) : \E k \in DOMAIN q.rows : db'.tab[q.table][i] = q.rows[k]

Updated(q) ==
  /\ q.id \in DOMAIN db.tab[q.table] /\ DOMAIN db'.tab[q.table] = DOMAIN db.tab[q.table]
  /\ \A i \in DOMAIN db.tab[q.table] :
       db'.tab[q.table][i] = IF i = q.id THEN q.rows[1] ELSE db.tab[q.table][i]

Deleted(q) ==
  /\ q.id \in DOMAIN db.tab[q.table] /\ DOMAIN db'.tab[q.table] = DOMAIN db.tab[q.table] \ {q.id}
  /\ \A i \in DOMAIN db'.tab[q.table] : db'.tab[q.table][i] = db.tab[q.table][i]

\* An insert takes ids of the sequence for its rows and keeps the other rows.
LEMMA InsertEffect ==
  ASSUME DbOK, NEW q, q.table \in Tables, q.rows \in Seq(Rows(q.table)),
         Len(q.rows) \in 1 .. MaxBatch, InsertRows(q)
  PROVE  Within(q.table) /\ Inserted(q)
<1> DEFINE t == q.table
           n == db.next[t]
           l == Len(q.rows)
           new == n .. (n + l - 1)
           rows == [i \in DOMAIN db.tab[t] \cup new |->
                      IF i \in new THEN q.rows[i - n + 1] ELSE db.tab[t][i]]
<1>0. db \in Database(db.tab) /\ DOMAIN db.tab = Tables /\ n \in Nat /\ l \in Nat /\ l >= 1 /\ l <= MaxBatch
      /\ DOMAIN db.tab[t] \subseteq 1 .. (n - 1) /\ DOMAIN q.rows = 1 .. l /\ MaxBatch \in Nat
  BY ConfigAssumption DEF DbOK, Database, IsTab, IsTables
<1>1. db' = [db EXCEPT !.tab[t] = rows, !.next[t] = n + l, !.version = @ + 1]
  BY OpenedSame DEF InsertRows
<1> HIDE DEF rows
<1>2. db'.tab = [db.tab EXCEPT ![t] = rows] /\ db'.next = [db.next EXCEPT ![t] = n + l]
      /\ db'.version = db.version + 1
      /\ db'.domain = db.domain /\ db'.limits = db.limits /\ db'.trace = db.trace
      /\ db'.rowVersion = db.rowVersion
  BY <1>0, <1>1 DEF Database
<1>3. db'.tab[t] = rows /\ db'.next[t] = n + l /\ DOMAIN db'.tab = Tables
      /\ \A u \in Tables \ {t} : db'.tab[u] = db.tab[u] /\ db'.next[u] = db.next[u]
  <2>1. DOMAIN db.next = Tables
    BY <1>0 DEF Database
  <2> QED BY <1>0, <1>2, <2>1
<1>4. db' \in Database(db'.tab)
  <2>1. db'.next \in [Tables -> Nat] /\ db.version + 1 \in Nat
    <3>1. db.next \in [Tables -> Nat] /\ n + l \in Nat /\ db.version \in Nat
      BY <1>0 DEF Database
    <3> QED BY <1>2, <3>1
  <2> QED BY <1>0, <1>1, <1>2, <2>1 DEF Database
<1>50. db'.tab = [u \in Tables |-> db'.tab[u]]
  BY <1>0, <1>2
<1>5. Within(t)
  BY <1>0, <1>2, <1>3, <1>4, <1>50 DEF Within
<1>6. DOMAIN rows = DOMAIN db.tab[t] \cup new
      /\ \A i \in new : rows[i] = q.rows[i - n + 1] /\ i - n + 1 \in 1 .. l
  <2>2. \A i \in new : i - n + 1 \in 1 .. l
    BY <1>0
  <2> QED BY <2>2 DEF rows
<1>9. \A i \in DOMAIN db.tab[t] : rows[i] = db.tab[t][i]
  <2>1. \A i \in DOMAIN db.tab[t] : i \notin new
    BY <1>0
  <2> QED BY <2>1 DEF rows
<1>7. Fresh(t) = new
  BY <1>0, <1>3 DEF Fresh
<1>8. Inserted(q)
  <2> HIDE DEF new, l, n
  <2>1. \A i \in new : \E k \in DOMAIN q.rows : rows[i] = q.rows[k]
    BY <1>0, <1>6
  <2>2. DOMAIN db'.tab[q.table] = DOMAIN db.tab[q.table] \cup Fresh(q.table)
    BY <1>3, <1>6, <1>7
  <2>3. \A i \in DOMAIN db.tab[q.table] : db'.tab[q.table][i] = db.tab[q.table][i]
    <3>1. db'.tab[t] = rows
      BY <1>3
    <3> QED BY <3>1, <1>9
  <2>4. \A i \in Fresh(q.table) : \E k \in DOMAIN q.rows : db'.tab[q.table][i] = q.rows[k]
    BY <1>3, <1>7, <2>1, Zenon
  <2> QED BY <2>2, <2>3, <2>4 DEF Inserted
<1> QED BY <1>5, <1>8

\* An update replaces one row.
LEMMA UpdateEffect ==
  ASSUME DbOK, NEW q, q.table \in Tables, UpdateRow(q)
  PROVE  Within(q.table) /\ Updated(q)
<1> DEFINE t == q.table
           rows == [db.tab[t] EXCEPT ![q.id] = q.rows[1]]
<1>0. db \in Database(db.tab) /\ DOMAIN db.tab = Tables /\ db.next[t] \in Nat /\ db.next \in [Tables -> Nat]
      /\ db.version \in Nat /\ q.id \in DOMAIN db.tab[t] /\ MaxBatch \in Nat
  BY ConfigAssumption DEF DbOK, Database, IsTab, IsTables, UpdateRow, Exists
<1>1. db' = [db EXCEPT !.tab[t] = rows, !.version = @ + 1]
  BY <1>0, OpenedSame DEF UpdateRow
<1>2. DOMAIN rows = DOMAIN db.tab[t]
      /\ \A i \in DOMAIN db.tab[t] : rows[i] = IF i = q.id THEN q.rows[1] ELSE db.tab[t][i]
  OBVIOUS
<1> HIDE DEF rows
<1>3. db'.tab = [db.tab EXCEPT ![t] = rows] /\ db'.next = db.next
      /\ db'.version = db.version + 1
      /\ db'.domain = db.domain /\ db'.limits = db.limits /\ db'.trace = db.trace
      /\ db'.rowVersion = db.rowVersion
  BY <1>0, <1>1 DEF Database
<1>4. db'.tab[t] = rows /\ DOMAIN db'.tab = Tables
      /\ \A u \in Tables \ {t} : db'.tab[u] = db.tab[u]
  BY <1>0, <1>3
<1>5. db' \in Database(db'.tab)
  <2>1. db.version + 1 \in Nat
    BY <1>0
  <2> QED BY <1>0, <1>1, <1>3, <2>1 DEF Database
<1>60. db'.tab = [u \in Tables |-> db'.tab[u]]
  BY <1>0, <1>3
<1>6. Within(t)
  BY <1>0, <1>3, <1>4, <1>5, <1>60 DEF Within
<1>7. Updated(q)
  BY <1>0, <1>2, <1>4 DEF Updated
<1> QED BY <1>6, <1>7

\* A delete takes one row out.
LEMMA DeleteEffect ==
  ASSUME DbOK, NEW q, q.table \in Tables, DeleteRow(q)
  PROVE  Within(q.table) /\ db'.next = db.next /\ Deleted(q)
<1> DEFINE t == q.table
           rows == [i \in DOMAIN db.tab[t] \ {q.id} |-> db.tab[t][i]]
<1>0. db \in Database(db.tab) /\ DOMAIN db.tab = Tables /\ db.next[t] \in Nat /\ db.next \in [Tables -> Nat]
      /\ db.version \in Nat /\ q.id \in DOMAIN db.tab[t] /\ MaxBatch \in Nat
  BY ConfigAssumption DEF DbOK, Database, IsTab, IsTables, DeleteRow, Exists
<1>1. db' = [db EXCEPT !.tab[t] = rows, !.version = @ + 1]
  BY <1>0, OpenedSame DEF DeleteRow
<1>2. DOMAIN rows = DOMAIN db.tab[t] \ {q.id} /\ \A i \in DOMAIN rows : rows[i] = db.tab[t][i]
  OBVIOUS
<1> HIDE DEF rows
<1>3. db'.tab = [db.tab EXCEPT ![t] = rows] /\ db'.next = db.next
      /\ db'.version = db.version + 1
      /\ db'.domain = db.domain /\ db'.limits = db.limits /\ db'.trace = db.trace
      /\ db'.rowVersion = db.rowVersion
  BY <1>0, <1>1 DEF Database
<1>4. db'.tab[t] = rows /\ DOMAIN db'.tab = Tables
      /\ \A u \in Tables \ {t} : db'.tab[u] = db.tab[u]
  BY <1>0, <1>3
<1>5. db' \in Database(db'.tab)
  <2>1. db.version + 1 \in Nat
    BY <1>0
  <2> QED BY <1>0, <1>1, <1>3, <2>1 DEF Database
<1>60. db'.tab = [u \in Tables |-> db'.tab[u]]
  BY <1>0, <1>3
<1>6. Within(t)
  BY <1>0, <1>3, <1>4, <1>5, <1>60 DEF Within
<1>7. Deleted(q)
  BY <1>0, <1>2, <1>4 DEF Deleted
<1> QED BY <1>3, <1>6, <1>7

\* A transaction on a table is an insert, an update or a delete.
LEMMA TableEffect ==
  ASSUME DbOK, NEW q, q.table \in Tables, RequestOK(q), TableTransaction(q)
  PROVE  /\ Within(q.table)
         /\ \/ q.op = "insert" /\ Inserted(q)
            \/ q.op = "update" /\ Updated(q)
            \/ q.op = "delete" /\ Deleted(q)
<1>1. ASSUME q.op = "insert", InsertRows(q) PROVE Within(q.table) /\ Inserted(q)
  BY <1>1, InsertEffect DEF RequestOK
<1>2. ASSUME q.op = "update", UpdateRow(q) PROVE Within(q.table) /\ Updated(q)
  BY <1>2, UpdateEffect
<1>3. ASSUME q.op = "delete", DeleteRow(q) PROVE Within(q.table) /\ Deleted(q)
  BY <1>3, DeleteEffect
<1>4. \/ q.op = "insert" /\ InsertRows(q)
      \/ q.op = "update" /\ UpdateRow(q)
      \/ q.op = "delete" /\ DeleteRow(q)
  BY Zenon DEF TableTransaction, OfTable, insert_extensions, update_extension, delete_extension,
      insert_peer, update_peer, delete_peer, insert_reg_trunk, update_reg_trunk,
      delete_reg_trunk, insert_reg_account, update_reg_account, delete_reg_account,
      insert_inbound, update_inbound, insert_outbound, update_outbound, delete_route,
      insert_policy, update_policy, delete_policy, insert_agent, update_agent, delete_agent
<1> QED BY <1>1, <1>2, <1>3, <1>4

\* The rows of a table after its transaction: rows it had, or rows of the request.
LEMMA TableRows ==
  ASSUME DbOK, NEW q, q.table \in Tables, RequestOK(q), TableTransaction(q),
         NEW i \in DOMAIN db'.tab[q.table]
  PROVE  \/ i \in DOMAIN db.tab[q.table] /\ db'.tab[q.table][i] = db.tab[q.table][i]
         \/ /\ q.op \in {"insert", "update"}
            /\ \E k \in DOMAIN q.rows : db'.tab[q.table][i] = q.rows[k]
<1>1. CASE q.op = "insert" /\ Inserted(q)
  BY <1>1 DEF Inserted
<1>2. CASE q.op = "update" /\ Updated(q)
  <2>1. 1 \in DOMAIN q.rows
    BY <1>2 DEF RequestOK
  <2>2. CASE i = q.id
    BY <1>2, <2>1, <2>2 DEF Updated
  <2>3. CASE i # q.id
    BY <1>2, <2>3 DEF Updated
  <2> QED BY <2>2, <2>3
<1>3. CASE q.op = "delete" /\ Deleted(q)
  BY <1>3 DEF Deleted
<1> QED BY <1>1, <1>2, <1>3, TableEffect

\* A transaction on a table keeps the database typed, as long as there are ids left.
LEMMA TableKeepsDb ==
  ASSUME DbOK, NEW q, q.table \in Tables, RequestOK(q), TableTransaction(q),
         \A t \in Tables : db'.next[t] <= LastId + 1
  PROVE  DbOK'
<1>1. Within(q.table)
  BY TableEffect
<1>2. db' \in Database(db'.tab) /\ DOMAIN db'.tab = Tables
  BY <1>1 DEF Within
<1>3. \A t \in Tables : db.next[t] \in Nat /\ db'.next[t] \in Nat /\ db.next[t] >= 1 /\ db'.next[t] >= db.next[t]
  <2>1. \A t \in Tables : db.next[t] \in Nat /\ db'.next[t] \in Nat /\ db.next[t] >= 1
    BY <1>2 DEF DbOK, Database
  <2> QED BY <1>1, <2>1 DEF Within
<1>4. ASSUME NEW t \in Tables PROVE DOMAIN db'.tab[t] \subseteq 1 .. (db'.next[t] - 1)
  <2>0. DOMAIN db.tab[t] \subseteq 1 .. (db.next[t] - 1)
    BY DEF DbOK
  <2>1. CASE t # q.table
    BY <2>0, <2>1, <1>1 DEF Within
  <2>2. CASE t = q.table
    <3>1. DOMAIN db'.tab[t] \subseteq DOMAIN db.tab[t] \cup Fresh(t)
      BY <2>2, TableEffect DEF Inserted, Updated, Deleted
    <3>2. Fresh(t) \subseteq 1 .. (db'.next[t] - 1) /\ 1 .. (db.next[t] - 1) \subseteq 1 .. (db'.next[t] - 1)
      BY <1>3 DEF Fresh
    <3> QED BY <2>0, <3>1, <3>2
  <2> QED BY <2>1, <2>2
<1>5. ASSUME NEW t \in Tables, NEW i \in DOMAIN db'.tab[t] PROVE db'.tab[t][i] \in Rows(t)
  <2>0. \A j \in DOMAIN db.tab[t] : db.tab[t][j] \in Rows(t)
    BY DEF DbOK, IsTab, IsTables
  <2>1. CASE t # q.table
    BY <2>0, <2>1, <1>1, <1>5 DEF Within
  <2>2. CASE t = q.table
    <3>1. CASE i \in DOMAIN db.tab[t] /\ db'.tab[t][i] = db.tab[t][i]
      BY <2>0, <3>1
    <3>2. ASSUME q.op \in {"insert", "update"}, NEW k \in DOMAIN q.rows, db'.tab[t][i] = q.rows[k]
          PROVE  db'.tab[t][i] \in Rows(t)
      <4>1. q.rows \in Seq(Rows(q.table))
        BY <3>2 DEF RequestOK
      <4> QED BY <2>2, <3>2, <4>1
    <3> QED BY <2>2, <3>1, <3>2, TableRows
  <2> QED BY <2>1, <2>2
<1>6. \A t \in Tables : DOMAIN db'.tab[t] \subseteq Ids
  <2> TAKE t \in Tables
  <2>1. db'.next[t] - 1 <= LastId /\ LastId \in Nat
    <3>1. LastId \in Nat
      BY ConfigAssumption DEF LastId
    <3> QED BY <1>3, <3>1
  <2> QED BY <1>3, <1>4, <2>1 DEF Ids
<1>7. IsTables(db'.tab)
  <2>1. db'.tab \in [Tables -> {db'.tab[t] : t \in Tables}]
    <3>1. \A t \in Tables : db'.tab[t] \in {db'.tab[u] : u \in Tables}
      OBVIOUS
    <3>2. db'.tab = [t \in Tables |-> db'.tab[t]]
      BY <1>1 DEF Within
    <3> QED BY <1>2, <3>1, <3>2
  <2> QED BY <1>5, <2>1 DEF IsTables
<1>8. \A t \in Tables : db'.next[t] >= 1
  BY <1>3
<1> QED BY <1>2, <1>4, <1>6, <1>7, <1>8 DEF DbOK, IsTab

----------------------------------------------------------------------------
(* Routes *)

Stands(tab, ref, exempt) == RefResolves(tab, ref) \/ (ref[1] = "reg" /\ ref[3] \in exempt)

ExtStands(tab, n) ==
  n # Every => \E e \in DOMAIN tab["ext"] : tab["ext"][e].number = n /\ tab["ext"][e].enabled

\* RoutesStand, route by route.
EachStands(tab, exempt) ==
  /\ \A i \in DOMAIN tab["outbound"] : \A ref \in tab["outbound"][i].refs :
       ref # Every => Stands(tab, ref, exempt)
  /\ \A i \in DOMAIN tab["inbound"] :
       /\ tab["inbound"][i].match # Every => Stands(tab, tab["inbound"][i].match, exempt)
       /\ ExtStands(tab, tab["inbound"][i].target)

\* The references of the routes are those of each route.
LEMMA RouteByRoute ==
  ASSUME NEW tab, NEW exempt
  PROVE  RoutesStand(tab, exempt) <=> EachStands(tab, exempt)
<1>1. \A ref : ref \in RouteRefs(tab) <=>
        /\ ref # Every
        /\ \/ \E i \in DOMAIN tab["outbound"] : ref \in tab["outbound"][i].refs
           \/ \E i \in DOMAIN tab["inbound"] : tab["inbound"][i].match = ref
  BY DEF RouteRefs
<1>2. RoutesStand(tab, exempt) <=>
        /\ \A ref \in RouteRefs(tab) : Stands(tab, ref, exempt)
        /\ \A i \in DOMAIN tab["inbound"] : ExtStands(tab, tab["inbound"][i].target)
  BY DEF RoutesStand, Stands, ExtStands
<1>3. (\A ref \in RouteRefs(tab) : Stands(tab, ref, exempt)) <=>
        /\ \A i \in DOMAIN tab["outbound"] : \A ref \in tab["outbound"][i].refs :
             ref # Every => Stands(tab, ref, exempt)
        /\ \A i \in DOMAIN tab["inbound"] :
             tab["inbound"][i].match # Every => Stands(tab, tab["inbound"][i].match, exempt)
  BY <1>1
<1> QED BY <1>2, <1>3 DEF EachStands

\* A reference is a peer trunk's or a registered account's.
LEMMA RefShape ==
  ASSUME NEW ref \in Refs
  PROVE  \/ ref = <<"peer", ref[2]>> /\ ref[1] = "peer"
         \/ ref = <<"reg", ref[2], ref[3]>> /\ ref[1] = "reg"
BY DEF Refs

\* The references of typed tables are references.
LEMMA RouteTypes ==
  ASSUME NEW tab, IsTables(tab)
  PROVE  /\ \A i \in DOMAIN tab["outbound"] : tab["outbound"][i].refs \subseteq Refs
         /\ \A i \in DOMAIN tab["inbound"] :
              tab["inbound"][i].match # Every => tab["inbound"][i].match \in Refs
<1>1. \A i \in DOMAIN tab["outbound"] : tab["outbound"][i] \in OutboundRow
  BY DEF IsTables, Tables, Rows, Resources, Routes, Policies
<1>2. \A i \in DOMAIN tab["inbound"] : tab["inbound"][i] \in InboundRow
  BY DEF IsTables, Tables, Rows, Resources, Routes, Policies
<1> QED BY <1>1, <1>2 DEF OutboundRow, InboundRow

\* A change of the resources keeps the routes that named what stands, when every
\* reference a route makes and every extension it names still stands.
LEMMA ResourcesMove ==
  ASSUME NEW tab, NEW new, NEW exempt, NEW more, IsTables(tab), RoutesStand(tab, exempt),
         \A t \in Routes : new[t] = tab[t],
         \A ref \in Refs : TrunkReferenced(tab, ref) /\ Stands(tab, ref, exempt) => Stands(new, ref, more),
         \A n : ExtensionReferenced(tab, n) /\ ExtStands(tab, n) => ExtStands(new, n)
  PROVE  RoutesStand(new, more)
<1>0. EachStands(tab, exempt)
  BY RouteByRoute
<1>1. new["outbound"] = tab["outbound"] /\ new["inbound"] = tab["inbound"]
  BY DEF Routes
<1>2. ASSUME NEW i \in DOMAIN tab["outbound"], NEW ref \in tab["outbound"][i].refs, ref # Every
      PROVE  Stands(new, ref, more)
  <2>1. TrunkReferenced(tab, ref) /\ ref \in Refs /\ Stands(tab, ref, exempt)
    BY <1>0, <1>2, RouteTypes DEF TrunkReferenced, EachStands
  <2> QED BY <2>1
<1>3. ASSUME NEW i \in DOMAIN tab["inbound"], tab["inbound"][i].match # Every
      PROVE  Stands(new, tab["inbound"][i].match, more)
  <2>1. TrunkReferenced(tab, tab["inbound"][i].match)
    BY <1>3 DEF TrunkReferenced
  <2>2. tab["inbound"][i].match \in Refs /\ Stands(tab, tab["inbound"][i].match, exempt)
    BY <1>0, <1>3, RouteTypes DEF EachStands
  <2> QED BY <2>1, <2>2
<1>4. ASSUME NEW i \in DOMAIN tab["inbound"] PROVE ExtStands(new, tab["inbound"][i].target)
  BY <1>0 DEF ExtensionReferenced, EachStands
<1>5. EachStands(new, more)
  BY <1>1, <1>2, <1>3, <1>4 DEF EachStands
<1> QED BY <1>5, RouteByRoute

\* Only the resources decide what stands.
LEMMA StandsByResources ==
  ASSUME NEW tab, NEW new, NEW exempt, \A t \in Resources : new[t] = tab[t]
  PROVE  /\ \A ref : RefResolves(new, ref) = RefResolves(tab, ref)
         /\ \A ref : Stands(new, ref, exempt) = Stands(tab, ref, exempt)
         /\ \A n : ExtStands(new, n) = ExtStands(tab, n)
<1>1. new["ext"] = tab["ext"] /\ new["peer"] = tab["peer"] /\ new["reg"] = tab["reg"]
      /\ new["account"] = tab["account"]
  BY DEF Resources
<1> QED BY <1>1, Zenon DEF RefResolves, Stands, ExtStands

\* Extensions: one that a route names is neither disabled nor deleted, and keeps its number.
LEMMA ExtKeepsRoutes ==
  ASSUME DbOK, NEW q, q.table = "ext", RequestOK(q), TableTransaction(q), RoutesResolve
  PROVE  RoutesStand(db'.tab, moved)
<1>0. q.table \in Tables
  BY DEF Tables, Resources
<1>1. Within("ext") /\ IsTables(db.tab)
  BY <1>0, TableEffect DEF DbOK, IsTab
<1>2. db'.tab["peer"] = db.tab["peer"] /\ db'.tab["reg"] = db.tab["reg"]
      /\ db'.tab["account"] = db.tab["account"] /\ \A t \in Routes : db'.tab[t] = db.tab[t]
  BY <1>1 DEF Within, Tables, Resources, Routes
<1>3. \A ref \in Refs : Stands(db.tab, ref, moved) => Stands(db'.tab, ref, moved)
  BY <1>2 DEF Stands, RefResolves
<1>4. ASSUME NEW n, ExtensionReferenced(db.tab, n), ExtStands(db.tab, n), n # Every
      PROVE  \E e \in DOMAIN db'.tab["ext"] : db'.tab["ext"][e].number = n /\ db'.tab["ext"][e].enabled
  <2>0. PICK e \in DOMAIN db.tab["ext"] : db.tab["ext"][e].number = n /\ db.tab["ext"][e].enabled
    BY <1>4 DEF ExtStands
  <2>1. \/ q.op = "insert" /\ insert_extensions(q)
        \/ q.op = "update" /\ update_extension(q)
        \/ q.op = "delete" /\ delete_extension(q)
    BY DEF TableTransaction, OfTable, Routes, Policies
  <2>2. CASE q.op = "insert"
    BY <1>0, <2>0, <2>2, TableEffect DEF Inserted
  <2>3. CASE q.op = "update"
    <3>1. Updated(q)
      BY <1>0, <2>3, TableEffect
    <3>2. CASE e # q.id
      BY <2>0, <3>1, <3>2 DEF Updated
    <3>3. CASE e = q.id
      <4>1. q.rows[1].number = n /\ (~q.rows[1].enabled => ~ExtensionReferenced(db.tab, n))
        BY <2>0, <2>1, <2>3, <3>3 DEF update_extension, Row
      <4>2. q.rows[1].enabled
        BY <1>4, <4>1
      <4>3. e \in DOMAIN db'.tab["ext"] /\ db'.tab["ext"][e] = q.rows[1]
        BY <2>0, <3>1, <3>3 DEF Updated
      <4> QED BY <4>1, <4>2, <4>3
    <3> QED BY <3>2, <3>3
  <2>4. CASE q.op = "delete"
    <3>1. Deleted(q) /\ ~ExtensionReferenced(db.tab, db.tab["ext"][q.id].number)
      BY <1>0, <2>1, <2>4, TableEffect DEF delete_extension, Row
    <3>2. e # q.id
      BY <1>4, <2>0, <3>1
    <3> QED BY <2>0, <3>1, <3>2 DEF Deleted
  <2> QED BY <2>1, <2>2, <2>3, <2>4
<1>5. \A n : ExtensionReferenced(db.tab, n) /\ ExtStands(db.tab, n) => ExtStands(db'.tab, n)
  BY <1>4 DEF ExtStands
<1> QED BY <1>1, <1>2, <1>3, <1>5, ResourcesMove DEF RoutesResolve

\* Peer trunks: one that a route names is neither disabled nor deleted.
LEMMA PeerKeepsRoutes ==
  ASSUME DbOK, NEW q, q.table = "peer", RequestOK(q), TableTransaction(q), RoutesResolve
  PROVE  RoutesStand(db'.tab, moved)
<1>0. q.table \in Tables
  BY DEF Tables, Resources
<1>1. Within("peer") /\ IsTables(db.tab)
  BY <1>0, TableEffect DEF DbOK, IsTab
<1>2. db'.tab["ext"] = db.tab["ext"] /\ db'.tab["reg"] = db.tab["reg"]
      /\ db'.tab["account"] = db.tab["account"] /\ \A t \in Routes : db'.tab[t] = db.tab[t]
  BY <1>1 DEF Within, Tables, Resources, Routes
<1>3. ASSUME NEW ref \in Refs, TrunkReferenced(db.tab, ref), Stands(db.tab, ref, moved)
      PROVE  Stands(db'.tab, ref, moved)
  <2>1. CASE ref[1] # "peer"
    BY <1>2, <1>3, <2>1 DEF Stands, RefResolves
  <2>2. CASE ref[1] = "peer"
    <3> DEFINE i == ref[2]
    <3>0. ref = <<"peer", i>> /\ i \in DOMAIN db.tab["peer"] /\ db.tab["peer"][i].enabled
      BY <1>3, <2>2, RefShape DEF Stands, RefResolves
    <3> HIDE DEF i
    <3>1. \/ q.op = "insert" /\ insert_peer(q)
          \/ q.op = "update" /\ update_peer(q)
          \/ q.op = "delete" /\ delete_peer(q)
      BY DEF TableTransaction, OfTable, Routes, Policies
    <3>2. i \in DOMAIN db'.tab["peer"] /\ db'.tab["peer"][i].enabled
      <4>2. CASE q.op = "insert"
        BY <1>0, <3>0, <4>2, TableEffect DEF Inserted
      <4>3. CASE q.op = "update"
        <5>1. Updated(q)
          BY <1>0, <4>3, TableEffect
        <5>2. CASE i # q.id
          BY <3>0, <5>1, <5>2 DEF Updated
        <5>3. CASE i = q.id
          <6>1. q.rows[1].enabled
            BY <1>3, <3>0, <3>1, <4>3, <5>3 DEF update_peer
          <6> QED BY <3>0, <5>1, <5>3, <6>1 DEF Updated
        <5> QED BY <5>2, <5>3
      <4>4. CASE q.op = "delete"
        <5>1. Deleted(q) /\ ~TrunkReferenced(db.tab, <<"peer", q.id>>)
          BY <1>0, <3>1, <4>4, TableEffect DEF delete_peer
        <5>2. i # q.id
          BY <1>3, <3>0, <5>1
        <5> QED BY <3>0, <5>1, <5>2 DEF Deleted
      <4> QED BY <3>1, <4>2, <4>3, <4>4
    <3> QED BY <2>2, <3>2 DEF Stands, RefResolves, i
  <2> QED BY <2>1, <2>2
<1>5. \A n : ExtStands(db.tab, n) => ExtStands(db'.tab, n)
  BY <1>2 DEF ExtStands
<1> QED BY <1>1, <1>2, <1>3, <1>5, ResourcesMove DEF RoutesResolve

\* Registered trunks: one with an account that a route names is not disabled, and one with
\* accounts is not deleted.
LEMMA RegKeepsRoutes ==
  ASSUME DbOK, NEW q, q.table = "reg", RequestOK(q), TableTransaction(q), RoutesResolve
  PROVE  RoutesStand(db'.tab, moved)
<1>0. q.table \in Tables
  BY DEF Tables, Resources
<1>1. Within("reg") /\ IsTables(db.tab)
  BY <1>0, TableEffect DEF DbOK, IsTab
<1>2. db'.tab["ext"] = db.tab["ext"] /\ db'.tab["peer"] = db.tab["peer"]
      /\ db'.tab["account"] = db.tab["account"] /\ \A t \in Routes : db'.tab[t] = db.tab[t]
  BY <1>1 DEF Within, Tables, Resources, Routes
<1>3. ASSUME NEW ref \in Refs, TrunkReferenced(db.tab, ref), Stands(db.tab, ref, moved)
      PROVE  Stands(db'.tab, ref, moved)
  <2>1. CASE ref[1] = "peer" \/ (ref[1] = "reg" /\ ref[3] \in moved)
    BY <1>2, <1>3, <2>1 DEF Stands, RefResolves
  <2>2. CASE ~(ref[1] = "peer" \/ (ref[1] = "reg" /\ ref[3] \in moved))
    <3> DEFINE i == ref[2]
               a == ref[3]
    <3>0. ref = <<"reg", i, a>> /\ i \in DOMAIN db.tab["reg"] /\ db.tab["reg"][i].enabled
          /\ a \in DOMAIN db.tab["account"] /\ db.tab["account"][a].trunk = i /\ db.tab["account"][a].enabled
      BY <1>3, <2>2, RefShape DEF Stands, RefResolves
    <3> HIDE DEF i, a
    <3>1. \/ q.op = "insert" /\ insert_reg_trunk(q)
          \/ q.op = "update" /\ update_reg_trunk(q)
          \/ q.op = "delete" /\ delete_reg_trunk(q)
      BY DEF TableTransaction, OfTable, Routes, Policies
    <3>2. i \in DOMAIN db'.tab["reg"] /\ db'.tab["reg"][i].enabled
      <4>2. CASE q.op = "insert"
        BY <1>0, <3>0, <4>2, TableEffect DEF Inserted
      <4>3. CASE q.op = "update"
        <5>1. Updated(q)
          BY <1>0, <4>3, TableEffect
        <5>2. CASE i # q.id
          BY <3>0, <5>1, <5>2 DEF Updated
        <5>3. CASE i = q.id
          <6>1. a \in AccountsOf(q.id)
            BY <3>0, <5>3 DEF AccountsOf, Row
          <6>2. q.rows[1].enabled
            BY <1>3, <3>0, <3>1, <4>3, <5>3, <6>1 DEF update_reg_trunk
          <6> QED BY <3>0, <5>1, <5>3, <6>2 DEF Updated
        <5> QED BY <5>2, <5>3
      <4>4. CASE q.op = "delete"
        <5>1. Deleted(q) /\ AccountsOf(q.id) = {}
          BY <1>0, <3>1, <4>4, TableEffect DEF delete_reg_trunk
        <5>2. i # q.id
          BY <3>0, <5>1 DEF AccountsOf, Row
        <5> QED BY <3>0, <5>1, <5>2 DEF Deleted
      <4> QED BY <3>1, <4>2, <4>3, <4>4
    <3>3. RefResolves(db'.tab, <<"reg", i, a>>)
      BY <1>2, <3>0, <3>2 DEF RefResolves
    <3> QED BY <3>0, <3>3 DEF Stands
  <2> QED BY <2>1, <2>2
<1>5. \A n : ExtStands(db.tab, n) => ExtStands(db'.tab, n)
  BY <1>2 DEF ExtStands
<1> QED BY <1>1, <1>2, <1>3, <1>5, ResourcesMove DEF RoutesResolve

\* Accounts: one that a route names is not deleted, nor disabled under the trunk it stays
\* with; one that changes its trunk is exempt from then on.
LEMMA AccountKeepsRoutes ==
  ASSUME DbOK, NEW q, q.table = "account", RequestOK(q), TableTransaction(q), RoutesResolve,
         NEW more, moved \subseteq more,
         q.op = "update" /\ q.rows[1].trunk # db.tab["account"][q.id].trunk => q.id \in more
  PROVE  RoutesStand(db'.tab, more)
<1>0. q.table \in Tables
  BY DEF Tables, Resources
<1>1. Within("account") /\ IsTables(db.tab)
  BY <1>0, TableEffect DEF DbOK, IsTab
<1>2. db'.tab["ext"] = db.tab["ext"] /\ db'.tab["peer"] = db.tab["peer"]
      /\ db'.tab["reg"] = db.tab["reg"] /\ \A t \in Routes : db'.tab[t] = db.tab[t]
  BY <1>1 DEF Within, Tables, Resources, Routes
<1>3. ASSUME NEW ref \in Refs, TrunkReferenced(db.tab, ref), Stands(db.tab, ref, moved)
      PROVE  Stands(db'.tab, ref, more)
  <2>1. CASE ref[1] = "peer" \/ (ref[1] = "reg" /\ ref[3] \in more)
    BY <1>2, <1>3, <2>1 DEF Stands, RefResolves
  <2>2. CASE ~(ref[1] = "peer" \/ (ref[1] = "reg" /\ ref[3] \in more))
    <3> DEFINE i == ref[2]
               a == ref[3]
    <3>0. ref = <<"reg", i, a>> /\ i \in DOMAIN db.tab["reg"] /\ db.tab["reg"][i].enabled
          /\ a \in DOMAIN db.tab["account"] /\ db.tab["account"][a].trunk = i /\ db.tab["account"][a].enabled
          /\ a \notin more
      BY <1>3, <2>2, RefShape DEF Stands, RefResolves
    <3> HIDE DEF i, a
    <3>1. \/ q.op = "insert" /\ insert_reg_account(q)
          \/ q.op = "update" /\ update_reg_account(q)
          \/ q.op = "delete" /\ delete_reg_account(q)
      BY DEF TableTransaction, OfTable, Routes, Policies
    <3>2. a \in DOMAIN db'.tab["account"] /\ db'.tab["account"][a].trunk = i /\ db'.tab["account"][a].enabled
      <4>2. CASE q.op = "insert"
        BY <1>0, <3>0, <4>2, TableEffect DEF Inserted
      <4>3. CASE q.op = "update"
        <5>1. Updated(q)
          BY <1>0, <4>3, TableEffect
        <5>2. CASE a # q.id
          BY <3>0, <5>1, <5>2 DEF Updated
        <5>3. CASE a = q.id
          <6>1. q.rows[1].trunk = i
            BY <3>0, <4>3, <5>3
          <6>2. q.rows[1].enabled
            BY <1>3, <3>0, <3>1, <4>3, <5>3, <6>1 DEF update_reg_account
          <6> QED BY <3>0, <5>1, <5>3, <6>1, <6>2 DEF Updated
        <5> QED BY <5>2, <5>3
      <4>4. CASE q.op = "delete"
        <5>1. Deleted(q) /\ ~TrunkReferenced(db.tab, <<"reg", db.tab["account"][q.id].trunk, q.id>>)
          BY <1>0, <3>1, <4>4, TableEffect DEF delete_reg_account, Row
        <5>2. a # q.id
          BY <1>3, <3>0, <5>1
        <5> QED BY <3>0, <5>1, <5>2 DEF Deleted
      <4> QED BY <3>1, <4>2, <4>3, <4>4
    <3>3. RefResolves(db'.tab, <<"reg", i, a>>)
      BY <1>2, <3>0, <3>2 DEF RefResolves
    <3> QED BY <3>0, <3>3 DEF Stands
  <2> QED BY <2>1, <2>2
<1>5. \A n : ExtStands(db.tab, n) => ExtStands(db'.tab, n)
  BY <1>2 DEF ExtStands
<1> QED BY <1>1, <1>2, <1>3, <1>5, ResourcesMove DEF RoutesResolve

\* Routes: the rows a transaction writes were validated on the tables it writes them to.
LEMMA RouteKeepsRoutes ==
  ASSUME DbOK, NEW q, q.table \in Routes, RequestOK(q), TableTransaction(q), RoutesResolve
  PROVE  RoutesStand(db'.tab, moved)
<1>0. q.table \in Tables
  BY DEF Tables
<1>1. Within(q.table)
  BY <1>0, TableEffect
<1>2. \A t \in Resources : db'.tab[t] = db.tab[t]
  BY <1>1 DEF Within, Tables, Resources, Routes
<1>3. EachStands(db.tab, moved)
  BY RouteByRoute DEF RoutesResolve
<1>4. ASSUME q.table = "outbound", q.op \in {"insert", "update"}, NEW k \in DOMAIN q.rows, NEW ref \in q.rows[k].refs
      PROVE  RefResolves(db.tab, ref)
  <2>1. \/ q.op = "insert" /\ insert_outbound(q)
        \/ q.op = "update" /\ update_outbound(q)
    BY <1>4 DEF TableTransaction, OfTable, Routes, Policies
  <2>2. CASE q.op = "insert"
    BY <1>4, <2>1, <2>2 DEF insert_outbound, validate_trunk_refs
  <2>3. CASE q.op = "update"
    <3>1. k = 1
      BY <1>0, <1>4, <2>3 DEF RequestOK
    <3> QED BY <1>4, <2>1, <2>3, <3>1 DEF update_outbound, validate_trunk_refs
  <2> QED BY <2>1, <2>2, <2>3
<1>5. ASSUME q.table = "inbound", q.op \in {"insert", "update"}, NEW k \in DOMAIN q.rows
      PROVE  validate_inbound_references(db.tab, q.rows[k])
  <2>1. \/ q.op = "insert" /\ insert_inbound(q)
        \/ q.op = "update" /\ update_inbound(q)
    BY <1>5 DEF TableTransaction, OfTable, Routes, Policies
  <2>2. CASE q.op = "insert"
    BY <1>5, <2>1, <2>2 DEF insert_inbound
  <2>3. CASE q.op = "update"
    <3>1. k = 1
      BY <1>0, <1>5, <2>3 DEF RequestOK
    <3> QED BY <1>5, <2>1, <2>3, <3>1 DEF update_inbound
  <2> QED BY <2>1, <2>2, <2>3
<1>6. ASSUME NEW i \in DOMAIN db'.tab["outbound"], NEW ref \in db'.tab["outbound"][i].refs, ref # Every
      PROVE  Stands(db.tab, ref, moved)
  <2>1. CASE i \in DOMAIN db.tab["outbound"] /\ db'.tab["outbound"][i] = db.tab["outbound"][i]
    BY <1>3, <1>6, <2>1 DEF EachStands
  <2>2. CASE ~(i \in DOMAIN db.tab["outbound"] /\ db'.tab["outbound"][i] = db.tab["outbound"][i])
    <3>1. q.table = "outbound"
      BY <1>1, <1>6, <2>2 DEF Within, Tables, Routes
    <3>2. PICK k \in DOMAIN q.rows : q.op \in {"insert", "update"} /\ db'.tab["outbound"][i] = q.rows[k]
      BY <1>0, <2>2, <3>1, TableRows
    <3> QED BY <1>4, <1>6, <3>1, <3>2 DEF Stands
  <2> QED BY <2>1, <2>2
<1>7. ASSUME NEW i \in DOMAIN db'.tab["inbound"]
      PROVE  /\ db'.tab["inbound"][i].match # Every => Stands(db.tab, db'.tab["inbound"][i].match, moved)
             /\ ExtStands(db.tab, db'.tab["inbound"][i].target)
  <2>1. CASE i \in DOMAIN db.tab["inbound"] /\ db'.tab["inbound"][i] = db.tab["inbound"][i]
    BY <1>3, <1>7, <2>1 DEF EachStands
  <2>2. CASE ~(i \in DOMAIN db.tab["inbound"] /\ db'.tab["inbound"][i] = db.tab["inbound"][i])
    <3>1. q.table = "inbound"
      BY <1>1, <1>7, <2>2 DEF Within, Tables, Routes
    <3>2. PICK k \in DOMAIN q.rows : q.op \in {"insert", "update"} /\ db'.tab["inbound"][i] = q.rows[k]
      BY <1>0, <2>2, <3>1, TableRows
    <3>3. validate_inbound_references(db.tab, db'.tab["inbound"][i])
      BY <1>5, <3>1, <3>2
    <3> QED BY <3>3 DEF Stands, ExtStands, validate_inbound_references, validate_trunk_refs
  <2> QED BY <2>1, <2>2
<1>8. EachStands(db'.tab, moved)
  <2>1. \A ref : Stands(db.tab, ref, moved) => Stands(db'.tab, ref, moved)
    BY <1>2, StandsByResources
  <2>2. \A n : ExtStands(db.tab, n) => ExtStands(db'.tab, n)
    BY <1>2, StandsByResources
  <2> QED BY <1>6, <1>7, <2>1, <2>2 DEF EachStands
<1> QED BY <1>8, RouteByRoute

\* A transaction on any table leaves every route with what it names.
LEMMA TableKeepsRoutes ==
  ASSUME DbOK, NEW q, q.table \in Tables, RequestOK(q), TableTransaction(q), RoutesResolve,
         NEW more, moved \subseteq more,
         q.table = "account" /\ q.op = "update"
           /\ q.rows[1].trunk # db.tab["account"][q.id].trunk => q.id \in more
  PROVE  RoutesStand(db'.tab, more)
<1>1. CASE q.table = "account"
  BY <1>1, AccountKeepsRoutes
<1>2. CASE q.table # "account"
  <2>1. RoutesStand(db'.tab, moved)
    <3>1. CASE q.table \in Resources
      BY <1>2, <3>1, ExtKeepsRoutes, PeerKeepsRoutes, RegKeepsRoutes DEF Resources
    <3>2. CASE q.table \in Routes
      BY <3>2, RouteKeepsRoutes
    <3>3. CASE q.table \notin Resources \cup Routes
      <4>1. \A t \in Resources \cup Routes : db'.tab[t] = db.tab[t]
        BY <3>3, TableEffect DEF Within, Tables
      <4>2. db'.tab["outbound"] = db.tab["outbound"] /\ db'.tab["inbound"] = db.tab["inbound"]
        BY <4>1 DEF Routes
      <4>3. EachStands(db.tab, moved)
        BY RouteByRoute DEF RoutesResolve
      <4>4. /\ \A ref : Stands(db'.tab, ref, moved) = Stands(db.tab, ref, moved)
            /\ \A n : ExtStands(db'.tab, n) = ExtStands(db.tab, n)
        BY <4>1, StandsByResources
      <4>5. EachStands(db'.tab, moved)
        BY <4>2, <4>3, <4>4 DEF EachStands
      <4> QED BY <4>5, RouteByRoute
    <3> QED BY <3>1, <3>2, <3>3
  <2>2. \A ref : Stands(db'.tab, ref, moved) => Stands(db'.tab, ref, more)
    BY DEF Stands
  <2>3. EachStands(db'.tab, more)
    <3>1. EachStands(db'.tab, moved)
      BY <2>1, RouteByRoute
    <3> QED BY <2>2, <3>1 DEF EachStands
  <2> QED BY <2>3, RouteByRoute
<1> QED BY <1>1, <1>2

----------------------------------------------------------------------------
(* What the handlers let through *)

\* An insert carries a batch of the rows its handler accepts.
LEMMA InsertsOK ==
  ASSUME NEW t, NEW rows, NEW q \in Inserts(t, rows)
  PROVE  /\ q.table = t /\ q.op = "insert" /\ q.rows \in Seq(rows)
         /\ Len(q.rows) \in 1 .. MaxBatch
<1>0. MaxBatch \in Nat /\ MaxBatch >= 1
  BY ConfigAssumption
<1>1. ASSUME NEW r \in rows, q = Request(t, "insert", 0, <<r>>)
      PROVE  /\ q.table = t /\ q.op = "insert" /\ q.rows \in Seq(rows)
             /\ Len(q.rows) \in 1 .. MaxBatch
  <2>1. q.rows = <<r>> /\ q.table = t /\ q.op = "insert"
    BY <1>1 DEF Request
  <2>2. <<r>> \in Seq(rows) /\ Len(<<r>>) = 1
    OBVIOUS
  <2> QED BY <1>0, <2>1, <2>2
<1>2. ASSUME NEW b \in rows \X rows, q = Request(t, "insert", 0, b), ~(MaxBatch < 2)
      PROVE  /\ q.table = t /\ q.op = "insert" /\ q.rows \in Seq(rows)
             /\ Len(q.rows) \in 1 .. MaxBatch
  <2>1. q.rows = b /\ q.table = t /\ q.op = "insert"
    BY <1>2 DEF Request
  <2>2. PICK x \in rows, y \in rows : b = <<x, y>>
    OBVIOUS
  <2>3. <<x, y>> \in Seq(rows) /\ Len(<<x, y>>) = 2
    OBVIOUS
  <2>4. q.rows \in Seq(rows) /\ Len(q.rows) = 2
    BY ONLY <2>1, <2>2, <2>3, Zenon
  <2>5. 2 \in 1 .. MaxBatch
    BY <1>0, <1>2
  <2> QED BY <2>1, <2>4, <2>5
<1>3. \/ \E r \in rows : q = Request(t, "insert", 0, <<r>>)
      \/ ~(MaxBatch < 2) /\ \E b \in rows \X rows : q = Request(t, "insert", 0, b)
  BY DEF Inserts
<1> QED BY <1>1, <1>2, <1>3

\* An update carries one of them.
LEMMA UpdatesOK ==
  ASSUME NEW t, NEW s, NEW rows, NEW q \in Updates(t, s, rows)
  PROVE  /\ q.table = t /\ q.op = "update" /\ q.rows \in Seq(rows)
         /\ Len(q.rows) = 1 /\ Len(q.rows) \in 1 .. MaxBatch
<1>0. MaxBatch \in Nat /\ MaxBatch >= 1
  BY ConfigAssumption
<1>1. PICK id \in DOMAIN s.tab[t] :
        \E r \in {r \in rows : Cardinality({f \in DOMAIN r : r[f] # s.tab[t][id][f]}) <= 1} :
          q = Request(t, "update", id, <<r>>)
  BY Zenon DEF Updates
<1>2. PICK r \in rows : q = Request(t, "update", id, <<r>>)
  BY <1>1
<1>3. q.rows = <<r>> /\ q.table = t /\ q.op = "update"
  BY <1>2 DEF Request
<1>4. <<r>> \in Seq(rows) /\ Len(<<r>>) = 1
  OBVIOUS
<1> QED BY <1>0, <1>3, <1>4

\* A delete carries the id of a row its handler lets go.
LEMMA DeletesOK ==
  ASSUME NEW t, NEW ids, NEW q \in Deletes(t, ids)
  PROVE  q.table = t /\ q.op = "delete" /\ q.id \in ids
BY DEF Deletes, Request

\* The rows of the handlers are rows of their tables.
LEMMA RowsOK ==
  ASSUME SnapOK
  PROVE  /\ reg_account_from_set(snap.tab) \subseteq Rows("account")
         /\ inbound_from_set(snap.tab) \subseteq Rows("inbound")
         /\ outbound_from_set(snap.tab) \subseteq Rows("outbound")
         /\ \A t \in Policies : policy_from_set(snap.tab) \subseteq Rows(t)
         /\ Rows("ext") = [number : Numbers, enabled : BOOLEAN]
         /\ Rows("peer") = [enabled : BOOLEAN] /\ Rows("reg") = [enabled : BOOLEAN]
         /\ Rows("agent") = [number : Numbers]
<1>0. IsTab(snap.tab)
  BY DEF SnapOK
<1>1. Rows("ext") = ExtRow /\ Rows("peer") = PeerRow /\ Rows("reg") = PeerRow
      /\ Rows("account") = AccountRow /\ Rows("inbound") = InboundRow /\ Rows("outbound") = OutboundRow
      /\ Rows("recording") = PolicyRow /\ Rows("ai_policy") = PolicyRow /\ Rows("agent") = AgentRow
  BY DEF Rows, Policies
<1>2. \A i \in DOMAIN snap.tab["ext"] : snap.tab["ext"][i] \in ExtRow
  BY <1>0, <1>1 DEF IsTab, IsTables, Tables, Resources
<1>3. \A i \in DOMAIN snap.tab["account"] : snap.tab["account"][i] \in AccountRow
  BY <1>0, <1>1 DEF IsTab, IsTables, Tables, Resources
<1>4. DOMAIN snap.tab["ext"] \subseteq Ids /\ DOMAIN snap.tab["peer"] \subseteq Ids
      /\ DOMAIN snap.tab["reg"] \subseteq Ids /\ DOMAIN snap.tab["account"] \subseteq Ids
  BY <1>0 DEF IsTab, Tables, Resources
<1>5. KnownRefs(snap.tab) \subseteq Refs
  BY <1>3, <1>4 DEF KnownRefs, Refs, AccountRow
<1>6. KnownTargets(snap.tab) \subseteq Targets
  <2> SUFFICES ASSUME NEW t \in {"ext", "peer", "reg"}, NEW i \in DOMAIN snap.tab[t]
               PROVE  <<t, i>> \in Targets
    BY DEF KnownTargets
  <2> QED BY <1>4 DEF Targets
<1>7. {snap.tab["ext"][i].number : i \in DOMAIN snap.tab["ext"]} \subseteq Numbers
  BY <1>2 DEF ExtRow
<1>8. reg_account_from_set(snap.tab) \subseteq AccountRow
  BY <1>4 DEF reg_account_from_set, AccountRow
<1>9. inbound_from_set(snap.tab) \subseteq InboundRow
  BY <1>5, <1>7 DEF inbound_from_set, InboundRow
<1>10. outbound_from_set(snap.tab) \subseteq OutboundRow
  BY <1>5 DEF outbound_from_set, OutboundRow, SmallSets
<1>11. policy_from_set(snap.tab) \subseteq PolicyRow
  BY <1>6 DEF policy_from_set, PolicyRow, SmallSets
<1> QED BY <1>1, <1>8, <1>9, <1>10, <1>11 DEF Policies, ExtRow, PeerRow, AgentRow

\* A request that a handler let through is typed, and passed the checks on the snapshot that
\* its transaction does not repeat.
LEMMA RequestsChecked ==
  ASSUME SnapOK, NEW q \in Requests(snap)
  PROVE  RequestOK(q) /\ CheckedOK(q)
<1>1. ASSUME NEW t \in Tables, NEW rows \in SUBSET Rows(t), q \in Inserts(t, rows) \cup Updates(t, snap, rows)
      PROVE  /\ RequestOK(q) /\ q.table = t /\ q.op \in {"insert", "update"}
             /\ q.rows \in Seq(rows)
  <2>1. /\ q.table = t /\ q.op \in {"insert", "update"} /\ q.rows \in Seq(rows)
        /\ Len(q.rows) \in 1 .. MaxBatch /\ (q.op = "update" => Len(q.rows) = 1)
    BY <1>1, InsertsOK, UpdatesOK
  <2>2. Seq(rows) \subseteq Seq(Rows(t))
    OBVIOUS
  <2>3. t # "setting"
    BY DEF Tables, Resources, Routes, Policies
  <2> QED BY <2>1, <2>2, <2>3 DEF RequestOK
<1>2. ASSUME NEW t \in Tables, NEW ids, q \in Deletes(t, ids)
      PROVE  RequestOK(q) /\ q.table = t /\ q.op = "delete" /\ q.id \in ids
  <2>1. q.table = t /\ q.op = "delete" /\ q.id \in ids
    BY <1>2, DeletesOK
  <2>2. t # "setting"
    BY DEF Tables, Resources, Routes, Policies
  <2> QED BY <2>1, <2>2 DEF RequestOK
<1>3. ASSUME NEW t \in {"ext", "peer", "reg"},
             \/ q \in Inserts(t, Rows(t)) \cup Updates(t, snap, Rows(t))
             \/ q \in Deletes(t, NotTargeted(t, snap))
      PROVE  RequestOK(q) /\ CheckedOK(q)
  <2>1. t \in Tables /\ Rows(t) \in SUBSET Rows(t)
    BY DEF Tables, Resources
  <2>2. CASE q \in Inserts(t, Rows(t)) \cup Updates(t, snap, Rows(t))
    <3>1. RequestOK(q) /\ q.table = t /\ q.op \in {"insert", "update"}
      BY <1>1, <2>1, <2>2
    <3> QED BY <3>1 DEF CheckedOK, Policies
  <2>3. CASE q \in Deletes(t, NotTargeted(t, snap))
    <3>1. RequestOK(q) /\ q.table = t /\ q.op = "delete" /\ q.id \in NotTargeted(t, snap)
      BY <1>2, <2>1, <2>3
    <3> QED BY <3>1 DEF CheckedOK, Policies, NotTargeted
  <2> QED BY <1>3, <2>2, <2>3
<1>4. CASE q \in ExtensionHandle(snap) \cup PeerTrunkHandle(snap) \cup RegTrunkHandle(snap)
  <2>1. \E t \in {"ext", "peer", "reg"} :
          \/ q \in Inserts(t, Rows(t)) \cup Updates(t, snap, Rows(t))
          \/ q \in Deletes(t, NotTargeted(t, snap))
    BY <1>4, RowsOK DEF ExtensionHandle, PeerTrunkHandle, RegTrunkHandle, peer_from_set,
       reg_trunk_from_set
  <2> QED BY <1>3, <2>1
<1>6. ASSUME NEW t \in {"account", "inbound", "outbound", "agent"}, NEW rows \in SUBSET Rows(t),
             \/ q \in Inserts(t, rows) \cup Updates(t, snap, rows)
             \/ q \in Deletes(t, Ids)
      PROVE  RequestOK(q) /\ CheckedOK(q)
  <2>1. t \in Tables
    BY DEF Tables, Resources, Routes
  <2>2. RequestOK(q) /\ q.table = t
    BY <1>1, <1>2, <1>6, <2>1
  <2> QED BY <2>2 DEF CheckedOK, Policies
<1>7. CASE q \in RegAccountHandle(snap)
  BY <1>6, <1>7, RowsOK DEF RegAccountHandle
<1>8. CASE q \in InboundRouteHandle(snap)
  <2> DEFINE rows == {r \in inbound_from_set(snap.tab) : validate_inbound_references(snap.tab, r)}
  <2>1. rows \in SUBSET Rows("inbound")
    BY RowsOK
  <2> QED BY <1>6, <1>8, <2>1 DEF InboundRouteHandle
<1>9. CASE q \in OutboundRouteHandle(snap)
  <2> DEFINE rows == {r \in outbound_from_set(snap.tab) : validate_trunk_refs(snap.tab, r.refs)}
  <2>1. rows \in SUBSET Rows("outbound")
    BY RowsOK
  <2> QED BY <1>6, <1>9, <2>1 DEF OutboundRouteHandle
<1>10. ASSUME NEW t \in Policies, q \in PolicyHandle(t, snap) PROVE RequestOK(q) /\ CheckedOK(q)
  <2> DEFINE rows == {r \in policy_from_set(snap.tab) : validate_targets(snap.tab, r)}
  <2>1. rows \in SUBSET Rows(t) /\ t \in Tables
    BY RowsOK DEF Tables
  <2>2. \A r \in rows : \A tg \in r.targets : tg[2] \in DOMAIN snap.tab[tg[1]]
    BY DEF validate_targets
  <2>3. q \in Inserts(t, rows) \cup Updates(t, snap, rows) \/ q \in Deletes(t, Ids)
    BY <1>10 DEF PolicyHandle
  <2> HIDE DEF rows
  <2>4. CASE q \in Inserts(t, rows) \cup Updates(t, snap, rows)
    <3>1. RequestOK(q) /\ q.table = t /\ q.op \in {"insert", "update"} /\ q.rows \in Seq(rows)
      BY <1>1, <2>1, <2>4
    <3>2. \A k \in DOMAIN q.rows : q.rows[k] \in rows
      BY <3>1
    <3> QED BY <2>2, <3>1, <3>2 DEF CheckedOK, Policies
  <2>5. CASE q \in Deletes(t, Ids)
    <3>1. RequestOK(q) /\ q.table = t /\ q.op = "delete"
      BY <1>2, <2>1, <2>5
    <3> QED BY <3>1 DEF CheckedOK, Policies
  <2> QED BY <2>3, <2>4, <2>5
<1>11. CASE q \in AiAgentHandle(snap)
  <2>1. Rows("agent") \in SUBSET Rows("agent") /\ agent_from_set = Rows("agent")
    BY RowsOK DEF agent_from_set
  <2> QED BY <1>6, <1>11, <2>1 DEF AiAgentHandle
<1>12. CASE q \in DomainHandle(snap)
  <2>1. q.table = "domain"
    BY <1>12 DEF DomainHandle, Request
  <2> QED BY <2>1 DEF RequestOK, CheckedOK, Tables, Resources, Routes, Policies
<1>13. CASE q \in GlobalSettingHandle(snap)
  <2>1. PICK r \in Setting : /\ q = Request("setting", "update", 0, <<r>>)
                             /\ r.key # "trace" => validate_cdr_spool_limits([snap.limits EXCEPT ![r.key] = r.value])
    BY <1>13 DEF GlobalSettingHandle, Setting
  <2>2. q.table = "setting" /\ q.rows = <<r>>
    BY <2>1 DEF Request
  <2> QED BY <2>1, <2>2 DEF RequestOK, CheckedOK, Tables, Resources, Routes, Policies
<1> QED BY <1>4, <1>7, <1>8, <1>9, <1>10, <1>11, <1>12, <1>13
        DEF Requests, RecordingPolicyHandle, AiPolicyHandle, Policies

----------------------------------------------------------------------------
(* Loads *)

IsSnapshot(s) == s \in Snapshot(s.tab) /\ IsTab(s.tab)

\* Tables are functions on the names of tables.
LEMMA TabFunction ==
  ASSUME NEW tab
  PROVE  IsTab(tab) <=>
           /\ tab = [t \in Tables |-> tab[t]]
           /\ \A t \in Tables : /\ DOMAIN tab[t] \subseteq Ids
                                /\ \A i \in DOMAIN tab[t] : tab[t][i] \in Rows(t)
<1>1. (tab \in [Tables -> {tab[t] : t \in Tables}]) <=> tab = [t \in Tables |-> tab[t]]
  OBVIOUS
<1> QED BY <1>1 DEF IsTab, IsTables

\* Empty tables are tables.
LEMMA EmptyTabsOK == IsTab(EmptyTabs)
<1>1. \A t \in Tables : DOMAIN EmptyTabs[t] = {}
  BY DEF EmptyTabs
<1>2. EmptyTabs = [t \in Tables |-> EmptyTabs[t]]
  BY DEF EmptyTabs
<1> QED BY <1>1, <1>2, TabFunction

\* Choosing each table from one of two databases gives tables.
LEMMA MixedTabs ==
  ASSUME NEW a, NEW b, IsTab(a), IsTab(b)
  PROVE  IsTab([t \in Tables |-> IF t \in Resources THEN a[t] ELSE b[t]])
<1> DEFINE m == [t \in Tables |-> IF t \in Resources THEN a[t] ELSE b[t]]
<1>1. \A t \in Tables : m[t] = a[t] \/ m[t] = b[t]
  OBVIOUS
<1>2. m = [t \in Tables |-> m[t]]
  OBVIOUS
<1> HIDE DEF m
<1>3. \A t \in Tables : /\ DOMAIN m[t] \subseteq Ids
                        /\ \A i \in DOMAIN m[t] : m[t][i] \in Rows(t)
  BY <1>1, TabFunction
<1>4. IsTab(m)
  BY <1>2, <1>3, TabFunction
<1> QED BY <1>4 DEF m

\* The version that is the larger of two is a version.
LEMMA Max2OK ==
  ASSUME NEW a \in Nat, NEW b \in Nat
  PROVE  Max2(a, b) \in Nat
BY DEF Max2

\* A complete load is a snapshot of the database.
LEMMA LoadedOK ==
  ASSUME DbOK
  PROVE  IsSnapshot(Loaded(db)) /\ Same(Loaded(db), db)
<1>1. db \in Database(db.tab) /\ IsTab(db.tab)
  BY DEF DbOK
<1>2. IsTab(Loaded(db).tab)
  BY <1>1, EmptyTabsOK DEF Loaded
<1>3. Loaded(db).version \in Nat
  <2>1. Max2(db.version, db.rowVersion) \in Nat
    BY <1>1, Max2OK DEF Database
  <2> QED BY <2>1 DEF Loaded
<1>4. Loaded(db) \in Snapshot(Loaded(db).tab)
  <2>1. Loaded(db).domain = db.domain /\ Loaded(db).limits = db.limits /\ Loaded(db).trace = db.trace
    BY DEF Loaded
  <2>2. Loaded(db) = [domain |-> Loaded(db).domain, limits |-> Loaded(db).limits,
                      trace |-> Loaded(db).trace, tab |-> Loaded(db).tab, version |-> Loaded(db).version]
    BY DEF Loaded
  <2> QED BY <1>1, <1>3, <2>1, <2>2 DEF Snapshot, Database
<1>5. Same(Loaded(db), db)
  BY DEF Same, Loaded
<1> QED BY <1>2, <1>4, <1>5 DEF IsSnapshot

\* The first half of a load is a snapshot with the resources only.
LEMMA LoadResourcesOK ==
  ASSUME DbOK
  PROVE  /\ IsSnapshot(LoadResources(db))
         /\ LoadResources(db).domain = db.domain /\ LoadResources(db).limits = db.limits
         /\ LoadResources(db).trace = db.trace
         /\ LoadResources(db).tab = [t \in Tables |-> IF t \in Resources THEN Loaded(db).tab[t] ELSE EmptyTabs[t]]
<1> DEFINE l == Loaded(db)
           m == [t \in Tables |-> IF t \in Resources THEN l.tab[t] ELSE EmptyTabs[t]]
<1>1. IsSnapshot(l) /\ Same(l, db)
  BY LoadedOK
<1>2. LoadResources(db) = [l EXCEPT !.tab = m]
  BY DEF LoadResources
<1>3. IsTab(m)
  BY <1>1, EmptyTabsOK, MixedTabs DEF IsSnapshot
<1> HIDE DEF l, m
<1>4. l \in Snapshot(l.tab)
  BY <1>1 DEF IsSnapshot
<1>5. LoadResources(db).tab = m /\ LoadResources(db).domain = l.domain
      /\ LoadResources(db).limits = l.limits /\ LoadResources(db).trace = l.trace
  BY <1>2, <1>4 DEF Snapshot
<1>6. LoadResources(db) \in Snapshot(m)
  BY <1>2, <1>4 DEF Snapshot
<1> QED BY <1>1, <1>3, <1>5, <1>6 DEF IsSnapshot, Same, m, l

\* The second half adds the other tables.
LEMMA LoadReferrersOK ==
  ASSUME DbOK, NEW h, IsSnapshot(h)
  PROVE  /\ IsSnapshot(LoadReferrers(db, h))
         /\ LoadReferrers(db, h).domain = h.domain /\ LoadReferrers(db, h).limits = h.limits
         /\ LoadReferrers(db, h).trace = h.trace
         /\ LoadReferrers(db, h).tab =
              IF h.domain = "absent" THEN h.tab
              ELSE [t \in Tables |-> IF t \in Resources THEN h.tab[t] ELSE db.tab[t]]
<1> DEFINE m == [t \in Tables |-> IF t \in Resources THEN h.tab[t] ELSE db.tab[t]]
           v == Max2(db.version, h.version)
<1>1. CASE h.domain = "absent"
  BY <1>1 DEF LoadReferrers
<1>2. CASE h.domain # "absent"
  <2>1. LoadReferrers(db, h) = [h EXCEPT !.tab = m, !.version = v]
    BY <1>2 DEF LoadReferrers
  <2>2. IsTab(m)
    BY MixedTabs DEF IsSnapshot, DbOK
  <2>3. v \in Nat
    <3>1. db.version \in Nat /\ h.version \in Nat
      BY DEF DbOK, Database, IsSnapshot, Snapshot
    <3> QED BY <3>1, Max2OK
  <2> HIDE DEF m, v
  <2>4. h \in Snapshot(h.tab)
    BY DEF IsSnapshot
  <2>5. LoadReferrers(db, h).tab = m /\ LoadReferrers(db, h).domain = h.domain
        /\ LoadReferrers(db, h).limits = h.limits /\ LoadReferrers(db, h).trace = h.trace
    BY <2>1, <2>4 DEF Snapshot
  <2>6. LoadReferrers(db, h) \in Snapshot(m)
    BY <2>1, <2>3, <2>4 DEF Snapshot
  <2> QED BY <1>2, <2>2, <2>5, <2>6 DEF IsSnapshot, m
<1> QED BY <1>1, <1>2

\* Both halves, with no commit between them, give what is in the database.
LEMMA WholeLoad ==
  ASSUME DbOK
  PROVE  Same(LoadReferrers(db, LoadResources(db)), db)
<1> DEFINE h == LoadResources(db)
           r == LoadReferrers(db, h)
<1>1. IsSnapshot(h) /\ h.domain = db.domain /\ h.limits = db.limits /\ h.trace = db.trace
      /\ h.tab = [t \in Tables |-> IF t \in Resources THEN Loaded(db).tab[t] ELSE EmptyTabs[t]]
  BY LoadResourcesOK
<1> HIDE DEF h
<1>2. r.domain = h.domain /\ r.limits = h.limits /\ r.trace = h.trace
      /\ r.tab = IF h.domain = "absent" THEN h.tab
                 ELSE [t \in Tables |-> IF t \in Resources THEN h.tab[t] ELSE db.tab[t]]
  BY <1>1, LoadReferrersOK
<1> HIDE DEF r
<1>3. r.tab = Loaded(db).tab
  <2>1. CASE db.domain = "absent"
    <3>1. Loaded(db).tab = EmptyTabs
      BY <2>1 DEF Loaded
    <3>2. [t \in Tables |-> IF t \in Resources THEN EmptyTabs[t] ELSE EmptyTabs[t]] = EmptyTabs
      BY DEF EmptyTabs
    <3> QED BY <1>1, <1>2, <2>1, <3>1, <3>2
  <2>2. CASE db.domain # "absent"
    <3>1. Loaded(db).tab = db.tab
      BY <2>2 DEF Loaded
    <3>2. r.tab = [t \in Tables |-> db.tab[t]]
      BY <1>1, <1>2, <2>2, <3>1
    <3>3. db.tab = [t \in Tables |-> db.tab[t]]
      BY TabFunction DEF DbOK
    <3> QED BY <3>1, <3>2, <3>3
  <2> QED BY <2>1, <2>2
<1>4. Same(r, db)
  BY <1>1, <1>2, <1>3 DEF Same
<1> QED BY <1>4 DEF r, h

\* A load that drops the domain is a snapshot without tables.
LEMMA DroppedOK ==
  ASSUME NEW h, IsSnapshot(h)
  PROVE  IsSnapshot(DroppedDomain(h))
<1> DEFINE e == EmptyTabs
<1>1. DroppedDomain(h) = [h EXCEPT !.domain = "absent", !.tab = e, !.version = 1]
  BY DEF DroppedDomain
<1>2. IsTab(e)
  BY EmptyTabsOK
<1> HIDE DEF e
<1>3. h \in Snapshot(h.tab)
  BY DEF IsSnapshot
<1>4. DroppedDomain(h).tab = e
  BY <1>1, <1>3 DEF Snapshot
<1>5. DroppedDomain(h) \in Snapshot(e)
  <2>1. DroppedDomain(h) = [domain |-> "absent", version |-> 1, trace |-> h.trace, limits |-> h.limits, tab |-> e]
    BY <1>1, <1>3 DEF Snapshot
  <2>2. h.trace \in BOOLEAN /\ h.limits \in [LimitNames -> Limits] /\ 1 \in Nat
    BY <1>3 DEF Snapshot
  <2> QED BY <2>1, <2>2 DEF Snapshot
<1> QED BY <1>2, <1>4, <1>5 DEF IsSnapshot

\* Replacing the snapshot takes over everything but the version.
LEMMA ReplacedOK ==
  ASSUME NEW s, NEW l, IsSnapshot(s), IsSnapshot(l)
  PROVE  /\ IsSnapshot(Replaced(s, l))
         /\ Replaced(s, l).domain = l.domain /\ Replaced(s, l).limits = l.limits
         /\ Replaced(s, l).trace = l.trace /\ Replaced(s, l).tab = l.tab
<1> DEFINE v == Max2(l.version, s.version + 1)
<1>1. Replaced(s, l) = [l EXCEPT !.version = v]
  BY DEF Replaced
<1>2. v \in Nat
  <2>1. l.version \in Nat /\ s.version + 1 \in Nat
    BY DEF IsSnapshot, Snapshot
  <2> QED BY <2>1, Max2OK
<1> HIDE DEF v
<1>3. l \in Snapshot(l.tab)
  BY DEF IsSnapshot
<1>4. Replaced(s, l) \in Snapshot(l.tab) /\ Replaced(s, l).tab = l.tab
      /\ Replaced(s, l).domain = l.domain /\ Replaced(s, l).limits = l.limits
      /\ Replaced(s, l).trace = l.trace
  BY <1>1, <1>2, <1>3 DEF Snapshot
<1> QED BY <1>4 DEF IsSnapshot

----------------------------------------------------------------------------
(* Commands and ids *)

\* Only the command of connection c changes.
Moves(c) == DOMAIN cmd' = Clients /\ \A d \in Clients \ {c} : cmd'[d] = cmd[d]

CommandOK(k) ==
  /\ k \in Command(k.q, k.load)
  /\ k.phase # "idle" => RequestOK(k.q)
  /\ k.phase \in {"loading", "loaded", "replaced"} => IsSnapshot(k.load)

\* The commands are in order when each of them is.
LEMMA CmdEach ==
  /\ CmdOK <=> DOMAIN cmd = Clients /\ \A c \in Clients : CommandOK(cmd[c])
  /\ CmdOK' <=> DOMAIN cmd' = Clients /\ \A c \in Clients : CommandOK(cmd'[c])
BY DEF CmdOK, CommandOK, Busy, IsSnapshot

\* One command that moves and stays in order leaves all of them in order.
LEMMA CmdMoves ==
  ASSUME CmdOK, NEW c \in Clients, Moves(c), CommandOK(cmd'[c])
  PROVE  CmdOK'
<1>1. ASSUME NEW d \in Clients PROVE CommandOK(cmd'[d])
  <2>1. CASE d = c
    BY <2>1
  <2>2. CASE d # c
    <3>1. cmd'[d] = cmd[d] /\ CommandOK(cmd[d])
      BY <2>2, CmdEach DEF Moves
    <3> QED BY <3>1
  <2> QED BY <2>1, <2>2
<1> QED BY <1>1, CmdEach DEF Moves

\* A free connection is in order.
LEMMA IdleOK == CommandOK(Idle) /\ Idle.phase = "idle" /\ Idle.alone = TRUE
BY DEF Idle, CommandOK, Command, Phases

\* There are finitely many pending commands.
LEMMA PendingCount ==
  /\ IsFiniteSet(Pending) /\ Cardinality(Pending) \in Nat
  /\ IsFiniteSet(Pending') /\ Cardinality(Pending') \in Nat
<1>1. IsFiniteSet(Clients)
  BY ConfigAssumption, FS_Interval DEF Clients
<1>2. Pending \subseteq Clients /\ Pending' \subseteq Clients
  BY DEF Pending
<1>3. IsFiniteSet(Pending) /\ IsFiniteSet(Pending')
  BY <1>1, <1>2, FS_Subset
<1> QED BY <1>3, FS_CardinalityType

\* A step that spends no command gives no id.
LEMMA IdsKept ==
  ASSUME IdBound, Pending' = Pending, issued' = issued, db'.next = db.next
  PROVE  IdBound'
BY DEF IdBound, IdsGiven

\* A new command may be given ids later.
LEMMA IdsPromised ==
  ASSUME IdBound, RestOK, NEW c \in Clients, c \notin Pending, Pending' = Pending \cup {c},
         issued' = issued + 1, db'.next = db.next
  PROVE  IdBound'
<1>1. Cardinality(Pending') = Cardinality(Pending) + 1
  BY PendingCount, FS_AddElement
<1>2. issued \in Nat /\ Cardinality(Pending) \in Nat
  BY PendingCount DEF RestOK
<1>3. issued' - Cardinality(Pending') = issued - Cardinality(Pending)
  BY <1>1, <1>2
<1>4. Cardinality(Pending') <= issued'
  BY <1>1, <1>2 DEF IdBound
<1> QED BY <1>3, <1>4 DEF IdBound, IdsGiven

\* What may be given out grows with the commands spent, and never past the last id.
LEMMA IdsGrow ==
  ASSUME NEW n \in Nat, NEW m \in Nat, n <= m
  PROVE  /\ 1 + InitIds + MaxBatch * n \in Nat
         /\ 1 + InitIds + MaxBatch * n <= 1 + InitIds + MaxBatch * m
         /\ 1 + InitIds + MaxBatch * (n + 1) = 1 + InitIds + MaxBatch * n + MaxBatch
         /\ m <= MaxCommands => 1 + InitIds + MaxBatch * m <= LastId + 1
<1>0. MaxBatch \in Nat /\ InitIds \in Nat /\ MaxCommands \in Nat
  BY ConfigAssumption
<1>1. MaxBatch * n \in Nat /\ MaxBatch * n <= MaxBatch * m /\ MaxBatch * (n + 1) = MaxBatch * n + MaxBatch
  BY <1>0, Products
<1>2. MaxBatch * m \in Nat /\ MaxBatch * MaxCommands \in Nat
  BY <1>0, Products
<1>3. m <= MaxCommands => MaxBatch * m <= MaxBatch * MaxCommands
  BY <1>0, Products
<1>4. /\ 1 + InitIds + MaxBatch * n \in Nat
      /\ 1 + InitIds + MaxBatch * n <= 1 + InitIds + MaxBatch * m
  BY <1>0, <1>1, <1>2
<1>5. 1 + InitIds + MaxBatch * (n + 1) = 1 + InitIds + MaxBatch * n + MaxBatch
  BY <1>0, <1>1
<1>6. m <= MaxCommands => 1 + InitIds + MaxBatch * m <= LastId + 1
  <2>1. LastId = InitIds + MaxBatch * MaxCommands
    BY DEF LastId
  <2> QED BY <1>0, <1>2, <1>3, <2>1
<1> QED BY <1>4, <1>5, <1>6

\* A command that commits, or is refused, spends at most a batch of ids.
LEMMA IdsSpent ==
  ASSUME IdBound, RestOK, NEW c \in Pending, Pending' = Pending \ {c}, issued' = issued,
         \A t \in Tables : /\ db.next[t] \in Nat /\ db'.next[t] \in Nat
                           /\ db'.next[t] <= db.next[t] + MaxBatch
  PROVE  IdBound' /\ \A t \in Tables : db'.next[t] <= LastId + 1
<1> DEFINE p == Cardinality(Pending)
           n == issued - p
<1>1. Cardinality(Pending') = p - 1 /\ p \in Nat /\ p >= 1
  <2>1. Cardinality(Pending') = p - 1
    BY PendingCount, FS_RemoveElement
  <2> QED BY PendingCount, <2>1
<1>2. issued \in Nat /\ issued <= MaxCommands /\ MaxCommands \in Nat /\ p <= issued
  BY ConfigAssumption DEF RestOK, IdBound
<1>3. n \in Nat /\ n + 1 \in Nat /\ n + 1 <= MaxCommands /\ issued' - Cardinality(Pending') = n + 1
  BY <1>1, <1>2
<1>4. \A t \in Tables : db.next[t] <= 1 + InitIds + MaxBatch * n
  BY DEF IdBound, IdsGiven
<1>5. /\ 1 + InitIds + MaxBatch * n \in Nat
      /\ 1 + InitIds + MaxBatch * (n + 1) = 1 + InitIds + MaxBatch * n + MaxBatch
      /\ 1 + InitIds + MaxBatch * (n + 1) <= LastId + 1
  <2> HIDE DEF n
  <2>1. n <= n + 1
    BY <1>3
  <2>2. 1 + InitIds + MaxBatch * n \in Nat
        /\ 1 + InitIds + MaxBatch * (n + 1) = 1 + InitIds + MaxBatch * n + MaxBatch
    BY <1>3, <2>1, IdsGrow
  <2>3. 1 + InitIds + MaxBatch * (n + 1) <= LastId + 1
    <3>1. n + 1 <= n + 1
      BY <1>3
    <3> QED BY <1>3, <3>1, IdsGrow
  <2> QED BY <2>2, <2>3
<1>6. \A t \in Tables : db'.next[t] <= 1 + InitIds + MaxBatch * (n + 1)
  <2> DEFINE b == 1 + InitIds + MaxBatch * n
             e == 1 + InitIds + MaxBatch * (n + 1)
  <2>1. b \in Nat /\ e = b + MaxBatch /\ MaxBatch \in Nat /\ \A t \in Tables : db.next[t] <= b
    BY <1>4, <1>5, ConfigAssumption
  <2> HIDE DEF b, e
  <2>2. \A t \in Tables : db'.next[t] <= e
    BY <2>1
  <2> QED BY <2>2 DEF e
<1>7. \A t \in Tables : db'.next[t] <= LastId + 1
  <2> DEFINE e == 1 + InitIds + MaxBatch * (n + 1)
  <2>1. e \in Nat /\ LastId \in Nat /\ e <= LastId + 1 /\ \A t \in Tables : db'.next[t] <= e
    BY <1>5, <1>6, ConfigAssumption DEF LastId
  <2> HIDE DEF e
  <2> QED BY <2>1
<1>8. Cardinality(Pending') <= issued'
  BY <1>1, <1>2
<1>9. IdBound'
  <2> HIDE DEF n
  <2> QED BY <1>3, <1>6, <1>8 DEF IdBound, IdsGiven
<1> QED BY <1>7, <1>9

\* A restart gives up the pending commands and gives no id.
LEMMA IdsForgotten ==
  ASSUME IdBound, RestOK, Pending' = {}, issued' = issued, db'.next = db.next, db.next \in [Tables -> Nat]
  PROVE  IdBound'
<1>1. Cardinality(Pending') = 0
  BY FS_EmptySet
<1>2. issued \in Nat /\ Cardinality(Pending) \in Nat /\ Cardinality(Pending) <= issued
  BY PendingCount DEF RestOK, IdBound
<1> DEFINE n == issued - Cardinality(Pending)
<1>3. n \in Nat /\ n <= issued /\ issued' - Cardinality(Pending') = issued
  BY <1>1, <1>2
<1>4. \A t \in Tables : db.next[t] <= 1 + InitIds + MaxBatch * n
  BY DEF IdBound, IdsGiven
<1> HIDE DEF n
<1>5. /\ 1 + InitIds + MaxBatch * n \in Nat /\ 1 + InitIds + MaxBatch * issued \in Nat
      /\ 1 + InitIds + MaxBatch * n <= 1 + InitIds + MaxBatch * issued
  <2>1. issued <= issued
    BY <1>2
  <2> QED BY <1>2, <1>3, <2>1, IdsGrow
<1>6. \A t \in Tables : db'.next[t] <= 1 + InitIds + MaxBatch * issued
  <2> DEFINE b == 1 + InitIds + MaxBatch * n
             e == 1 + InitIds + MaxBatch * issued
  <2>1. b \in Nat /\ e \in Nat /\ b <= e /\ \A t \in Tables : db.next[t] <= b /\ db.next[t] \in Nat
    BY <1>4, <1>5
  <2> HIDE DEF b, e
  <2>2. \A t \in Tables : db'.next[t] <= e
    BY <2>1
  <2> QED BY <2>2 DEF e
<1>7. Cardinality(Pending') <= issued'
  BY <1>1, <1>2
<1> QED BY <1>3, <1>6, <1>7 DEF IdBound, IdsGiven

----------------------------------------------------------------------------
(* Commands that do not overlap *)

\* Sequential, when c is the only connection that may run a command.
SequentialAt(c) ==
  /\ \A d \in Clients \ {c} : ~Busy(d)
  /\ Busy(c) => cmd[c].alone
  /\ ~settled => cmd[c].phase \in {"written", "loading", "loaded"}
  /\ TargetsExist(db.tab) /\ validate_cdr_spool_limits(db.limits)
  /\ cmd[c].phase = "checked" => CheckedOK(cmd[c].q)
  /\ admission = db.limits \/ (cmd[c].phase \in {"written", "loading", "loaded", "replaced"} /\ IsSetting(c))
  /\ db.trace = snap.trace \/ (cmd[c].phase \in {"written", "loading", "loaded"} /\ IsSetting(c))
  /\ cmd[c].phase \in {"checked", "written", "loading", "loaded"} => cmd[c].was = snap.trace
  /\ traced => snap.trace \/ (cmd[c].phase = "replaced" /\ IsSetting(c) /\ cmd[c].was)

\* A busy connection is the only one, and when none is busy any may be taken.
LEMMA SequentialOne ==
  ASSUME AloneOK, Sequential, NEW c \in Clients, Busy(c) \/ Quiet
  PROVE  SequentialAt(c)
<1>1. \A d \in Clients \ {c} : ~Busy(d)
  BY DEF AloneOK, Sequential, Quiet
<1>2. \A d \in Clients : cmd[d].phase # "idle" => d = c
  BY <1>1 DEF Busy
<1>3. \A phases : SettingIn(phases) /\ "idle" \notin phases => cmd[c].phase \in phases /\ IsSetting(c)
  BY <1>2 DEF SettingIn
<1>4. ~settled => cmd[c].phase \in {"written", "loading", "loaded"}
  BY <1>2 DEF Sequential
<1>5. admission = db.limits \/ (cmd[c].phase \in {"written", "loading", "loaded", "replaced"} /\ IsSetting(c))
  BY <1>3 DEF Sequential
<1>6. db.trace = snap.trace \/ (cmd[c].phase \in {"written", "loading", "loaded"} /\ IsSetting(c))
  BY <1>3 DEF Sequential
<1>7. traced => snap.trace \/ (cmd[c].phase = "replaced" /\ IsSetting(c) /\ cmd[c].was)
  BY <1>2 DEF Sequential
<1> QED BY <1>1, <1>4, <1>5, <1>6, <1>7 DEF Sequential, SequentialAt

\* ... and what holds of that connection holds of all.
LEMMA SequentialAll ==
  ASSUME NEW c \in Clients, SequentialAt(c)'
  PROVE  Sequential'
<1>1. \A d \in Clients : d # c => cmd'[d].phase = "idle"
  BY DEF SequentialAt, Busy
<1>2. \A phases : (cmd'[c].phase \in phases /\ IsSetting(c)') => \E d \in Clients : cmd'[d].phase \in phases /\ IsSetting(d)'
  OBVIOUS
<1>3. \A d \in Clients : Busy(d)' => cmd'[d].alone
  BY <1>1 DEF SequentialAt, Busy
<1>4. \A d \in Clients : cmd'[d].phase = "checked" => CheckedOK(cmd[d].q)'
  BY <1>1 DEF SequentialAt
<1>5. \A d \in Clients : cmd'[d].phase \in {"checked", "written", "loading", "loaded"} => cmd'[d].was = snap'.trace
  BY <1>1 DEF SequentialAt
<1>6. ~settled' => \E d \in Clients : cmd'[d].phase \in {"written", "loading", "loaded"}
  BY DEF SequentialAt
<1>7. admission' = db'.limits \/ SettingIn({"written", "loading", "loaded", "replaced"})'
  BY DEF SequentialAt, SettingIn
<1>8. db'.trace = snap'.trace \/ SettingIn({"written", "loading", "loaded"})'
  BY DEF SequentialAt, SettingIn
<1>9. traced' => snap'.trace \/ \E d \in Clients : cmd'[d].phase = "replaced" /\ IsSetting(d)' /\ cmd'[d].was
  BY DEF SequentialAt
<1>10. TargetsExist(db'.tab) /\ validate_cdr_spool_limits(db'.limits)
  BY DEF SequentialAt
<1> QED BY <1>3, <1>4, <1>5, <1>6, <1>7, <1>8, <1>9, <1>10 DEF Sequential

\* A transaction whose policies were checked against the tables it is made on, and whose
\* deletes were, leaves no policy with a target that is gone.
LEMMA TableKeepsTargets ==
  ASSUME DbOK, NEW q, q.table \in Tables, RequestOK(q), TableTransaction(q), TargetsExist(db.tab),
         CheckedOK(q), snap.tab = db.tab
  PROVE  TargetsExist(db'.tab)
<1>1. Within(q.table)
  BY TableEffect
<1>2. ASSUME NEW t \in Policies, NEW i \in DOMAIN db'.tab[t], NEW tg \in db'.tab[t][i].targets
      PROVE  tg[1] \in {"ext", "peer", "reg"} /\ tg[2] \in DOMAIN db.tab[tg[1]]
  <2>0. t \in Tables
    BY DEF Tables
  <2>1. CASE i \in DOMAIN db.tab[t] /\ db'.tab[t][i] = db.tab[t][i]
    <3>1. db.tab[t][i] \in PolicyRow
      BY <2>0, <2>1 DEF DbOK, IsTab, IsTables, Rows, Policies
    <3>2. tg \in Targets
      BY <1>2, <2>1, <3>1 DEF PolicyRow
    <3> QED BY <1>2, <2>1, <3>2 DEF TargetsExist, Targets
  <2>2. CASE ~(i \in DOMAIN db.tab[t] /\ db'.tab[t][i] = db.tab[t][i])
    <3>1. t = q.table
      BY <1>1, <1>2, <2>0, <2>2 DEF Within
    <3>2. PICK k \in DOMAIN q.rows : q.op \in {"insert", "update"} /\ db'.tab[t][i] = q.rows[k]
      BY <1>2, <2>2, <3>1, TableRows
    <3>3. q.rows \in Seq(Rows(t)) /\ Rows(t) = PolicyRow
      BY <2>0, <3>1, <3>2 DEF RequestOK, Rows, Policies
    <3>4. q.rows[k] \in PolicyRow
      BY <3>2, <3>3
    <3>5. tg \in Targets
      BY <1>2, <3>2, <3>4 DEF PolicyRow
    <3>6. tg[2] \in DOMAIN snap.tab[tg[1]]
      BY <1>2, <3>1, <3>2 DEF CheckedOK
    <3> QED BY <3>5, <3>6 DEF Targets
  <2> QED BY <2>1, <2>2
<1>3. ASSUME NEW t \in Policies, NEW i \in DOMAIN db'.tab[t], NEW tg \in db'.tab[t][i].targets
      PROVE  tg[2] \in DOMAIN db'.tab[tg[1]]
  <2>0. tg[1] \in {"ext", "peer", "reg"} /\ tg[2] \in DOMAIN db.tab[tg[1]] /\ tg[1] \in Tables
    BY <1>2, <1>3 DEF Tables, Resources
  <2>1. CASE tg[1] # q.table
    BY <1>1, <2>0, <2>1 DEF Within
  <2>2. CASE tg[1] = q.table
    <3>0. t # q.table /\ t \in Tables /\ db'.tab[t] = db.tab[t]
      BY <1>1, <2>0, <2>2 DEF Within, Policies, Tables
    <3>1. CASE q.op # "delete"
      BY <2>0, <2>2, <3>1, TableEffect DEF Inserted, Updated
    <3>2. CASE q.op = "delete"
      <4>1. ~TargetReferenced(db.tab, <<q.table, q.id>>)
        BY <2>0, <2>2, <3>2 DEF CheckedOK
      <4>2. db.tab[t][i] \in PolicyRow
        BY <1>3, <3>0 DEF DbOK, IsTab, IsTables, Rows, Policies
      <4>3. tg \in Targets
        BY <1>3, <3>0, <4>2 DEF PolicyRow
      <4>4. tg = <<tg[1], tg[2]>>
        BY <4>3 DEF Targets
      <4>5. tg[2] # q.id
        BY <1>3, <2>2, <3>0, <4>1, <4>4 DEF TargetReferenced
      <4> QED BY <2>0, <2>2, <3>2, <4>5, TableEffect DEF Deleted
    <3> QED BY <3>1, <3>2
  <2> QED BY <2>1, <2>2
<1> QED BY <1>3 DEF TargetsExist

----------------------------------------------------------------------------
(* Transactions *)

\* Transactions on the domain's row and on settings leave the tables and sequences alone.
LEMMA OtherTransaction ==
  ASSUME DbOK, NEW q, RequestOK(q), q.table \notin Tables, Transaction(q)
  PROVE  /\ db' \in Database(db'.tab) /\ db'.tab = db.tab /\ db'.next = db.next
         /\ q.table # "setting" => db'.limits = db.limits /\ db'.trace = db.trace
         /\ q.table = "setting" /\ q.rows[1].key = "trace" => db'.limits = db.limits
         /\ q.table = "setting" /\ q.rows[1].key # "trace" =>
              db'.limits = [db.limits EXCEPT ![q.rows[1].key] = q.rows[1].value]
<1>0. db \in Database(db.tab)
  BY DEF DbOK
<1>1. CASE q.table = "domain" /\ upsert_domain
  <2> DEFINE v == IF db.domain = "absent" THEN 1 ELSE db.rowVersion + 1
  <2>1. v \in Nat
    BY <1>0 DEF Database
  <2>2. db' = [db EXCEPT !.domain = "present", !.rowVersion = v]
    BY <1>1 DEF upsert_domain
  <2> HIDE DEF v
  <2> QED BY <1>0, <1>1, <2>1, <2>2 DEF Database
<1>2. CASE q.table = "domain" /\ delete_domain
  <2>1. db' = [db EXCEPT !.domain = "absent"]
    BY <1>2 DEF delete_domain
  <2> QED BY <1>0, <1>2, <2>1 DEF Database
<1>3. CASE q.table = "setting" /\ write_setting(q)
  <2> DEFINE r == q.rows[1]
  <2>1. r \in Setting
    BY <1>3 DEF RequestOK
  <2>2. CASE r.key = "trace"
    <3>1. db' = [db EXCEPT !.trace = r.value]
      BY <1>3, <2>2 DEF write_setting
    <3>2. r.value \in BOOLEAN
      BY <2>1, <2>2 DEF Setting, LimitNames
    <3> HIDE DEF r
    <3>3. db' \in Database(db.tab) /\ db'.tab = db.tab /\ db'.next = db.next /\ db'.limits = db.limits
      BY <1>0, <3>1, <3>2 DEF Database
    <3> QED BY <1>3, <2>2, <3>3 DEF r
  <2>3. CASE r.key # "trace"
    <3>1. db' = [db EXCEPT !.limits = [db.limits EXCEPT ![r.key] = r.value]]
      BY <1>3, <2>3 DEF write_setting
    <3>2. r.key \in LimitNames /\ r.value \in Limits
      BY <2>1, <2>3 DEF Setting
    <3>3. [db.limits EXCEPT ![r.key] = r.value] \in [LimitNames -> Limits]
      BY <1>0, <3>2 DEF Database
    <3> DEFINE l == [db.limits EXCEPT ![r.key] = r.value]
    <3> HIDE DEF l
    <3>4. db' = [db EXCEPT !.limits = l] /\ l \in [LimitNames -> Limits]
      BY <3>1, <3>3 DEF l
    <3>5. db' \in Database(db.tab) /\ db'.tab = db.tab /\ db'.next = db.next /\ db'.limits = l
      BY <1>0, <3>4 DEF Database
    <3> QED BY <1>3, <2>3, <3>5 DEF l
  <2> QED BY <2>2, <2>3
<1> QED BY <1>1, <1>2, <1>3 DEF Transaction

\* What a transaction may do to the sequences.
LEMMA TransactionIds ==
  ASSUME DbOK, NEW q, RequestOK(q), Transaction(q)
  PROVE  \A t \in Tables : /\ db.next[t] \in Nat /\ db'.next[t] \in Nat
                           /\ db'.next[t] >= db.next[t] /\ db'.next[t] <= db.next[t] + MaxBatch
<1>0. \A t \in Tables : db.next[t] \in Nat
  BY DEF DbOK, Database
<1>1. MaxBatch \in Nat
  BY ConfigAssumption
<1>2. CASE q.table \in Tables
  <2>1. TableTransaction(q)
    BY <1>2 DEF Transaction, Tables, Resources, Routes, Policies
  <2>2. Within(q.table)
    BY <1>2, <2>1, TableEffect
  <2>3. \A t \in Tables : db'.next[t] \in Nat
    BY <2>2 DEF Within, Database
  <2> QED BY <1>0, <1>1, <2>2, <2>3 DEF Within
<1>3. CASE q.table \notin Tables
  <2>1. db'.next = db.next
    BY <1>3, OtherTransaction
  <2> QED BY <1>0, <1>1, <2>1
<1> QED BY <1>2, <1>3

\* A transaction keeps the database typed and its routes standing.
LEMMA TransactionKeeps ==
  ASSUME DbOK, NEW q, RequestOK(q), Transaction(q), RoutesResolve,
         \A t \in Tables : db'.next[t] <= LastId + 1,
         NEW more, moved \subseteq more,
         q.table = "account" /\ q.op = "update"
           /\ q.rows[1].trunk # db.tab["account"][q.id].trunk => q.id \in more
  PROVE  DbOK' /\ RoutesStand(db'.tab, more)
<1>2. CASE q.table \in Tables
  <2>1. TableTransaction(q)
    BY <1>2 DEF Transaction, Tables, Resources, Routes, Policies
  <2> QED BY <1>2, <2>1, TableKeepsDb, TableKeepsRoutes
<1>3. CASE q.table \notin Tables
  <2>1. db' \in Database(db'.tab) /\ db'.tab = db.tab /\ db'.next = db.next
    BY <1>3, OtherTransaction
  <2>2. DbOK'
    BY <2>1 DEF DbOK
  <2>3. RoutesStand(db.tab, more)
    <3>1. EachStands(db.tab, moved)
      BY RouteByRoute DEF RoutesResolve
    <3>2. \A ref : Stands(db.tab, ref, moved) => Stands(db.tab, ref, more)
      BY DEF Stands
    <3>3. EachStands(db.tab, more)
      BY <3>1, <3>2 DEF EachStands
    <3> QED BY <3>3, RouteByRoute
  <2> QED BY <2>1, <2>2, <2>3
<1> QED BY <1>2, <1>3

----------------------------------------------------------------------------
(* Each action keeps the invariant *)

\* Other connections are as alone as before when this one only goes on, or stops.
LEMMA AloneMoves ==
  ASSUME AloneOK, NEW c \in Clients, Moves(c), Busy(c), cmd'[c].alone => cmd[c].alone,
         /\ Busy(c)' /\ cmd'[c].alone /\ cmd'[c].phase = "loading" => cmd'[c].load = LoadResources(db')
         /\ Busy(c)' /\ cmd'[c].alone /\ cmd'[c].phase \in {"loaded", "replaced"} => Same(cmd'[c].load, db')
  PROVE  AloneOK'
<1>1. ASSUME NEW d \in Clients, Busy(d)', cmd'[d].alone
      PROVE  d = c /\ cmd[c].alone
  <2>1. CASE d = c
    BY <1>1, <2>1
  <2>2. CASE d # c
    <3>1. cmd'[d] = cmd[d]
      BY <2>2 DEF Moves
    <3>2. Busy(d) /\ cmd[d].alone
      BY <1>1, <3>1 DEF Busy
    <3> QED BY <2>2, <3>2 DEF AloneOK
  <2> QED BY <2>1, <2>2
<1>2. cmd[c].alone => \A d \in Clients \ {c} : ~Busy(d)'
  <2> SUFFICES ASSUME cmd[c].alone, NEW d \in Clients \ {c} PROVE ~Busy(d)'
    OBVIOUS
  <2>1. ~Busy(d) /\ cmd'[d] = cmd[d]
    BY DEF AloneOK, Moves
  <2> QED BY <2>1 DEF Busy
<1> QED BY <1>1, <1>2 DEF AloneOK

\* The invariant holds at the start.
LEMMA InitOK ==
  ASSUME Init
  PROVE  IInv
<1>0. db = InitDb /\ snap = Loaded(InitDb) /\ admission = InitDb.limits
  BY DEF Init
<1>1. DbOK
  <2>1. db \in Database(db.tab) /\ IsTables(db.tab)
    BY <1>0, ProvisionedAssumption
  <2>2. \A t \in Tables : db.next[t] \in 1 .. (InitIds + 1) /\ DOMAIN db.tab[t] \subseteq 1 .. (db.next[t] - 1)
    BY <1>0, ProvisionedAssumption
  <2>3. \A t \in Tables : db.next[t] - 1 <= LastId /\ db.next[t] \in Nat /\ db.next[t] >= 1 /\ LastId \in Nat
    <3>1. 0 \in Nat /\ MaxCommands \in Nat /\ 0 <= MaxCommands /\ InitIds \in Nat /\ MaxBatch \in Nat
      BY ConfigAssumption
    <3>2. MaxBatch * MaxCommands \in Nat
      BY <3>1, Products
    <3> QED BY <2>2, <3>1, <3>2 DEF LastId
  <2>4. \A t \in Tables : DOMAIN db.tab[t] \subseteq Ids
    <3> TAKE t \in Tables
    <3>1. 1 .. (db.next[t] - 1) \subseteq 1 .. LastId
      BY <2>3
    <3> QED BY <2>2, <3>1 DEF Ids
  <2> QED BY <2>1, <2>2, <2>3, <2>4 DEF DbOK, IsTab
<1>2. IsSnapshot(snap) /\ Same(snap, db)
  BY <1>0, <1>1, LoadedOK
<1>3. SnapOK /\ SettledOK
  BY <1>2 DEF SnapOK, IsSnapshot, SettledOK
<1>4. DOMAIN cmd = Clients /\ \A c \in Clients : cmd[c] = Idle
  BY DEF Init
<1>5. CmdOK
  BY <1>4, CmdEach, IdleOK
<1>6. RestOK
  <2>1. snap.version \in Nat
    BY <1>2 DEF IsSnapshot, Snapshot
  <2>2. InitDb.limits \in [LimitNames -> Limits]
    BY <1>0, <1>1 DEF DbOK, Database
  <2>3. MaxCommands \in Nat /\ 0 \in Nat
    BY ConfigAssumption
  <2>4. {changed, traced, settled, disturbed} \subseteq BOOLEAN
    BY DEF Init
  <2>5. {view, issued, restarts} \subseteq Nat /\ issued <= MaxCommands /\ moved \subseteq Ids
    BY <2>1, <2>3 DEF Init
  <2> QED BY <1>0, <2>2, <2>4, <2>5 DEF RestOK
<1>7. \A c \in Clients : ~Busy(c)
  BY <1>4, IdleOK DEF Busy
<1>8. IdBound
  <2>1. Pending = {}
    BY <1>7 DEF Pending, Busy
  <2>2. Cardinality(Pending) = 0 /\ issued = 0
    BY <2>1, FS_EmptySet DEF Init
  <2>3. MaxBatch * 0 = 0 /\ InitIds \in Nat
    BY ConfigAssumption
  <2>4. \A t \in Tables : db.next[t] <= 1 + InitIds
    BY <1>0, <2>3, ProvisionedAssumption
  <2> QED BY <2>2, <2>3, <2>4 DEF IdBound, IdsGiven
<1>9. RoutesResolve
  BY <1>0, ProvisionedAssumption DEF RoutesResolve, Init
<1>10. AloneOK
  BY <1>7 DEF AloneOK
<1>11. Sequential
  <2>1. TargetsExist(db.tab) /\ validate_cdr_spool_limits(db.limits) /\ admission = db.limits
    BY <1>0, ProvisionedAssumption
  <2>2. db.trace = snap.trace
    BY <1>2 DEF Same
  <2>3. \A c \in Clients : cmd[c].phase = "idle"
    BY <1>7 DEF Busy
  <2> QED BY <1>7, <2>1, <2>2, <2>3 DEF Sequential, Init
<1> QED BY <1>1, <1>3, <1>5, <1>6, <1>8, <1>9, <1>10, <1>11 DEF IInv

\* A command is accepted.
LEMMA BeginOK ==
  ASSUME IInv, NEW c \in Clients, Begin(c)
  PROVE  IInv'
<1>0. PICK q \in Requests(snap) :
        cmd' = [d \in Clients |->
                 IF d = c THEN [Idle EXCEPT !.phase = "checked", !.q = q, !.alone = Quiet, !.was = snap.trace]
                 ELSE [cmd[d] EXCEPT !.alone = FALSE]]
  BY DEF Begin
<1>1. SnapOK /\ CmdOK /\ RestOK /\ IdBound /\ DbOK
  BY DEF IInv
<1>2. RequestOK(q) /\ CheckedOK(q)
  BY <1>1, RequestsChecked
<1>3. DOMAIN cmd' = Clients /\ cmd'[c] = [Idle EXCEPT !.phase = "checked", !.q = q, !.alone = Quiet, !.was = snap.trace]
      /\ \A d \in Clients \ {c} : cmd'[d] = [cmd[d] EXCEPT !.alone = FALSE]
  BY <1>0
<1>4. cmd'[c].phase = "checked" /\ cmd'[c].q = q /\ cmd'[c].alone = Quiet /\ cmd'[c].was = snap.trace
  BY <1>3 DEF Idle
<1>5. \A d \in Clients \ {c} : /\ cmd'[d].phase = cmd[d].phase /\ cmd'[d].q = cmd[d].q
                               /\ cmd'[d].load = cmd[d].load /\ cmd'[d].alone = FALSE
                               /\ CommandOK(cmd'[d])
  <2> TAKE d \in Clients \ {c}
  <2> DEFINE o == cmd[d]
             n == cmd'[d]
  <2>1. CommandOK(o) /\ n = [o EXCEPT !.alone = FALSE]
    BY <1>1, <1>3, CmdEach
  <2> HIDE DEF o, n
  <2>2. n.phase = o.phase /\ n.q = o.q /\ n.load = o.load /\ n.alone = FALSE
        /\ n \in Command(o.q, o.load)
    BY <2>1 DEF CommandOK, Command
  <2>3. CommandOK(n)
    BY <2>1, <2>2 DEF CommandOK
  <2> QED BY <2>2, <2>3 DEF o, n
<1>6. CommandOK(cmd'[c])
  <2>1. snap.trace \in BOOLEAN
    BY <1>1 DEF SnapOK, Snapshot
  <2>2. Quiet \in BOOLEAN
    BY Zenon DEF Quiet
  <2>3. cmd'[c] = [phase |-> "checked", q |-> q, load |-> None, alone |-> Quiet, was |-> snap.trace]
    BY <1>3 DEF Idle
  <2>4. cmd'[c].load = None
    BY <2>3
  <2>5. cmd'[c] \in Command(q, None)
    <3> DEFINE b == Quiet
    <3> HIDE DEF b
    <3>1. b \in BOOLEAN /\ cmd'[c] = [phase |-> "checked", q |-> q, load |-> None, alone |-> b, was |-> snap.trace]
      BY <2>2, <2>3 DEF b
    <3> QED BY <2>1, <3>1 DEF Command, Phases
  <2> QED BY <1>2, <1>4, <2>4, <2>5 DEF CommandOK
<1>7. CmdOK'
  BY <1>3, <1>5, <1>6, CmdEach
<1>8. UNCHANGED <<db, snap, admission, view, changed, traced, moved, settled, restarts>>
      /\ issued' = issued + 1 /\ ~Busy(c) /\ issued < MaxCommands
      /\ disturbed' = (disturbed \/ ~Quiet)
  BY DEF Begin
<1>9. DbOK' /\ SnapOK' /\ RoutesResolve' /\ SettledOK'
  BY <1>8 DEF IInv, DbOK, SnapOK, RoutesResolve, SettledOK
<1>10. RestOK'
  <2>1. disturbed' \in BOOLEAN
    BY <1>8, Zenon
  <2>2. issued + 1 \in Nat /\ issued + 1 <= MaxCommands
    BY <1>1, <1>8, ConfigAssumption DEF RestOK
  <2> QED BY <1>1, <1>8, <2>1, <2>2 DEF RestOK
<1>11. IdBound'
  <2>1. c \notin Pending /\ Pending' = Pending \cup {c}
    BY <1>4, <1>5, <1>8 DEF Pending, Busy
  <2> QED BY <1>1, <1>8, <2>1, IdsPromised
<1>12. AloneOK'
  <2>1. \A d \in Clients : cmd'[d].alone => d = c /\ Quiet
    BY <1>4, <1>5
  <2>2. Quiet => \A d \in Clients \ {c} : ~Busy(d)'
    BY <1>5 DEF Quiet, Busy
  <2> QED BY <1>4, <2>1, <2>2 DEF AloneOK
<1>13. ~disturbed' => Sequential'
  <2> SUFFICES ASSUME ~disturbed' PROVE Sequential'
    OBVIOUS
  <2>1. ~disturbed /\ Quiet
    BY <1>8
  <2>2. SequentialAt(c)
    BY <2>1, SequentialOne DEF IInv
  <2>3. cmd[c].phase = "idle"
    BY <1>8 DEF Busy
  <2>4. \A d \in Clients \ {c} : ~Busy(d)'
    BY <1>5, <2>1 DEF Quiet, Busy
  <2>5. CheckedOK(cmd[c].q)'
    BY <1>2, <1>4, <1>8 DEF CheckedOK
  <2>6. SequentialAt(c)'
    BY <1>4, <1>8, <2>1, <2>2, <2>3, <2>4, <2>5 DEF SequentialAt, Busy
  <2> QED BY <2>6, SequentialAll
<1> QED BY <1>7, <1>9, <1>10, <1>11, <1>12, <1>13 DEF IInv

\* The moving parts that most steps of a command leave alone.
Quietly ==
  UNCHANGED <<db, moved, issued, restarts>>

\* A command that was not pending and is not is no matter for the ids.
LEMMA PendingStays ==
  ASSUME IInv, Quietly, NEW c \in Clients, Moves(c), cmd[c].phase # "checked", cmd'[c].phase # "checked"
  PROVE  IdBound'
<1>1. Pending' = Pending
  BY DEF Pending, Moves
<1> QED BY <1>1, IdsKept DEF IInv, Quietly

\* A command is refused by its transaction.
LEMMA RefuseOK ==
  ASSUME IInv, NEW c \in Clients, Refuse(c)
  PROVE  IInv'
<1>0. DbOK /\ SnapOK /\ CmdOK /\ RestOK /\ IdBound /\ AloneOK
  BY DEF IInv
<1>1. cmd[c].phase = "checked" /\ Busy(c)
      /\ UNCHANGED <<db, snap, admission, view, changed, traced, moved, settled, disturbed, issued, restarts>>
  BY DEF Refuse, Busy
<1>2. Moves(c) /\ cmd'[c] = Idle
  BY <1>0 DEF Refuse, Moves, CmdOK
<1>3. cmd'[c].phase = "idle"
  BY <1>2, IdleOK
<1>4. DbOK' /\ SnapOK' /\ RestOK' /\ RoutesResolve' /\ SettledOK'
  BY <1>1 DEF IInv, DbOK, SnapOK, RestOK, RoutesResolve, SettledOK
<1>5. CmdOK'
  BY <1>0, <1>2, IdleOK, CmdMoves
<1>6. IdBound'
  <2>1. c \in Pending /\ Pending' = Pending \ {c}
    BY <1>1, <1>2, <1>3 DEF Pending, Moves
  <2>2. \A t \in Tables : db.next[t] \in Nat
    BY <1>0 DEF DbOK, Database
  <2>3. \A t \in Tables : /\ db.next[t] \in Nat /\ db'.next[t] \in Nat
                          /\ db'.next[t] <= db.next[t] + MaxBatch
    BY <1>1, <2>2, ConfigAssumption
  <2> QED BY <1>0, <1>1, <2>1, <2>3, IdsSpent
<1>7. AloneOK'
  <2>1. \A d \in Clients : Busy(d)' => cmd'[d] = cmd[d] /\ Busy(d) /\ d # c
    BY <1>2, <1>3 DEF Moves, Busy
  <2>2. \A d \in Clients : Busy(d) /\ cmd[d].alone => d = c
    BY <1>0, <1>1 DEF AloneOK
  <2> QED BY <2>1, <2>2 DEF AloneOK
<1>8. ~disturbed' => Sequential'
  <2> SUFFICES ASSUME ~disturbed' PROVE Sequential'
    OBVIOUS
  <2>1. SequentialAt(c)
    BY <1>1, SequentialOne DEF IInv
  <2>2. \A d \in Clients \ {c} : ~Busy(d)'
    BY <1>2, <2>1 DEF SequentialAt, Moves, Busy
  <2>3. SequentialAt(c)'
    BY <1>1, <1>3, <2>1, <2>2 DEF SequentialAt, Busy
  <2> QED BY <2>3, SequentialAll
<1> QED BY <1>4, <1>5, <1>6, <1>7, <1>8 DEF IInv

\* A transaction commits.
LEMMA CommitOK ==
  ASSUME IInv, NEW c \in Clients, Commit(c)
  PROVE  IInv'
<1> DEFINE q == cmd[c].q
<1>0. DbOK /\ SnapOK /\ CmdOK /\ RestOK /\ IdBound /\ AloneOK /\ RoutesResolve /\ SettledOK
  BY DEF IInv
<1>1. cmd[c].phase = "checked" /\ Busy(c) /\ Transaction(q) /\ settled' = FALSE
      /\ UNCHANGED <<snap, admission, view, changed, traced, disturbed, issued, restarts>>
      /\ cmd' = [cmd EXCEPT ![c].phase = "written"]
      /\ moved' = IF q.table = "account" /\ q.op = "update"
                     /\ q.rows[1].trunk # db.tab["account"][q.id].trunk
                  THEN moved \cup {q.id} ELSE moved
  BY DEF Commit, Busy
<1>2. Moves(c) /\ cmd'[c] = [cmd[c] EXCEPT !.phase = "written"]
  BY <1>0, <1>1 DEF Moves, CmdOK
<1>3. CommandOK(cmd[c]) /\ RequestOK(q)
  BY <1>0, <1>1, CmdEach DEF CommandOK
<1>4. cmd'[c].phase = "written" /\ cmd'[c].q = q /\ cmd'[c].alone = cmd[c].alone /\ cmd'[c].was = cmd[c].was
      /\ CommandOK(cmd'[c])
  <2> DEFINE o == cmd[c]
             n == cmd'[c]
  <2>1. n = [o EXCEPT !.phase = "written"] /\ CommandOK(o) /\ RequestOK(o.q)
    BY <1>2, <1>3
  <2> HIDE DEF o, n
  <2>2. n.phase = "written" /\ n.q = o.q /\ n.load = o.load /\ n.alone = o.alone /\ n.was = o.was
        /\ n \in Command(o.q, o.load)
    BY <2>1 DEF CommandOK, Command, Phases
  <2> QED BY <2>1, <2>2 DEF CommandOK, o, n
<1>5. CmdOK'
  BY <1>0, <1>2, <1>4, CmdMoves
<1> HIDE DEF q
<1>6. IdBound' /\ \A t \in Tables : db'.next[t] <= LastId + 1
  <2>1. c \in Pending /\ Pending' = Pending \ {c}
    BY <1>1, <1>2, <1>4 DEF Pending, Moves
  <2>2. \A t \in Tables : /\ db.next[t] \in Nat /\ db'.next[t] \in Nat
                          /\ db'.next[t] <= db.next[t] + MaxBatch
    BY <1>0, <1>1, <1>3, TransactionIds
  <2> QED BY <1>0, <1>1, <2>1, <2>2, IdsSpent
<1>7. moved \subseteq moved' /\ (q.table = "account" /\ q.op = "update"
        /\ q.rows[1].trunk # db.tab["account"][q.id].trunk => q.id \in moved')
  BY <1>1
<1>8. DbOK' /\ RoutesResolve'
  <2>1. DbOK' /\ RoutesStand(db'.tab, moved')
    BY <1>0, <1>1, <1>3, <1>6, <1>7, TransactionKeeps
  <2> QED BY <2>1 DEF RoutesResolve
<1>9. moved' \subseteq Ids
  <2>1. ASSUME q.table = "account", q.op = "update" PROVE q.id \in Ids
    <3>1. TableTransaction(q) /\ q.table \in Tables
      BY <1>1, <2>1 DEF Transaction, Tables, Resources
    <3>2. q.id \in DOMAIN db.tab["account"]
      BY <1>0, <1>3, <2>1, <3>1, TableEffect DEF Updated
    <3> QED BY <1>0, <3>2 DEF DbOK, IsTab, Tables, Resources
  <2> QED BY <1>0, <1>1, <2>1 DEF RestOK
<1>10. SnapOK' /\ RestOK' /\ SettledOK'
  BY <1>0, <1>1, <1>9 DEF SnapOK, RestOK, SettledOK
<1>11. AloneOK'
  BY <1>0, <1>1, <1>2, <1>4, AloneMoves
<1>12. ~disturbed' => Sequential'
  <2> SUFFICES ASSUME ~disturbed' PROVE Sequential'
    OBVIOUS
  <2>1. SequentialAt(c)
    BY <1>1, SequentialOne DEF IInv
  <2>2. \A d \in Clients \ {c} : ~Busy(d)'
    BY <1>2, <2>1 DEF SequentialAt, Moves, Busy
  <2>3. settled /\ Same(snap, db) /\ CheckedOK(q) /\ TargetsExist(db.tab)
        /\ validate_cdr_spool_limits(db.limits)
        /\ admission = db.limits /\ db.trace = snap.trace /\ cmd[c].was = snap.trace /\ (traced => snap.trace)
        /\ cmd[c].alone
    BY <1>0, <1>1, <2>1 DEF SequentialAt, SettledOK, q
  <2>4. /\ TargetsExist(db'.tab) /\ validate_cdr_spool_limits(db'.limits)
        /\ q.table # "setting" => db'.limits = db.limits /\ db'.trace = db.trace
    <3>1. CASE q.table \in Tables
      <4>1. TableTransaction(q) /\ db.domain # "absent"
        BY <1>1, <3>1 DEF Transaction, Tables, Resources, Routes, Policies
      <4>2. snap.tab = db.tab
        BY <2>3, <4>1 DEF Same, Loaded
      <4>3. TargetsExist(db'.tab)
        BY <1>0, <1>3, <2>3, <3>1, <4>1, <4>2, TableKeepsTargets
      <4>4. db'.limits = db.limits /\ db'.trace = db.trace
        BY <1>0, <1>3, <3>1, <4>1, TableEffect DEF Within
      <4> QED BY <2>3, <4>3, <4>4
    <3>2. CASE q.table \notin Tables
      <4>1. /\ db'.tab = db.tab
            /\ q.table # "setting" => db'.limits = db.limits /\ db'.trace = db.trace
            /\ q.table = "setting" /\ q.rows[1].key = "trace" => db'.limits = db.limits
            /\ q.table = "setting" /\ q.rows[1].key # "trace" =>
                 db'.limits = [db.limits EXCEPT ![q.rows[1].key] = q.rows[1].value]
        BY <1>0, <1>1, <1>3, <3>2, OtherTransaction
      <4>2. snap.limits = db.limits
        BY <2>3 DEF Same
      <4>3. validate_cdr_spool_limits(db'.limits)
        BY <2>3, <4>1, <4>2 DEF CheckedOK
      <4> QED BY <2>3, <4>1, <4>3
    <3> QED BY <3>1, <3>2
  <2>5. SequentialAt(c)'
    BY <1>1, <1>4, <2>2, <2>3, <2>4 DEF SequentialAt, Busy, IsSetting, q
  <2> QED BY <2>5, SequentialAll
<1> QED BY <1>5, <1>6, <1>8, <1>10, <1>11, <1>12 DEF IInv

\* The first half of the load.
LEMMA LoadFirstOK ==
  ASSUME IInv, NEW c \in Clients, LoadFirst(c)
  PROVE  IInv'
<1> DEFINE h == LoadResources(db)
<1>0. DbOK /\ SnapOK /\ CmdOK /\ RestOK /\ AloneOK
  BY DEF IInv
<1>1. cmd[c].phase = "written" /\ Busy(c) /\ cmd' = [cmd EXCEPT ![c].phase = "loading", ![c].load = h]
      /\ UNCHANGED <<db, snap, admission, view, changed, traced, moved, settled, disturbed, issued, restarts>>
  BY DEF LoadFirst, Busy
<1>2. IsSnapshot(h)
  BY <1>0, LoadResourcesOK
<1> HIDE DEF h
<1>3. Moves(c) /\ cmd'[c] = [cmd[c] EXCEPT !.phase = "loading", !.load = h]
  BY <1>0, <1>1 DEF Moves, CmdOK
<1>4. cmd'[c].phase = "loading" /\ cmd'[c].q = cmd[c].q /\ cmd'[c].load = h
      /\ cmd'[c].alone = cmd[c].alone /\ cmd'[c].was = cmd[c].was /\ CommandOK(cmd'[c])
  <2> DEFINE o == cmd[c]
             n == cmd'[c]
  <2>1. n = [o EXCEPT !.phase = "loading", !.load = h] /\ CommandOK(o) /\ RequestOK(o.q)
    BY <1>0, <1>1, <1>3, CmdEach DEF CommandOK
  <2> HIDE DEF o, n
  <2>2. n.phase = "loading" /\ n.q = o.q /\ n.load = h /\ n.alone = o.alone /\ n.was = o.was
        /\ n \in Command(o.q, h)
    BY <2>1 DEF CommandOK, Command, Phases
  <2> QED BY <1>2, <2>1, <2>2 DEF CommandOK, o, n
<1>5. CmdOK'
  BY <1>0, <1>3, <1>4, CmdMoves
<1>6. DbOK' /\ SnapOK' /\ RestOK' /\ RoutesResolve' /\ SettledOK' /\ IdBound'
  <2>1. IdBound'
    BY <1>1, <1>3, <1>4, PendingStays DEF Quietly
  <2> QED BY <1>1, <2>1 DEF IInv, DbOK, SnapOK, RestOK, RoutesResolve, SettledOK
<1>7. AloneOK'
  BY <1>0, <1>1, <1>3, <1>4, AloneMoves DEF h
<1>8. ~disturbed' => Sequential'
  <2> SUFFICES ASSUME ~disturbed' PROVE Sequential'
    OBVIOUS
  <2>1. SequentialAt(c)
    BY <1>1, SequentialOne DEF IInv
  <2>2. \A d \in Clients \ {c} : ~Busy(d)'
    BY <1>3, <2>1 DEF SequentialAt, Moves, Busy
  <2>3. SequentialAt(c)'
    BY <1>1, <1>4, <2>1, <2>2 DEF SequentialAt, Busy, IsSetting
  <2> QED BY <2>3, SequentialAll
<1> QED BY <1>5, <1>6, <1>7, <1>8 DEF IInv

\* The second half, whole or with the domain dropped.
LEMMA LoadRestOK ==
  ASSUME IInv, NEW c \in Clients, LoadRest(c)
  PROVE  IInv'
<1> DEFINE w == LoadReferrers(db, cmd[c].load)
<1>0. DbOK /\ SnapOK /\ CmdOK /\ RestOK /\ AloneOK
  BY DEF IInv
<1>1. cmd[c].phase = "loading" /\ Busy(c)
      /\ UNCHANGED <<db, snap, admission, view, changed, moved, settled, issued, restarts>>
      /\ traced' = (traced /\ ~(IsSetting(c) /\ cmd[c].was /\ ~cmd[c].load.trace))
  BY DEF LoadRest, Busy
<1>2. PICK load \in {w, DroppedDomain(cmd[c].load)} :
        /\ cmd' = [cmd EXCEPT ![c].phase = "loaded", ![c].load = load, ![c].alone = @ /\ load = w]
        /\ disturbed' = (disturbed \/ load # w)
  BY DEF LoadRest
<1>3. CommandOK(cmd[c]) /\ IsSnapshot(cmd[c].load)
  BY <1>0, <1>1, CmdEach DEF CommandOK
<1>4. IsSnapshot(load)
  BY <1>0, <1>3, LoadReferrersOK, DroppedOK
<1>5. cmd[c].alone => Same(w, db)
  BY <1>0, <1>1, WholeLoad DEF AloneOK
<1> HIDE DEF w
<1> DEFINE b == cmd[c].alone /\ load = w
<1>6. Moves(c) /\ cmd'[c] = [cmd[c] EXCEPT !.phase = "loaded", !.load = load, !.alone = b]
  <2>1. cmd' = [cmd EXCEPT ![c] = [cmd[c] EXCEPT !.phase = "loaded", !.load = load, !.alone = b]]
    BY <1>0, <1>2 DEF CmdOK
  <2> HIDE DEF b
  <2> QED BY <1>0, <2>1 DEF Moves, CmdOK
<1>7. b \in BOOLEAN /\ (b => cmd[c].alone /\ load = w)
  BY Zenon
<1> HIDE DEF b
<1>8. cmd'[c].phase = "loaded" /\ cmd'[c].q = cmd[c].q /\ cmd'[c].load = load
      /\ cmd'[c].alone = b /\ cmd'[c].was = cmd[c].was /\ CommandOK(cmd'[c])
  <2> DEFINE o == cmd[c]
             n == cmd'[c]
  <2>1. n = [o EXCEPT !.phase = "loaded", !.load = load, !.alone = b] /\ CommandOK(o) /\ RequestOK(o.q)
    BY <1>1, <1>3, <1>6 DEF CommandOK
  <2> HIDE DEF o, n
  <2>2. n.phase = "loaded" /\ n.q = o.q /\ n.load = load /\ n.alone = b /\ n.was = o.was
        /\ n \in Command(o.q, load)
    BY <1>7, <2>1 DEF CommandOK, Command, Phases
  <2> QED BY <1>4, <2>1, <2>2 DEF CommandOK, o, n
<1>9. CmdOK'
  BY <1>0, <1>6, <1>8, CmdMoves
<1>10. RestOK'
  <2>1. disturbed' \in BOOLEAN /\ traced' \in BOOLEAN
    BY <1>1, <1>2, Zenon
  <2> QED BY <1>0, <1>1, <2>1 DEF RestOK
<1>11. DbOK' /\ SnapOK' /\ RoutesResolve' /\ SettledOK' /\ IdBound'
  <2>1. IdBound'
    BY <1>1, <1>6, <1>8, PendingStays DEF Quietly
  <2> QED BY <1>1, <2>1 DEF IInv, DbOK, SnapOK, RoutesResolve, SettledOK
<1>12. AloneOK'
  <2>1. cmd'[c].alone => cmd[c].alone /\ Same(cmd'[c].load, db')
    BY <1>1, <1>5, <1>7, <1>8
  <2> QED BY <1>0, <1>1, <1>6, <1>8, <2>1, AloneMoves
<1>13. ~disturbed' => Sequential'
  <2> SUFFICES ASSUME ~disturbed' PROVE Sequential'
    OBVIOUS
  <2>1. ~disturbed /\ load = w
    BY <1>2
  <2>2. SequentialAt(c)
    BY <1>1, <2>1, SequentialOne DEF IInv
  <2>3. \A d \in Clients \ {c} : ~Busy(d)'
    BY <1>6, <2>2 DEF SequentialAt, Moves, Busy
  <2>4. cmd'[c].alone
    BY <1>1, <1>8, <2>1, <2>2 DEF SequentialAt, b
  <2>5. traced' => snap'.trace
    BY <1>1, <2>2 DEF SequentialAt
  <2>6. SequentialAt(c)'
    BY <1>1, <1>8, <2>2, <2>3, <2>4, <2>5 DEF SequentialAt, Busy, IsSetting
  <2> QED BY <2>6, SequentialAll
<1> QED BY <1>9, <1>10, <1>11, <1>12, <1>13 DEF IInv

\* A command ends, with or without a load.
LEMMA EndKeeps ==
  ASSUME IInv, NEW c \in Clients, cmd[c].phase \notin {"idle", "checked"}, cmd' = [cmd EXCEPT ![c] = Idle],
         UNCHANGED <<db, moved, issued, restarts, snap, settled>>
  PROVE  Moves(c) /\ cmd'[c] = Idle /\ CmdOK' /\ IdBound' /\ AloneOK' /\ DbOK' /\ RoutesResolve' /\ SnapOK' /\ SettledOK'
<1>0. CmdOK /\ AloneOK
  BY DEF IInv
<1>1. Moves(c) /\ cmd'[c] = Idle
  BY <1>0 DEF Moves, CmdOK
<1>2. cmd'[c].phase = "idle"
  BY <1>1, IdleOK
<1>3. CmdOK'
  BY <1>0, <1>1, IdleOK, CmdMoves
<1>4. IdBound'
  BY <1>1, <1>2, PendingStays DEF Quietly
<1>5. AloneOK'
  <2>0. Busy(c)
    BY DEF Busy
  <2>1. \A d \in Clients : Busy(d)' => cmd'[d] = cmd[d] /\ Busy(d) /\ d # c
    BY <1>1, <1>2 DEF Moves, Busy
  <2>2. \A d \in Clients : Busy(d) /\ cmd[d].alone => d = c
    BY <1>0, <2>0 DEF AloneOK
  <2> QED BY <2>1, <2>2 DEF AloneOK
<1>6. DbOK' /\ RoutesResolve' /\ SnapOK' /\ SettledOK'
  BY DEF IInv, DbOK, RoutesResolve, SnapOK, SettledOK
<1> QED BY <1>1, <1>3, <1>4, <1>5, <1>6

\* The load fails.
LEMMA LoadFailsOK ==
  ASSUME IInv, NEW c \in Clients, LoadFails(c)
  PROVE  IInv'
<1>1. cmd[c].phase = "written" /\ cmd' = [cmd EXCEPT ![c] = Idle] /\ disturbed' = TRUE
      /\ UNCHANGED <<db, snap, admission, view, changed, traced, moved, settled, issued, restarts>>
  BY DEF LoadFails
<1>2. CmdOK' /\ IdBound' /\ AloneOK' /\ DbOK' /\ RoutesResolve' /\ SnapOK' /\ SettledOK'
  BY <1>1, EndKeeps
<1>3. RestOK'
  BY <1>1 DEF IInv, RestOK
<1> QED BY <1>1, <1>2, <1>3 DEF IInv

\* The settings command hands the limits to the CDR writer.
LEMMA RefreshAdmissionOK ==
  ASSUME IInv, NEW c \in Clients, RefreshAdmission(c)
  PROVE  IInv'
<1>1. cmd[c].phase = "replaced" /\ cmd' = [cmd EXCEPT ![c] = Idle] /\ admission' = cmd[c].load.limits
      /\ traced' = (traced /\ ~(cmd[c].was /\ ~snap.trace))
      /\ UNCHANGED <<db, snap, view, changed, moved, settled, disturbed, issued, restarts>>
  BY DEF RefreshAdmission
<1>2. Moves(c) /\ cmd'[c] = Idle /\ CmdOK' /\ IdBound' /\ AloneOK' /\ DbOK' /\ RoutesResolve' /\ SnapOK' /\ SettledOK'
  BY <1>1, EndKeeps
<1>3. IsSnapshot(cmd[c].load)
  BY <1>1, CmdEach DEF CommandOK, IInv
<1>4. RestOK'
  <2>1. admission' \in [LimitNames -> Limits]
    BY <1>1, <1>3 DEF IsSnapshot, Snapshot
  <2>2. traced' \in BOOLEAN
    BY <1>1, Zenon
  <2> QED BY <1>1, <2>1, <2>2 DEF IInv, RestOK
<1>5. ~disturbed' => Sequential'
  <2> SUFFICES ASSUME ~disturbed' PROVE Sequential'
    OBVIOUS
  <2>0. Busy(c)
    BY <1>1 DEF Busy
  <2>1. SequentialAt(c)
    BY <1>1, <2>0, SequentialOne DEF IInv
  <2>2. \A d \in Clients \ {c} : ~Busy(d)'
    BY <1>2, <2>1 DEF SequentialAt, Moves, Busy
  <2>3. cmd'[c].phase = "idle"
    BY <1>2, IdleOK
  <2>4. Same(cmd[c].load, db)
    BY <1>1, <2>0, <2>1 DEF IInv, AloneOK, SequentialAt
  <2>5. admission' = db'.limits
    BY <1>1, <2>4 DEF Same
  <2>6. db'.trace = snap'.trace
    BY <1>1, <2>1 DEF SequentialAt
  <2>7. traced' => snap'.trace
    BY <1>1, <2>1 DEF SequentialAt
  <2>8. settled'
    BY <1>1, <2>1 DEF SequentialAt
  <2>9. SequentialAt(c)'
    BY <1>1, <2>1, <2>2, <2>3, <2>5, <2>6, <2>7, <2>8 DEF SequentialAt, Busy
  <2> QED BY <2>9, SequentialAll
<1> QED BY <1>2, <1>4, <1>5 DEF IInv

\* The snapshot is replaced.
LEMMA ReplaceOK ==
  ASSUME IInv, NEW c \in Clients, Replace(c)
  PROVE  IInv'
<1>0. DbOK /\ SnapOK /\ CmdOK /\ RestOK /\ AloneOK
  BY DEF IInv
<1>1. cmd[c].phase = "loaded" /\ Busy(c) /\ snap' = Replaced(snap, cmd[c].load) /\ changed' = TRUE
      /\ settled' = cmd[c].alone
      /\ UNCHANGED <<db, admission, view, traced, moved, disturbed, issued, restarts>>
      /\ cmd' = [cmd EXCEPT ![c] = IF IsSetting(c) THEN [@ EXCEPT !.phase = "replaced"] ELSE Idle]
  BY DEF Replace, Busy
<1>2. CommandOK(cmd[c]) /\ IsSnapshot(cmd[c].load)
  BY <1>0, <1>1, CmdEach DEF CommandOK
<1>3. IsSnapshot(snap') /\ snap'.domain = cmd[c].load.domain /\ snap'.limits = cmd[c].load.limits
      /\ snap'.trace = cmd[c].load.trace /\ snap'.tab = cmd[c].load.tab
  BY <1>0, <1>1, <1>2, ReplacedOK DEF SnapOK, IsSnapshot
<1>4. Moves(c) /\ (IsSetting(c) => cmd'[c] = [cmd[c] EXCEPT !.phase = "replaced"]) /\ (~IsSetting(c) => cmd'[c] = Idle)
  BY <1>0, <1>1 DEF Moves, CmdOK
<1>5. IsSetting(c) => /\ cmd'[c].phase = "replaced" /\ cmd'[c].q = cmd[c].q /\ cmd'[c].load = cmd[c].load
                      /\ cmd'[c].alone = cmd[c].alone /\ cmd'[c].was = cmd[c].was /\ CommandOK(cmd'[c])
  <2> SUFFICES ASSUME IsSetting(c)
               PROVE  /\ cmd'[c].phase = "replaced" /\ cmd'[c].q = cmd[c].q /\ cmd'[c].load = cmd[c].load
                      /\ cmd'[c].alone = cmd[c].alone /\ cmd'[c].was = cmd[c].was /\ CommandOK(cmd'[c])
    OBVIOUS
  <2> DEFINE o == cmd[c]
             n == cmd'[c]
  <2>1. n = [o EXCEPT !.phase = "replaced"] /\ CommandOK(o) /\ RequestOK(o.q) /\ IsSnapshot(o.load)
    BY <1>1, <1>2, <1>4 DEF CommandOK
  <2> HIDE DEF o, n
  <2>2. n.phase = "replaced" /\ n.q = o.q /\ n.load = o.load /\ n.alone = o.alone /\ n.was = o.was
        /\ n \in Command(o.q, o.load)
    BY <2>1 DEF CommandOK, Command, Phases
  <2> QED BY <2>1, <2>2 DEF CommandOK, o, n
<1>6. ~IsSetting(c) => cmd'[c].phase = "idle" /\ CommandOK(cmd'[c])
  BY <1>4, IdleOK
<1>7. CmdOK'
  BY <1>0, <1>4, <1>5, <1>6, CmdMoves
<1>8. cmd[c].alone => Same(cmd[c].load, db)
  BY <1>0, <1>1 DEF AloneOK
<1>9. SnapOK' /\ SettledOK'
  BY <1>1, <1>3, <1>8 DEF SnapOK, IsSnapshot, SettledOK, Same
<1>10. RestOK'
  <2>1. cmd[c].alone \in BOOLEAN
    BY <1>2 DEF CommandOK, Command
  <2> QED BY <1>0, <1>1, <2>1 DEF RestOK
<1>11. DbOK' /\ RoutesResolve' /\ IdBound'
  <2>1. IdBound'
    BY <1>1, <1>4, <1>5, <1>6, PendingStays DEF Quietly
  <2> QED BY <1>1, <2>1 DEF IInv, DbOK, RoutesResolve
<1>12. AloneOK'
  <2>1. CASE IsSetting(c)
    BY <1>0, <1>1, <1>4, <1>5, <1>8, <2>1, AloneMoves
  <2>2. CASE ~IsSetting(c)
    <3>1. \A d \in Clients : Busy(d)' => cmd'[d] = cmd[d] /\ Busy(d) /\ d # c
      BY <1>4, <1>6, <2>2 DEF Moves, Busy
    <3>2. \A d \in Clients : Busy(d) /\ cmd[d].alone => d = c
      BY <1>0, <1>1 DEF AloneOK
    <3> QED BY <3>1, <3>2 DEF AloneOK
  <2> QED BY <2>1, <2>2
<1>13. ~disturbed' => Sequential'
  <2> SUFFICES ASSUME ~disturbed' PROVE Sequential'
    OBVIOUS
  <2>1. SequentialAt(c) /\ cmd[c].alone
    <3>1. SequentialAt(c)
      BY <1>1, SequentialOne DEF IInv
    <3> QED BY <1>1, <3>1 DEF SequentialAt
  <2>2. \A d \in Clients \ {c} : ~Busy(d)'
    BY <1>4, <2>1 DEF SequentialAt, Moves, Busy
  <2>3. snap'.trace = db.trace /\ settled'
    BY <1>1, <1>3, <1>8, <2>1 DEF Same
  <2>4. traced => snap.trace
    BY <1>1, <2>1 DEF SequentialAt
  <2>5. CASE IsSetting(c)
    <3>1. SequentialAt(c)'
      BY <1>1, <1>5, <2>1, <2>2, <2>3, <2>4, <2>5 DEF SequentialAt, Busy, IsSetting
    <3> QED BY <3>1, SequentialAll
  <2>6. CASE ~IsSetting(c)
    <3>1. snap'.trace = snap.trace /\ admission = db.limits
      BY <2>1, <2>3, <2>6 DEF SequentialAt
    <3>2. SequentialAt(c)'
      BY <1>1, <1>6, <2>1, <2>2, <2>3, <2>4, <2>6, <3>1 DEF SequentialAt, Busy
    <3> QED BY <3>2, SequentialAll
  <2> QED BY <2>5, <2>6
<1> QED BY <1>7, <1>9, <1>10, <1>11, <1>12, <1>13 DEF IInv

\* The adapter takes the snapshot, or a call is traced.
LEMMA LightStepsOK ==
  ASSUME IInv, SendRuntimeView \/ TraceCall
  PROVE  IInv'
<1>0. UNCHANGED <<db, snap, cmd, admission, moved, settled, disturbed, issued, restarts>>
  BY DEF SendRuntimeView, TraceCall
<1>1. RestOK'
  <2>1. CASE SendRuntimeView
    <3>1. snap.version \in Nat
      BY DEF IInv, SnapOK, Snapshot
    <3> QED BY <1>0, <2>1, <3>1 DEF SendRuntimeView, IInv, RestOK
  <2>2. CASE TraceCall
    <3>1. traced' \in BOOLEAN
      BY <2>2, Zenon DEF TraceCall
    <3> QED BY <1>0, <2>2, <3>1 DEF TraceCall, IInv, RestOK
  <2> QED BY <2>1, <2>2
<1>2. DbOK' /\ SnapOK' /\ CmdOK' /\ RoutesResolve' /\ AloneOK' /\ SettledOK' /\ IdBound'
  <2>1. Pending' = Pending
    BY <1>0 DEF Pending
  <2>2. IdBound'
    BY <1>0, <2>1, IdsKept DEF IInv
  <2>3. CmdOK'
    BY <1>0, CmdEach DEF IInv
  <2> QED BY <1>0, <2>2, <2>3 DEF IInv, DbOK, SnapOK, RoutesResolve, AloneOK, SettledOK, Busy
<1>3. ~disturbed' => Sequential'
  <2> SUFFICES ASSUME ~disturbed' PROVE Sequential'
    OBVIOUS
  <2>1. Sequential
    BY <1>0 DEF IInv
  <2>2. traced' => (traced \/ snap.trace)
    BY DEF SendRuntimeView, TraceCall
  <2>3. traced' => snap'.trace \/ \E c \in Clients : cmd'[c].phase = "replaced" /\ IsSetting(c)' /\ cmd'[c].was
    BY <1>0, <2>1, <2>2 DEF Sequential, IsSetting
  <2>4. /\ \A c \in Clients : Busy(c)' => cmd'[c].alone
        /\ ~settled' => \E c \in Clients : cmd'[c].phase \in {"written", "loading", "loaded"}
        /\ TargetsExist(db'.tab) /\ validate_cdr_spool_limits(db'.limits)
        /\ \A c \in Clients : cmd'[c].phase \in {"checked", "written", "loading", "loaded"} => cmd'[c].was = snap'.trace
    BY <1>0, <2>1 DEF Sequential, Busy
  <2>5. \A c \in Clients : cmd'[c].phase = "checked" => CheckedOK(cmd[c].q)'
    BY <1>0, <2>1 DEF Sequential, CheckedOK
  <2>6. /\ admission' = db'.limits \/ SettingIn({"written", "loading", "loaded", "replaced"})'
        /\ db'.trace = snap'.trace \/ SettingIn({"written", "loading", "loaded"})'
    BY <1>0, <2>1 DEF Sequential, SettingIn, IsSetting
  <2> QED BY <2>3, <2>4, <2>5, <2>6 DEF Sequential
<1> QED BY <1>1, <1>2, <1>3 DEF IInv

\* A restart loads what is in the database.
LEMMA RestartOK ==
  ASSUME IInv, Restart
  PROVE  IInv'
<1>0. DbOK /\ RestOK /\ IdBound
  BY DEF IInv
<1>1. db' = db
  BY <1>0, OpenedSame DEF Restart, Opened
<1>2. snap' = Loaded(db) /\ admission' = db.limits /\ traced' = FALSE /\ settled' = TRUE
      /\ view' = Loaded(db).version /\ changed' = FALSE
      /\ UNCHANGED <<moved, disturbed, issued>> /\ restarts' = restarts + 1
  BY DEF Restart
<1>3. IsSnapshot(snap') /\ Same(snap', db')
  <2>1. IsSnapshot(Loaded(db)) /\ Same(Loaded(db), db)
    BY <1>0, LoadedOK
  <2> QED BY <1>1, <1>2, <2>1
<1>4. DOMAIN cmd' = Clients /\ \A c \in Clients : cmd'[c] = Idle
  BY DEF Restart
<1>5. CmdOK'
  BY <1>4, CmdEach, IdleOK
<1>6. \A c \in Clients : ~Busy(c)' /\ cmd'[c].phase = "idle"
  BY <1>4, IdleOK DEF Busy
<1>7. DbOK' /\ RoutesResolve' /\ SnapOK' /\ SettledOK' /\ AloneOK'
  BY <1>0, <1>1, <1>2, <1>3, <1>6 DEF IInv, DbOK, RoutesResolve, SnapOK, IsSnapshot, SettledOK, AloneOK
<1>8. RestOK'
  <2>1. snap'.version \in Nat /\ restarts + 1 \in Nat
    BY <1>0, <1>3 DEF IsSnapshot, Snapshot, RestOK
  <2>2. db.limits \in [LimitNames -> Limits]
    BY <1>0 DEF DbOK, Database
  <2> QED BY <1>0, <1>2, <2>1, <2>2 DEF RestOK
<1>9. IdBound'
  <2>1. Pending' = {}
    BY <1>6 DEF Pending
  <2>2. db.next \in [Tables -> Nat]
    BY <1>0 DEF DbOK, Database
  <2> QED BY <1>0, <1>1, <1>2, <2>1, <2>2, IdsForgotten
<1>10. ~disturbed' => Sequential'
  <2> SUFFICES ASSUME ~disturbed' PROVE Sequential'
    OBVIOUS
  <2>1. TargetsExist(db'.tab) /\ validate_cdr_spool_limits(db'.limits)
    BY <1>1, <1>2 DEF IInv, Sequential
  <2>2. db'.trace = snap'.trace /\ admission' = db'.limits
    BY <1>1, <1>2, <1>3 DEF Same
  <2> QED BY <1>2, <1>6, <2>1, <2>2 DEF Sequential
<1> QED BY <1>5, <1>7, <1>8, <1>9, <1>10 DEF IInv

\* Every step keeps the invariant.
LEMMA StepOK ==
  ASSUME IInv, [Next]_vars
  PROVE  IInv'
<1>1. ASSUME NEW c \in Clients, Begin(c) \/ Refuse(c) \/ Step(c) PROVE IInv'
  BY <1>1, BeginOK, RefuseOK, CommitOK, LoadFirstOK, LoadRestOK, LoadFailsOK, ReplaceOK,
     RefreshAdmissionOK DEF Step
<1>2. CASE UNCHANGED vars
  <2>0. UNCHANGED <<db, snap, cmd, admission, view, changed, traced, moved, settled, disturbed, issued, restarts>>
    BY <1>2 DEF vars
  <2>1. CmdOK'
    BY <2>0, CmdEach DEF IInv
  <2>2. Pending' = Pending
    BY <2>0 DEF Pending
  <2>3. IdBound'
    BY <2>0, <2>2, IdsKept DEF IInv
  <2>4. DbOK' /\ SnapOK' /\ RestOK' /\ RoutesResolve' /\ AloneOK' /\ SettledOK'
    BY <2>0 DEF IInv, DbOK, SnapOK, RestOK, RoutesResolve, AloneOK, SettledOK, Busy
  <2>5. ~disturbed' => Sequential'
    BY <2>0 DEF IInv, Sequential, CheckedOK, SettingIn, IsSetting, Busy
  <2> QED BY <2>1, <2>3, <2>4, <2>5 DEF IInv
<1> QED BY <1>1, <1>2, LightStepsOK, RestartOK DEF Next

\* The invariant holds in every reachable state.
THEOREM Invariance == Spec => []IInv
<1>1. Init => IInv
  BY InitOK
<1>2. IInv /\ [Next]_vars => IInv'
  BY StepOK
<1> QED BY <1>1, <1>2, PTL DEF Spec

----------------------------------------------------------------------------
(* Theorems *)

\* Whatever order commands of different connections commit in, every trunk and extension a
\* route of the database names exists and is enabled, but for accounts that were moved to
\* another registered trunk.
THEOREM RoutesAlwaysResolve == Spec => []RoutesResolve
<1>1. IInv => RoutesResolve
  BY DEF IInv
<1> QED BY <1>1, Invariance, PTL

\* A command that ran alone leaves the snapshot equal to the database, whatever stale, torn or
\* failed loads went before it.
THEOREM LoneCommandSettles == Spec => []SettledSnapshot
<1>1. IInv => SettledSnapshot
  <2> SUFFICES ASSUME IInv, settled
               PROVE  [Loaded(db) EXCEPT !.version = 0] = [snap EXCEPT !.version = 0]
    BY DEF SettledSnapshot
  <2> DEFINE l == Loaded(db)
  <2>1. l \in Snapshot(l.tab) /\ Same(l, db)
    BY LoadedOK DEF IInv, IsSnapshot
  <2>2. snap \in Snapshot(snap.tab) /\ Same(snap, db)
    BY DEF IInv, SnapOK, SettledOK
  <2>3. snap.tab = l.tab /\ snap.domain = l.domain /\ snap.limits = l.limits /\ snap.trace = l.trace
    BY <2>1, <2>2 DEF Same
  <2> HIDE DEF l
  <2>4. [l EXCEPT !.version = 0] =
          [domain |-> l.domain, version |-> 0, trace |-> l.trace, limits |-> l.limits, tab |-> l.tab]
    BY <2>1 DEF Snapshot
  <2>5. [snap EXCEPT !.version = 0] =
          [domain |-> snap.domain, version |-> 0, trace |-> snap.trace, limits |-> snap.limits, tab |-> snap.tab]
    BY <2>2 DEF Snapshot
  <2> QED BY <2>3, <2>4, <2>5 DEF l
<1> QED BY <1>1, Invariance, PTL

\* Commands that do not overlap keep the targets of policies, the order of the spool limits,
\* the CDR writer's limits and the marks of traced calls, although all four are checked
\* against the snapshot only.
THEOREM SequentialCommandsAreSafe == Spec => []SequentialCommandsSafe
<1>1. IInv => TypeOK
  <2> SUFFICES ASSUME IInv PROVE TypeOK
    OBVIOUS
  <2>1. \A c \in Clients : cmd[c].phase \in {"idle", "checked", "written", "loading", "loaded", "replaced"}
    BY CmdEach DEF IInv, CommandOK, Command, Phases
  <2> QED BY <2>1 DEF IInv, DbOK, SnapOK, RestOK, IsTab, TypeOK
<1>2. IInv => PoliciesResolve /\ LimitsOrdered
  BY DEF IInv, Sequential, PoliciesResolve, LimitsOrdered
<1>3. IInv => WriterFollowsSettings /\ TraceGapMarked
  <2> SUFFICES ASSUME IInv, ~disturbed, Quiet
               PROVE  admission = snap.limits /\ (~snap.trace => ~traced)
    BY DEF WriterFollowsSettings, TraceGapMarked
  <2>1. Sequential /\ SettledOK /\ \A c \in Clients : cmd[c].phase = "idle"
    BY DEF IInv, Quiet, Busy
  <2>2. settled
    BY <2>1 DEF Sequential
  <2>3. snap.limits = db.limits
    BY <2>1, <2>2 DEF SettledOK, Same
  <2>4. admission = db.limits
    BY <2>1 DEF Sequential, SettingIn
  <2>5. traced => snap.trace
    BY <2>1 DEF Sequential
  <2> QED BY <2>3, <2>4, <2>5
<1>4. IInv => SequentialCommandsSafe
  BY <1>1, <1>2, <1>3 DEF SequentialCommandsSafe
<1> QED BY <1>4, Invariance, PTL

\* No step writes a row under an id that was given out before and is free now.
THEOREM IdsAreNotReused == Spec => IdsNotReused
<1>1. ASSUME IInv, [Next]_vars
      PROVE  [\A t \in Tables : \A i \in 1 .. (db.next[t] - 1) :
                i \notin DOMAIN db.tab[t] => i \notin DOMAIN db'.tab[t]]_vars
  <2> SUFFICES ASSUME NEW t \in Tables, NEW i \in 1 .. (db.next[t] - 1), i \notin DOMAIN db.tab[t], Next
               PROVE  i \notin DOMAIN db'.tab[t]
    BY <1>1
  <2>0. DbOK
    BY <1>1 DEF IInv
  <2>1. ASSUME NEW c \in Clients, Commit(c) PROVE i \notin DOMAIN db'.tab[t]
    <3> DEFINE q == cmd[c].q
    <3>1. RequestOK(q) /\ Transaction(q)
      BY <1>1, <2>1 DEF Commit, IInv, CmdOK, Busy
    <3> HIDE DEF q
    <3>2. CASE q.table \in Tables
      <4>1. TableTransaction(q)
        BY <3>1, <3>2 DEF Transaction, Tables, Resources, Routes, Policies
      <4>2. CASE t # q.table
        BY <2>0, <3>1, <3>2, <4>1, <4>2, TableEffect DEF Within
      <4>3. CASE t = q.table
        <5>1. DOMAIN db'.tab[t] \subseteq DOMAIN db.tab[t] \cup Fresh(t)
          BY <2>0, <3>1, <3>2, <4>1, <4>3, TableEffect DEF Inserted, Updated, Deleted
        <5>2. i \notin Fresh(t)
          <6>1. db.next[t] \in Nat
            BY <2>0 DEF DbOK, Database
          <6> QED BY <6>1 DEF Fresh
        <5> QED BY <5>1, <5>2
      <4> QED BY <4>2, <4>3
    <3>3. CASE q.table \notin Tables
      BY <2>0, <3>1, <3>3, OtherTransaction
    <3> QED BY <3>2, <3>3
  <2>2. CASE db' = db
    BY <2>2
  <2>3. CASE Restart
    BY <2>0, <2>3, OpenedSame DEF Restart, Opened
  <2>4. \/ \E c \in Clients : Commit(c)
        \/ db' = db
        \/ Restart
    BY DEF Next, Step, Begin, Refuse, LoadFirst, LoadRest, LoadFails, Replace, RefreshAdmission,
           SendRuntimeView, TraceCall
  <2> QED BY <2>1, <2>2, <2>3, <2>4
<1> QED BY <1>1, Invariance, PTL DEF Spec, IdsNotReused

=============================================================================
