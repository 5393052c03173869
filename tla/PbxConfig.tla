------------------------------ MODULE PbxConfig ------------------------------
(***************************************************************************)
(* The configuration of one PBX domain: the database tables, the           *)
(* in-memory snapshot every call reads, and the control commands that      *)
(* change the first and then reload the second.                            *)
(*                                                                         *)
(* Each control connection has its own task, so two commands may run side  *)
(* by side.  A command is checked against the SNAPSHOT, writes one         *)
(* TRANSACTION (which repeats some of the checks on the tables), LOADS the *)
(* whole configuration again, table by table and outside any transaction,  *)
(* and REPLACES the snapshot with what it read.  Rows keep the fields that *)
(* some check reads: whether a resource is enabled, and who refers to whom.*)
(***************************************************************************)
EXTENDS Naturals, Sequences, FiniteSets

CONSTANTS
  NumClients,    \* control connections
  Numbers,       \* dialled numbers of extensions and AI agents
  Every,           \* an inbound route that matches every trunk, or has target auto
  Limits,        \* values of the three CDR spool limits
  MaxBatch,      \* rows of one batch_insert (the code allows 1000)
  MaxRefs,       \* references of one route or policy
  MaxCommands,   \* commands issued in a behaviour
  MaxRestarts,   \* restarts of the process in a behaviour
  InitDb,        \* a provisioned database
  InitIds,       \* the ids it has given out, of any table
  None

Clients == 1 .. NumClients

Resources == {"ext", "peer", "reg", "account"}
Routes == {"inbound", "outbound"}
Policies == {"recording", "ai_policy"}
Tables == Resources \cup Routes \cup Policies \cup {"agent"}

ASSUME ConfigAssumption ==
  /\ {NumClients, MaxRefs, MaxCommands, MaxRestarts, InitIds} \subseteq Nat
  /\ MaxBatch \in Nat \ {0}
  /\ Limits \subseteq Nat
  /\ Every \notin Numbers

VARIABLES
  db,         \* the system database's rows of this domain, and the domain's own database
  snap,       \* RuntimeConfigStore.current
  cmd,        \* the command each control connection is running
  admission,  \* the spool limits the CDR writer works with
  view,       \* the revision of the snapshot the adapter was sent last
  changed,    \* the watch channel's "changed" mark of the adapter's receiver
  traced,     \* an active call is being traced and not marked incomplete
  moved,      \* accounts that were given another registered trunk
  settled,    \* no commit since a command that ran alone replaced the snapshot
  disturbed,  \* commands have overlapped, or a load has failed
  issued, restarts

vars == <<db, snap, cmd, admission, view, changed, traced, moved, settled,
          disturbed, issued, restarts>>

------------------------------------------------------------------------------
\* Rows

LastId == InitIds + MaxBatch * MaxCommands
Ids == 1 .. LastId

SmallSets(S) == {T \in SUBSET S : T # {} /\ Cardinality(T) <= MaxRefs}

\* A trunk reference: peer:<id> or reg:<trunk>/<account>.
Refs == {<<"peer", i>> : i \in Ids} \cup {<<"reg", t, a>> : t, a \in Ids}
Targets == {"ext", "peer", "reg"} \X Ids

Max2(a, b) == IF a > b THEN a ELSE b
Last(ids) == IF ids = {} THEN 0 ELSE CHOOSE i \in ids : \A j \in ids : j <= i

ExtRow == [number : Numbers, enabled : BOOLEAN]
PeerRow == [enabled : BOOLEAN]
AccountRow == [trunk : Ids, enabled : BOOLEAN]
InboundRow == [match : Refs \cup {Every}, target : Numbers \cup {Every}]
OutboundRow == [refs : (SUBSET Refs) \ {{}}]
PolicyRow == [targets : (SUBSET Targets) \ {{}}]
AgentRow == [number : Numbers]

Rows(t) ==
  CASE t = "ext" -> ExtRow
    [] t \in {"peer", "reg"} -> PeerRow
    [] t = "account" -> AccountRow
    [] t = "inbound" -> InboundRow
    [] t = "outbound" -> OutboundRow
    [] t \in Policies -> PolicyRow
    [] t = "agent" -> AgentRow

\* The rows a command may ask for, given the references it can name.
peer_from_set == [enabled : BOOLEAN]
reg_trunk_from_set == [enabled : BOOLEAN]
reg_account_from_set(tab) == [trunk : DOMAIN tab["reg"], enabled : BOOLEAN]

KnownRefs(tab) ==
  {<<"peer", i>> : i \in DOMAIN tab["peer"]}
    \cup {<<"reg", tab["account"][a].trunk, a>> : a \in DOMAIN tab["account"]}

KnownTargets(tab) == UNION {{<<t, i>> : i \in DOMAIN tab[t]} : t \in {"ext", "peer", "reg"}}

inbound_from_set(tab) ==
  [match : KnownRefs(tab) \cup {Every},
   target : {tab["ext"][i].number : i \in DOMAIN tab["ext"]} \cup {Every}]
outbound_from_set(tab) == [refs : SmallSets(KnownRefs(tab))]
policy_from_set(tab) == [targets : SmallSets(KnownTargets(tab))]
agent_from_set == [number : Numbers]

------------------------------------------------------------------------------
\* Who refers to whom, in the tables `tab` of a snapshot or of the database

RefResolves(tab, ref) ==
  IF ref[1] = "peer"
  THEN ref[2] \in DOMAIN tab["peer"] /\ tab["peer"][ref[2]].enabled
  ELSE /\ ref[2] \in DOMAIN tab["reg"] /\ tab["reg"][ref[2]].enabled
       /\ ref[3] \in DOMAIN tab["account"]
       /\ tab["account"][ref[3]].trunk = ref[2] /\ tab["account"][ref[3]].enabled

validate_trunk_refs(tab, refs) == \A ref \in refs : RefResolves(tab, ref)

validate_inbound_references(tab, r) ==
  /\ r.match # Every => validate_trunk_refs(tab, {r.match})
  /\ r.target # Every => \E i \in DOMAIN tab["ext"] : /\ tab["ext"][i].number = r.target
                                                    /\ tab["ext"][i].enabled

\* RESOURCE_IN_USE: a route names the trunk, or the extension's number.
TrunkReferenced(tab, ref) ==
  \/ \E i \in DOMAIN tab["outbound"] : ref \in tab["outbound"][i].refs
  \/ \E i \in DOMAIN tab["inbound"] : tab["inbound"][i].match = ref

ExtensionReferenced(tab, number) ==
  \E i \in DOMAIN tab["inbound"] : tab["inbound"][i].target = number

validate_targets(tab, r) ==
  \A tg \in r.targets : tg[2] \in DOMAIN tab[tg[1]] /\ tab[tg[1]][tg[2]].enabled

\* Mutant: AI policies are not looked at.
MutantTargetReferenced(tab, tg) ==
  \E i \in DOMAIN tab["recording"] : tg \in tab["recording"][i].targets

TargetReferenced(tab, tg) ==
  \E t \in Policies : \E i \in DOMAIN tab[t] : tg \in tab[t][i].targets

validate_agent(tab, id, r) ==
  /\ \A i \in DOMAIN tab["ext"] : tab["ext"][i].enabled => tab["ext"][i].number # r.number
  /\ \A i \in DOMAIN tab["agent"] : i # id => tab["agent"][i].number # r.number

validate_cdr_spool_limits(l) == l.warning < l.resume /\ l.resume < l.reject

------------------------------------------------------------------------------
\* A provisioned database

LimitNames == {"warning", "resume", "reject"}

\* The tables of a database or a snapshot, and a database with these tables.
IsTables(tab) ==
  /\ tab \in [Tables -> {tab[t] : t \in Tables}]
  /\ \A t \in Tables : \A i \in DOMAIN tab[t] : tab[t][i] \in Rows(t)

Database(tab) ==
  [domain : {"absent", "present"}, version : Nat, rowVersion : Nat, trace : BOOLEAN,
   limits : [LimitNames -> Limits], next : [Tables -> Nat], tab : {tab}]

Snapshot(tab) ==
  [domain : {"absent", "present"}, version : Nat, trace : BOOLEAN, limits : [LimitNames -> Limits],
   tab : {tab}]

\* Every trunk a route names, and every extension, exists and is enabled, but
\* for the references to the accounts of the set `exempt`.
RouteRefs(tab) ==
  ((UNION {tab["outbound"][i].refs : i \in DOMAIN tab["outbound"]})
     \cup {tab["inbound"][i].match : i \in DOMAIN tab["inbound"]}) \ {Every}

RoutesStand(tab, exempt) ==
  /\ \A ref \in RouteRefs(tab) : RefResolves(tab, ref) \/ (ref[1] = "reg" /\ ref[3] \in exempt)
  /\ \A i \in DOMAIN tab["inbound"] :
       LET n == tab["inbound"][i].target IN
       n # Every => \E e \in DOMAIN tab["ext"] : tab["ext"][e].number = n /\ tab["ext"][e].enabled

TargetsExist(tab) ==
  \A t \in Policies : \A i \in DOMAIN tab[t] : \A tg \in tab[t][i].targets :
    tg[2] \in DOMAIN tab[tg[1]]

\* What the checks of the transactions and commands that made it ensure.
ASSUME ProvisionedAssumption ==
  /\ InitDb \in Database(InitDb.tab) /\ IsTables(InitDb.tab)
  /\ \A t \in Tables : /\ InitDb.next[t] \in 1 .. (InitIds + 1)
                       /\ DOMAIN InitDb.tab[t] \subseteq 1 .. (InitDb.next[t] - 1)
  /\ RoutesStand(InitDb.tab, {}) /\ TargetsExist(InitDb.tab)
  /\ validate_cdr_spool_limits(InitDb.limits)

------------------------------------------------------------------------------
\* Loading

EmptyTabs == [t \in Tables |-> [i \in {} |-> 0]]

\* Mutant: a sequence is set back to its table.
MutantSeed(d) ==
  [d EXCEPT !.next = [t \in Tables |-> Last(DOMAIN d.tab[t]) + 1]]

\* migrate_domain_db, run whenever the database is opened: a sequence is never behind its table.
seed_config_sequences(d) ==
  [d EXCEPT !.next = [t \in Tables |->
     IF t = "agent" THEN d.next[t] ELSE Max2(d.next[t], Last(DOMAIN d.tab[t]) + 1)]]

\* What load_runtime_config reads when nothing else runs.
Loaded(d) ==
  [domain |-> d.domain, limits |-> d.limits, trace |-> d.trace,
   tab |-> IF d.domain = "absent" THEN EmptyTabs ELSE d.tab,
   version |-> IF d.domain = "absent" THEN 1 ELSE Max2(d.version, d.rowVersion)]

\* The first half: settings, the domain's row, and the resources.
LoadResources(d) ==
  [Loaded(d) EXCEPT !.tab = [t \in Tables |-> IF t \in Resources THEN @[t] ELSE EmptyTabs[t]]]

\* Mutant: the agents are not loaded.
MutantLoadReferrers(d, half) ==
  IF half.domain = "absent" THEN half
  ELSE [half EXCEPT !.tab = [t \in Tables |->
          IF t \in Resources \cup {"agent"} THEN @[t] ELSE d.tab[t]],
                    !.version = Max2(d.version, @)]

\* The second half: routes, policies, agents and the version of the domain.
LoadReferrers(d, half) ==
  IF half.domain = "absent" THEN half
  ELSE [half EXCEPT !.tab = [t \in Tables |-> IF t \in Resources THEN @[t] ELSE d.tab[t]],
                    !.version = Max2(d.version, @)]

\* load_domain_config failed: the domain is left out, the rest of the load goes on.
DroppedDomain(half) == [half EXCEPT !.domain = "absent", !.tab = EmptyTabs, !.version = 1]

\* RuntimeConfigStore::replace
Replaced(current, next) == [next EXCEPT !.version = Max2(@, current.version + 1)]

------------------------------------------------------------------------------
\* Transactions.  Opening the domain's database migrates it first.

Opened == seed_config_sequences(db)

Row(t, id) == db.tab[t][id]
Exists(q) == q.id \in DOMAIN db.tab[q.table]

\* allocate_id for every row of the batch, the rows, and the domain's version.
InsertRows(q) ==
  LET first == Opened.next[q.table]
      new == first .. (first + Len(q.rows) - 1)
  IN db' = [Opened EXCEPT
              !.tab[q.table] = [i \in DOMAIN @ \cup new |->
                                  IF i \in new THEN q.rows[i - first + 1] ELSE @[i]],
              !.next[q.table] = first + Len(q.rows),
              !.version = @ + 1]

UpdateRow(q) ==
  /\ Exists(q)
  /\ db' = [Opened EXCEPT !.tab[q.table][q.id] = q.rows[1], !.version = @ + 1]

DeleteRow(q) ==
  /\ Exists(q)
  /\ db' = [Opened EXCEPT !.tab[q.table] = [i \in DOMAIN @ \ {q.id} |-> @[i]], !.version = @ + 1]

\* Extensions: numbers are unique and immutable.
NumberFree(t, id, number) == \A i \in DOMAIN db.tab[t] : i # id => db.tab[t][i].number # number

insert_extensions(q) ==
  /\ \A k \in DOMAIN q.rows : NumberFree("ext", 0, q.rows[k].number)
  /\ \A i, j \in DOMAIN q.rows : i # j => q.rows[i].number # q.rows[j].number
  /\ InsertRows(q)

update_extension(q) ==
  /\ Exists(q) /\ q.rows[1].number = Row("ext", q.id).number
  /\ ~q.rows[1].enabled => ~ExtensionReferenced(db.tab, q.rows[1].number)
  /\ UpdateRow(q)

delete_extension(q) ==
  /\ Exists(q) /\ ~ExtensionReferenced(db.tab, Row("ext", q.id).number)
  /\ DeleteRow(q)

\* Peer trunks
insert_peer(q) == InsertRows(q)

update_peer(q) ==
  /\ ~q.rows[1].enabled => ~TrunkReferenced(db.tab, <<"peer", q.id>>)
  /\ UpdateRow(q)

delete_peer(q) == ~TrunkReferenced(db.tab, <<"peer", q.id>>) /\ DeleteRow(q)

\* Registered trunks and their accounts
AccountsOf(trunk) == {a \in DOMAIN db.tab["account"] : Row("account", a).trunk = trunk}

insert_reg_trunk(q) == InsertRows(q)

update_reg_trunk(q) ==
  /\ ~q.rows[1].enabled => \A a \in AccountsOf(q.id) : ~TrunkReferenced(db.tab, <<"reg", q.id, a>>)
  /\ UpdateRow(q)

delete_reg_trunk(q) == AccountsOf(q.id) = {} /\ DeleteRow(q)

ensure_reg_trunk_enabled(trunk) == trunk \in DOMAIN db.tab["reg"] /\ Row("reg", trunk).enabled

insert_reg_account(q) ==
  /\ \A k \in DOMAIN q.rows : ensure_reg_trunk_enabled(q.rows[k].trunk)
  /\ InsertRows(q)

\* Only the reference under the NEW trunk is looked up, and only when disabling.
update_reg_account(q) ==
  LET r == q.rows[1] IN
  /\ r.trunk \in DOMAIN db.tab["reg"]
  /\ r.enabled => Row("reg", r.trunk).enabled
  /\ ~r.enabled => ~TrunkReferenced(db.tab, <<"reg", r.trunk, q.id>>)
  /\ UpdateRow(q)

delete_reg_account(q) ==
  /\ Exists(q) /\ ~TrunkReferenced(db.tab, <<"reg", Row("account", q.id).trunk, q.id>>)
  /\ DeleteRow(q)

\* Routes: the references are checked again, on the tables.
insert_inbound(q) ==
  (\A k \in DOMAIN q.rows : validate_inbound_references(db.tab, q.rows[k])) /\ InsertRows(q)
update_inbound(q) == validate_inbound_references(db.tab, q.rows[1]) /\ UpdateRow(q)

\* Mutant: the check on the snapshot is trusted.
MutantInsertOutbound(q) == InsertRows(q)
insert_outbound(q) ==
  (\A k \in DOMAIN q.rows : validate_trunk_refs(db.tab, q.rows[k].refs)) /\ InsertRows(q)
update_outbound(q) == validate_trunk_refs(db.tab, q.rows[1].refs) /\ UpdateRow(q)

delete_route(q) == DeleteRow(q)

\* Policies: nothing is checked again.
insert_policy(q) == InsertRows(q)
update_policy(q) == UpdateRow(q)
delete_policy(q) == DeleteRow(q)

\* AI agents: the service number is unique among agents.
insert_agent(q) == NumberFree("agent", 0, q.rows[1].number) /\ InsertRows(q)
update_agent(q) == NumberFree("agent", q.id, q.rows[1].number) /\ UpdateRow(q)
delete_agent(q) == DeleteRow(q)

\* An insert of a domain that exists is an update, and an update of one that is gone an insert.
upsert_domain ==
  db' = [db EXCEPT !.domain = "present", !.rowVersion = IF db.domain = "absent" THEN 1 ELSE @ + 1]

\* Only the row goes: the domain's own database stays on disk.
delete_domain == db.domain # "absent" /\ db' = [db EXCEPT !.domain = "absent"]

write_setting(q) ==
  LET r == q.rows[1] IN
  db' = IF r.key = "trace" THEN [db EXCEPT !.trace = r.value]
        ELSE [db EXCEPT !.limits[r.key] = r.value]

OfTable(q, t, op) == q.table = t /\ q.op = op

TableTransaction(q) ==
  \/ OfTable(q, "ext", "insert") /\ insert_extensions(q)
  \/ OfTable(q, "ext", "update") /\ update_extension(q)
  \/ OfTable(q, "ext", "delete") /\ delete_extension(q)
  \/ OfTable(q, "peer", "insert") /\ insert_peer(q)
  \/ OfTable(q, "peer", "update") /\ update_peer(q)
  \/ OfTable(q, "peer", "delete") /\ delete_peer(q)
  \/ OfTable(q, "reg", "insert") /\ insert_reg_trunk(q)
  \/ OfTable(q, "reg", "update") /\ update_reg_trunk(q)
  \/ OfTable(q, "reg", "delete") /\ delete_reg_trunk(q)
  \/ OfTable(q, "account", "insert") /\ insert_reg_account(q)
  \/ OfTable(q, "account", "update") /\ update_reg_account(q)
  \/ OfTable(q, "account", "delete") /\ delete_reg_account(q)
  \/ OfTable(q, "inbound", "insert") /\ insert_inbound(q)
  \/ OfTable(q, "inbound", "update") /\ update_inbound(q)
  \/ OfTable(q, "outbound", "insert") /\ insert_outbound(q)
  \/ OfTable(q, "outbound", "update") /\ update_outbound(q)
  \/ q.table \in Routes /\ q.op = "delete" /\ delete_route(q)
  \/ q.table \in Policies /\ q.op = "insert" /\ insert_policy(q)
  \/ q.table \in Policies /\ q.op = "update" /\ update_policy(q)
  \/ q.table \in Policies /\ q.op = "delete" /\ delete_policy(q)
  \/ OfTable(q, "agent", "insert") /\ insert_agent(q)
  \/ OfTable(q, "agent", "update") /\ update_agent(q)
  \/ OfTable(q, "agent", "delete") /\ delete_agent(q)

Transaction(q) ==
  \/ q.table \in Tables /\ db.domain # "absent" /\ TableTransaction(q)
  \/ q.table = "domain" /\ q.op # "delete" /\ upsert_domain
  \/ q.table = "domain" /\ q.op = "delete" /\ delete_domain
  \/ q.table = "setting" /\ write_setting(q)

------------------------------------------------------------------------------
\* What the handler of each table lets through after its checks on the snapshot `s`

Request(t, op, id, rows) == [table |-> t, op |-> op, id |-> id, rows |-> rows]

\* insert, and batch_insert in one transaction; policies and agents take one row.
Inserts(t, rows) ==
  {Request(t, "insert", 0, <<r>>) : r \in rows}
    \cup IF t \in Policies \cup {"agent"} \/ MaxBatch < 2 THEN {}
         ELSE {Request(t, "insert", 0, b) : b \in rows \X rows}

\* An update names some fields and the others are merged from the snapshot's row: a row that
\* differs in one field (several updates make any row).
Updates(t, s, rows) ==
  UNION {{Request(t, "update", id, <<r>>) :
            r \in {r \in rows : Cardinality({f \in DOMAIN r : r[f] # s.tab[t][id][f]}) <= 1}} :
          id \in DOMAIN s.tab[t]}

\* The row of a delete is looked up in the database only ...
Deletes(t, ids) == {Request(t, "delete", id, <<>>) : id \in ids \cap DOMAIN db.tab[t]}

\* ... and the policies that name it in the snapshot only.
NotTargeted(t, s) == {i \in Ids : ~TargetReferenced(s.tab, <<t, i>>)}

ExtensionHandle(s) ==
  Inserts("ext", [number : Numbers, enabled : BOOLEAN])
    \cup {q \in Updates("ext", s, [number : Numbers, enabled : BOOLEAN]) :
            q.rows[1].number = s.tab["ext"][q.id].number}
    \cup Deletes("ext", NotTargeted("ext", s))

PeerTrunkHandle(s) ==
  Inserts("peer", peer_from_set) \cup Updates("peer", s, peer_from_set)
    \cup Deletes("peer", NotTargeted("peer", s))

RegTrunkHandle(s) ==
  Inserts("reg", reg_trunk_from_set) \cup Updates("reg", s, reg_trunk_from_set)
    \cup Deletes("reg", NotTargeted("reg", s))

RegAccountHandle(s) ==
  LET rows == reg_account_from_set(s.tab) IN
  Inserts("account", rows) \cup Updates("account", s, rows) \cup Deletes("account", Ids)

InboundRouteHandle(s) ==
  LET rows == {r \in inbound_from_set(s.tab) : validate_inbound_references(s.tab, r)} IN
  Inserts("inbound", rows) \cup Updates("inbound", s, rows) \cup Deletes("inbound", Ids)

OutboundRouteHandle(s) ==
  LET rows == {r \in outbound_from_set(s.tab) : validate_trunk_refs(s.tab, r.refs)} IN
  Inserts("outbound", rows) \cup Updates("outbound", s, rows) \cup Deletes("outbound", Ids)

PolicyHandle(t, s) ==
  LET rows == {r \in policy_from_set(s.tab) : validate_targets(s.tab, r)} IN
  Inserts(t, rows) \cup Updates(t, s, rows) \cup Deletes(t, Ids)

RecordingPolicyHandle(s) == PolicyHandle("recording", s)
AiPolicyHandle(s) == PolicyHandle("ai_policy", s)

AiAgentHandle(s) ==
  {q \in Inserts("agent", agent_from_set) \cup Updates("agent", s, agent_from_set) :
     validate_agent(s.tab, q.id, q.rows[1])}
    \cup Deletes("agent", Ids)

DomainHandle(s) ==
  {Request("domain", op, 0, <<>>) :
     op \in {"insert", "delete"} \cup (IF s.domain = "absent" THEN {} ELSE {"update"})}

GlobalSettingHandle(s) ==
  {Request("setting", "update", 0, <<r>>) : r \in [key : {"trace"}, value : BOOLEAN]}
    \cup {Request("setting", "update", 0, <<r>>) :
            r \in {r \in [key : LimitNames, value : Limits] :
                     validate_cdr_spool_limits([s.limits EXCEPT ![r.key] = r.value])}}

Requests(s) ==
  UNION {ExtensionHandle(s), PeerTrunkHandle(s), RegTrunkHandle(s), RegAccountHandle(s),
         InboundRouteHandle(s), OutboundRouteHandle(s), RecordingPolicyHandle(s),
         AiPolicyHandle(s), AiAgentHandle(s), DomainHandle(s), GlobalSettingHandle(s)}

------------------------------------------------------------------------------
\* The life of a command

Idle == [phase |-> "idle", q |-> None, load |-> None, alone |-> TRUE, was |-> FALSE]

Busy(c) == cmd[c].phase # "idle"
Quiet == \A c \in Clients : ~Busy(c)
IsSetting(c) == cmd[c].q.table = "setting"

TypeOK ==
  /\ db \in Database(db.tab) /\ IsTables(db.tab)
  /\ \A t \in Tables : DOMAIN db.tab[t] \subseteq 1 .. (db.next[t] - 1)
  /\ snap \in Snapshot(snap.tab) /\ IsTables(snap.tab)
  /\ admission \in [LimitNames -> Limits]
  /\ {changed, traced, settled, disturbed} \subseteq BOOLEAN
  /\ {view, issued, restarts} \subseteq Nat
  /\ \A c \in Clients : cmd[c].phase \in {"idle", "checked", "written", "loading", "loaded", "replaced"}
  /\ moved \subseteq Ids

Init ==
  /\ db = InitDb
  /\ snap = Loaded(InitDb)
  /\ cmd = [c \in Clients |-> Idle]
  /\ admission = InitDb.limits
  /\ view = snap.version /\ changed = FALSE
  /\ traced = FALSE
  /\ moved = {} /\ settled = TRUE /\ disturbed = FALSE
  /\ issued = 0 /\ restarts = 0

\* The handler decodes the command and checks it against the snapshot.  Connections are
\* interchangeable: the first free one takes the command.
Begin(c) ==
  /\ ~Busy(c) /\ \A d \in 1 .. (c - 1) : Busy(d)
  /\ issued < MaxCommands
  /\ \E q \in Requests(snap) :
       cmd' = [d \in Clients |->
                 IF d = c THEN [Idle EXCEPT !.phase = "checked", !.q = q, !.alone = Quiet,
                                            !.was = snap.trace]
                 ELSE [cmd[d] EXCEPT !.alone = FALSE]]
  /\ disturbed' = (disturbed \/ ~Quiet)
  /\ issued' = issued + 1
  /\ UNCHANGED <<db, snap, admission, view, changed, traced, moved, settled, restarts>>

\* A check of the transaction, or the database itself, refuses: nothing was written.
Refuse(c) ==
  /\ cmd[c].phase = "checked"
  /\ cmd' = [cmd EXCEPT ![c] = Idle]
  /\ UNCHANGED <<db, snap, admission, view, changed, traced, moved, settled, disturbed,
                 issued, restarts>>

Commit(c) ==
  LET q == cmd[c].q IN
  /\ cmd[c].phase = "checked"
  /\ Transaction(q)
  /\ moved' = IF q.table = "account" /\ q.op = "update"
                 /\ q.rows[1].trunk # db.tab["account"][q.id].trunk
              THEN moved \cup {q.id} ELSE moved
  /\ settled' = FALSE
  /\ cmd' = [cmd EXCEPT ![c].phase = "written"]
  /\ UNCHANGED <<snap, admission, view, changed, traced, disturbed, issued, restarts>>

LoadFirst(c) ==
  /\ cmd[c].phase = "written"
  /\ cmd' = [cmd EXCEPT ![c].phase = "loading", ![c].load = LoadResources(db)]
  /\ UNCHANGED <<db, snap, admission, view, changed, traced, moved, settled, disturbed,
                 issued, restarts>>

\* A settings command that switched tracing off marks the calls it finds traced.
LoadRest(c) ==
  /\ cmd[c].phase = "loading"
  /\ \E load \in {LoadReferrers(db, cmd[c].load), DroppedDomain(cmd[c].load)} :
       /\ cmd' = [cmd EXCEPT ![c].phase = "loaded", ![c].load = load,
                             ![c].alone = @ /\ load = LoadReferrers(db, cmd[c].load)]
       /\ disturbed' = (disturbed \/ load # LoadReferrers(db, cmd[c].load))
  /\ traced' = (traced /\ ~(IsSetting(c) /\ cmd[c].was /\ ~cmd[c].load.trace))
  /\ UNCHANGED <<db, snap, admission, view, changed, moved, settled, issued, restarts>>

\* The system database cannot be read: the command fails although its write stands.
LoadFails(c) ==
  /\ cmd[c].phase = "written"
  /\ cmd' = [cmd EXCEPT ![c] = Idle]
  /\ disturbed' = TRUE
  /\ UNCHANGED <<db, snap, admission, view, changed, traced, moved, settled, issued, restarts>>

\* Mutant: subscribers are told of newer versions only.
MutantReplace(c) ==
  /\ cmd[c].phase = "loaded"
  /\ snap' = Replaced(snap, cmd[c].load)
  /\ changed' = (changed \/ cmd[c].load.version > snap.version)
  /\ settled' = cmd[c].alone
  /\ cmd' = [cmd EXCEPT ![c] = IF IsSetting(c) THEN [@ EXCEPT !.phase = "replaced"] ELSE Idle]
  /\ UNCHANGED <<db, admission, view, traced, moved, disturbed, issued, restarts>>

Replace(c) ==
  /\ cmd[c].phase = "loaded"
  /\ snap' = Replaced(snap, cmd[c].load)
  /\ changed' = TRUE
  /\ settled' = cmd[c].alone
  /\ cmd' = [cmd EXCEPT ![c] = IF IsSetting(c) THEN [@ EXCEPT !.phase = "replaced"] ELSE Idle]
  /\ UNCHANGED <<db, admission, view, traced, moved, disturbed, issued, restarts>>

\* The end of update_setting: the CDR writer's limits, and the traces once more.
RefreshAdmission(c) ==
  /\ cmd[c].phase = "replaced"
  /\ admission' = cmd[c].load.limits
  /\ traced' = (traced /\ ~(cmd[c].was /\ ~snap.trace))
  /\ cmd' = [cmd EXCEPT ![c] = Idle]
  /\ UNCHANGED <<db, snap, view, changed, moved, settled, disturbed, issued, restarts>>

\* The adapter loop's config_updates.changed() arm.
SendRuntimeView ==
  /\ changed
  /\ view' = snap.version /\ changed' = FALSE
  /\ UNCHANGED <<db, snap, cmd, admission, traced, moved, settled, disturbed, issued, restarts>>

\* A call starts and its messages are recorded, or the traced call ends.  What is said of
\* traces is said of commands that do not overlap, so they are followed only until then.
TraceCall ==
  /\ ~disturbed
  /\ traced' = (~traced /\ snap.trace)
  /\ traced' # traced
  /\ UNCHANGED <<db, snap, cmd, admission, view, changed, moved, settled, disturbed,
                 issued, restarts>>

\* The process stops anywhere and starts again: calls are gone, the database is loaded.
Restart ==
  /\ restarts < MaxRestarts
  /\ restarts' = restarts + 1
  /\ db' = seed_config_sequences(db)
  /\ snap' = Loaded(db)
  /\ cmd' = [c \in Clients |-> Idle]
  /\ admission' = db.limits
  /\ view' = Loaded(db).version /\ changed' = FALSE
  /\ traced' = FALSE /\ settled' = TRUE
  /\ UNCHANGED <<moved, disturbed, issued>>

Step(c) ==
  Commit(c) \/ LoadFirst(c) \/ LoadRest(c) \/ LoadFails(c) \/ Replace(c) \/ RefreshAdmission(c)

Next ==
  \/ \E c \in Clients : Begin(c) \/ Refuse(c) \/ Step(c)
  \/ SendRuntimeView \/ TraceCall \/ Restart

\* A command's task runs to its end, and the adapter loop keeps polling its channel.
Fairness ==
  /\ \A c \in Clients : WF_vars(Refuse(c) \/ Step(c))
  /\ WF_vars(SendRuntimeView)

Spec == Init /\ [][Next]_vars /\ Fairness

------------------------------------------------------------------------------
\* Properties

\* Whatever order commands commit in, every trunk and extension a route of the database names
\* exists and is enabled.  The exception is an account that was moved to another registered
\* trunk: update_reg_account does not look for routes that name it under the old one.
RoutesResolve == RoutesStand(db.tab, moved)

\* As long as commands do not overlap and every load succeeds, no recording or AI policy is
\* left with a target that was deleted: the check made on the snapshot is enough then.
PoliciesResolve == ~disturbed => TargetsExist(db.tab)

\* Under the same condition the three spool limits stay in order, although a command names one
\* of them and is checked against the snapshot's other two.
LimitsOrdered == ~disturbed => validate_cdr_spool_limits(db.limits)

\* A command that ran alone leaves the snapshot equal to the database, whatever stale, torn or
\* failed loads went before it.
SettledSnapshot ==
  settled => [Loaded(db) EXCEPT !.version = 0] = [snap EXCEPT !.version = 0]

\* When commands do not overlap, the CDR writer works with the limits of the snapshot.
WriterFollowsSettings == (~disturbed /\ Quiet) => admission = snap.limits

\* Calls that were being traced when tracing was switched off are marked incomplete, those
\* too that started between the load and the replacement of the snapshot.
TraceGapMarked == (~disturbed /\ Quiet /\ ~snap.trace) => ~traced

\* Commands that do not overlap keep what is checked against the snapshot only: the targets of
\* policies, the order of the limits, the CDR writer's limits and the marks of traced calls.
SequentialCommandsSafe ==
  TypeOK /\ PoliciesResolve /\ LimitsOrdered /\ WriterFollowsSettings /\ TraceGapMarked

\* The id of a deleted row is never given to another row: a stale reference to it, in a policy
\* or in an older snapshot, cannot come to mean a different resource.
IdsNotReused ==
  [][\A t \in Tables : \A i \in 1 .. (db.next[t] - 1) :
       i \notin DOMAIN db.tab[t] => i \notin DOMAIN db'.tab[t]]_vars

\* The adapter ends with the revision of the snapshot that calls are routed by.
AdapterCatchesUp == <>[](view = snap.version)

==============================================================================
