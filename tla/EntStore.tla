------------------------------ MODULE EntStore ------------------------------
(***************************************************************************)
(* What the generated ent client does with the tables of the database.    *)
(* A table is a function from the ids that exist to rows.  A builder       *)
(* carries a mutation, a record of the columns that were set; saving it    *)
(* yields the new table and an error, "none" when it succeeded.  A query   *)
(* asks for rows whose columns have the values of a record.  Every         *)
(* statement is one atomic step of PostgreSQL.                             *)
(*                                                                         *)
(* The columns are those that other code tells rows apart by; the times    *)
(* that every row carries are left out.                                    *)
(***************************************************************************)
EXTENDS Naturals, FiniteSets

Succeeds(t) == [table |-> t, err |-> "none"]
Fails(t, e) == [table |-> t, err |-> e]

Put(t, id, row) == [i \in DOMAIN t \cup {id} |-> IF i = id THEN row ELSE t[i]]
Without(t, ids) == [i \in DOMAIN t \ ids |-> t[i]]

\* The columns a mutation has set, and those of the row it has not.
Mutated(row, m, fields) == [c \in DOMAIN row |-> IF c \in fields THEN m[c] ELSE row[c]]

\* Columns that were not set on a create builder get their defaults.
Filled(m, defaults) ==
    [c \in DOMAIN m \cup DOMAIN defaults |-> IF c \in DOMAIN m THEN m[c] ELSE defaults[c]]

Clashes(t, id, row, columns) ==
    \E i \in DOMAIN t \ {id} : \A c \in columns : t[i][c] = row[c]

\* Create: the builder checks its columns, the database its constraints.
Inserted(t, id, row, valid, unique, refers) ==
    CASE ~valid -> Fails(t, "validation")
      [] valid /\ (~refers \/ id \in DOMAIN t \/ \E u \in unique : Clashes(t, id, row, u)) ->
            Fails(t, "constraint")
      [] OTHER -> Succeeds(Put(t, id, row))

\* UpdateOne: a missing row is an error, a clash too.
Rewritten(t, id, m, fields, unique) ==
    IF id \notin DOMAIN t THEN Fails(t, "not_found")
    ELSE LET row == Mutated(t[id], m, fields) IN
         IF \E u \in unique : Clashes(t, id, row, u)
         THEN Fails(t, "constraint")
         ELSE Succeeds(Put(t, id, row))

\* Update: rows that do not match are left alone, and none may match.
RewrittenAll(t, ids, m, fields) ==
    Succeeds([i \in DOMAIN t |-> IF i \in ids THEN Mutated(t[i], m, fields) ELSE t[i]])

\* DeleteOne: a row that others refer to stays (ON DELETE NO ACTION).
Removed(t, id, referred) ==
    IF id \notin DOMAIN t THEN Fails(t, "not_found")
    ELSE IF referred THEN Fails(t, "constraint")
    ELSE Succeeds(Without(t, {id}))

\* Only: one row, or an error for none or several, here 0.
One(ids) == IF Cardinality(ids) = 1 THEN CHOOSE i \in ids : TRUE ELSE 0

Refers(rows, column, id) == \E i \in DOMAIN rows : rows[i][column] = id

-----------------------------------------------------------------------------
(* Users.  Id 0 is never given out; no plan is "".                         *)

UserColumns == {"uid", "email", "role", "active", "plan"}
UserUnique == {{"uid"}, {"email"}}
UserFields(m) == DOMAIN m \cap UserColumns
UserDefaults == [role |-> "user", active |-> TRUE, plan |-> ""]
UserCheck(m) == {"uid", "email", "role", "active"} \subseteq UserFields(m)
UserSpec(m) == [c \in UserColumns |-> Filled(m, UserDefaults)[c]]
UserNew(uid, email) == [uid |-> uid, email |-> email]

\* The bug: the migration lacks the unique indexes.
UserCreateUnindexed(t, id, m) == Inserted(t, id, UserSpec(m), UserCheck(Filled(m, UserDefaults)), {}, TRUE)

UserCreate(t, id, m) == Inserted(t, id, UserSpec(m), UserCheck(Filled(m, UserDefaults)), UserUnique, TRUE)
UserUpdateOne(t, id, m) == Rewritten(t, id, m, UserFields(m), UserUnique)
UserDelete(t, id, sessions, tokens, tunnels) ==
    Removed(t, id, Refers(sessions, "owner", id) \/ Refers(tokens, "owner", id) \/ Refers(tunnels, "owner", id))
UserEQ(row, m) == \A c \in UserFields(m) : row[c] = m[c]
UserWhere(t, m) == {i \in DOMAIN t : UserEQ(t[i], m)}
UserOnly(t, m) == One(UserWhere(t, m))
UserRow(t, id) == [c \in UserColumns |-> t[id][c]]
UserGet(t, id) == One(DOMAIN t \cap {id})

-----------------------------------------------------------------------------
(* Sessions.  The token is unique and stands for the row; times are        *)
(* abstracted to whether they have passed.                                 *)

SessionColumns == {"owner", "active", "expired", "idle"}
SessionFields(m) == DOMAIN m \cap SessionColumns
SessionDefaults == [active |-> TRUE]
SessionCheck(m) == SessionColumns \subseteq SessionFields(m)
SessionSpec(m) == [c \in SessionColumns |-> Filled(m, SessionDefaults)[c]]
SessionNew(owner) == [owner |-> owner, expired |-> FALSE, idle |-> FALSE]
SessionCreate(t, token, m, users) ==
    Inserted(t, token, SessionSpec(m), SessionCheck(Filled(m, SessionDefaults)), {}, m.owner \in DOMAIN users)
SessionUpdateOne(t, id, m) == Rewritten(t, id, m, SessionFields(m), {})
SessionUpdate(t, ids, m) == RewrittenAll(t, ids, m, SessionFields(m))
SessionDelete(t, ids) == Succeeds(Without(t, ids))
SessionEQ(row, m) == \A c \in SessionFields(m) : row[c] = m[c]
SessionWhere(t, m) == {i \in DOMAIN t : SessionEQ(t[i], m)}
SessionOnly(t, m, token) == One(SessionWhere(t, m) \cap {token})
SessionRow(t, token) == [c \in SessionColumns |-> t[token][c]]
QueryOwner(t, token) == IF token \in DOMAIN t THEN SessionRow(t, token).owner ELSE 0

-----------------------------------------------------------------------------
(* API tokens: stored by their hash, which stands for the row.             *)

TokenColumns == {"owner", "revoked", "expired"}
TokenFields(m) == DOMAIN m \cap TokenColumns
TokenDefaults == [revoked |-> FALSE]
TokenCheck(m) == {"owner", "expired"} \subseteq TokenFields(m)
TokenSpec(m) == [c \in TokenColumns |-> Filled(m, TokenDefaults)[c]]
TokenNew(owner) == [owner |-> owner, expired |-> FALSE]
TokenCreate(t, id, m, users) ==
    Inserted(t, id, TokenSpec(m), TokenCheck(Filled(m, TokenDefaults)), {}, m.owner \in DOMAIN users)
TokenUpdateOne(t, id, m) == Rewritten(t, id, m, TokenFields(m), {})
TokenEQ(row, m) == \A c \in TokenFields(m) : row[c] = m[c]
TokenWhere(t, m) == {i \in DOMAIN t : TokenEQ(t[i], m)}
TokenOnly(t, m, id) == One(TokenWhere(t, m) \cap {id})
TokenRow(t, id) == [c \in TokenColumns |-> t[id][c]]

-----------------------------------------------------------------------------
(* Tunnels.  "pending" is the DNS status pending_dns; "online" a client's   *)
(* address that is set.                                                    *)

TunnelColumns == {"domain", "owner", "enabled", "pending", "online"}
TunnelUnique == {{"domain"}}
TunnelFields(m) == DOMAIN m \cap TunnelColumns
TunnelDefaults == [enabled |-> TRUE, pending |-> FALSE, online |-> FALSE]
TunnelCheck(m) == {"domain", "owner", "enabled", "pending"} \subseteq TunnelFields(m)
TunnelSpec(m) == [c \in TunnelColumns |-> Filled(m, TunnelDefaults)[c]]
TunnelNew(domain, owner, enabled) == [domain |-> domain, owner |-> owner, enabled |-> enabled]
TunnelCreate(t, id, m, users) ==
    Inserted(t, id, TunnelSpec(m), TunnelCheck(Filled(m, TunnelDefaults)), TunnelUnique, m.owner \in DOMAIN users)
TunnelUpdateOne(t, id, m) == Rewritten(t, id, m, TunnelFields(m), TunnelUnique)
TunnelDelete(t, id) == Removed(t, id, FALSE)
TunnelEQ(row, m) == \A c \in TunnelFields(m) : row[c] = m[c]
TunnelWhere(t, m) == {i \in DOMAIN t : TunnelEQ(t[i], m)}
TunnelRow(t, id) == [c \in TunnelColumns |-> t[id][c]]
TunnelAll(t, m) == {TunnelRow(t, i) : i \in TunnelWhere(t, m)}

-----------------------------------------------------------------------------
(* Usage: one row for a period, a user and a domain's tunnel.  Neither is a *)
(* foreign key.  The three counters are treated alike.                     *)

UsageColumns == {"period", "user", "domain", "bytes"}
UsageUnique == {{"period", "user", "domain"}}
UsageFields(m) == DOMAIN m \cap UsageColumns
UsageDefaults == [bytes |-> 0]
UsageCheck(m) == UsageColumns \subseteq UsageFields(m)
UsageSpec(m) == [c \in UsageColumns |-> Filled(m, UsageDefaults)[c]]
UsageNew(period, user, domain, bytes) == [period |-> period, user |-> user, domain |-> domain, bytes |-> bytes]
UsageCreate(t, id, m) == Inserted(t, id, UsageSpec(m), UsageCheck(Filled(m, UsageDefaults)), UsageUnique, TRUE)
UsageUpdateOne(t, id, m) == Rewritten(t, id, m, UsageFields(m), UsageUnique)
UsageEQ(row, m) == \A c \in UsageFields(m) : row[c] = m[c]
UsageWhere(t, m) == {i \in DOMAIN t : UsageEQ(t[i], m)}
UsageOnly(t, m) == One(UsageWhere(t, m))
UsageAll(t, m) == UsageWhere(t, m)
UsageRow(t, id) == [c \in UsageColumns |-> t[id][c]]

-----------------------------------------------------------------------------
(* Plans.                                                                  *)

PlanColumns == {"name", "limit", "active"}
PlanUnique == {{"name"}}
PlanFields(m) == DOMAIN m \cap PlanColumns
PlanDefaults == [active |-> TRUE]
PlanCheck(m) == {"name", "limit", "active"} \subseteq PlanFields(m)
PlanSpec(m) == [c \in PlanColumns |-> Filled(m, PlanDefaults)[c]]
PlanNew(name, limit) == [name |-> name, limit |-> limit, active |-> TRUE]
PlanCreate(t, id, m) == Inserted(t, id, PlanSpec(m), PlanCheck(Filled(m, PlanDefaults)), PlanUnique, TRUE)
PlanEQ(row, m) == \A c \in PlanFields(m) : row[c] = m[c]
PlanWhere(t, m) == {i \in DOMAIN t : PlanEQ(t[i], m)}
PlanOnly(t, m) == One(PlanWhere(t, m))
PlanExist(t, m) == PlanWhere(t, m) # {}
PlanRow(t, id) == [c \in PlanColumns |-> t[id][c]]

-----------------------------------------------------------------------------
(* Client versions.  The id is made of the channel, the platform and the   *)
(* architecture, which are unique together.                                *)

ClientVersionColumns == {"latest", "minimum", "force"}
ClientVersionFields(m) == DOMAIN m \cap ClientVersionColumns
ClientVersionDefaults == [force |-> FALSE]
ClientVersionCheck(m) == ClientVersionColumns \subseteq ClientVersionFields(m)
ClientVersionSpec(m) == [c \in ClientVersionColumns |-> Filled(m, ClientVersionDefaults)[c]]
ClientVersionCreate(t, id, m) ==
    Inserted(t, id, ClientVersionSpec(m), ClientVersionCheck(Filled(m, ClientVersionDefaults)), {}, TRUE)
ClientVersionUpdateOne(t, id, m) == Rewritten(t, id, m, ClientVersionFields(m), {})
ClientVersionExist(t, key) == key \in DOMAIN t
ClientVersionRow(t, id) == [c \in ClientVersionColumns |-> t[id][c]]
=============================================================================
