-------------------------- MODULE Accounts_proofs --------------------------
(***************************************************************************)
(* Proofs about the accounts, for any number of requests, users, sessions  *)
(* and tokens: what the statements of EntStore do to the tables, then what *)
(* every step of a request leaves true.                                    *)
(***************************************************************************)
EXTENDS Accounts, FiniteSetTheorems, TLAPS

-----------------------------------------------------------------------------
(* The database.                                                           *)

\* Only returns a row that matches, or 0.
LEMMA OneIsMember ==
    ASSUME NEW S, One(S) # 0
    PROVE  One(S) \in S
  BY FS_EmptySet DEF One

\* A query for one id finds it when it matches.
LEMMA OneOfOne ==
    ASSUME NEW S, NEW x
    PROVE  /\ One(S \cap {x}) # 0 => One(S \cap {x}) = x /\ x \in S
           /\ x # 0 /\ x \in S => One(S \cap {x}) = x
<1>1. One(S \cap {x}) # 0 => One(S \cap {x}) = x /\ x \in S
  BY OneIsMember
<1>2. x \in S => S \cap {x} = {x}
  OBVIOUS
<1>3. x \in S => Cardinality(S \cap {x}) = 1
  BY <1>2, FS_Singleton
<1>4. x \in S => One(S \cap {x}) = x
  BY <1>2, <1>3 DEF One
<1>5. QED
  BY <1>1, <1>4

\* The sessions t became u: some may be gone, none came to life again.
SessionsWane(t, u) ==
    /\ DOMAIN u \subseteq DOMAIN t /\ u \in [DOMAIN u -> SessionRows]
    /\ \A x \in DOMAIN u : /\ u[x].owner = t[x].owner
                           /\ u[x].active => t[x].active
                           /\ t[x].expired => u[x].expired

Ended(u, s) == s \in DOMAIN u => ~u[s].active

\* An update that sets a session's last use, or revokes it.
LEMMA SessionRewritten ==
    ASSUME NEW t, t \in [DOMAIN t -> SessionRows], NEW s, NEW m \in {[idle |-> FALSE], [active |-> FALSE]},
           NEW u, u = SessionUpdateOne(t, s, m).table
    PROVE  SessionsWane(t, u) /\ (m = [active |-> FALSE] => Ended(u, s))
<1> DEFINE row == Mutated(t[s], m, SessionFields(m))
<1> USE DEF SessionsWane, Ended
<1>1. CASE s \notin DOMAIN t
  BY <1>1 DEF SessionUpdateOne, Rewritten, Fails
<1>2. CASE s \in DOMAIN t
  <2>1. u = Put(t, s, row)
    BY <1>2 DEF SessionUpdateOne, Rewritten, Succeeds
  <2>2. t[s] \in SessionRows /\ DOMAIN t[s] = SessionColumns
    BY <1>2 DEF SessionRows, SessionColumns
  <2>3. /\ row = [c \in SessionColumns |-> IF c \in SessionFields(m) THEN m[c] ELSE t[s][c]]
    BY <2>2 DEF Mutated
  <2> HIDE DEF row
  <2>4. /\ row \in SessionRows
        /\ row.owner = t[s].owner /\ (row.active => t[s].active) /\ row.expired = t[s].expired
        /\ m = [active |-> FALSE] => ~row.active
    <3>1. CASE m = [idle |-> FALSE]
      <4>1. SessionFields(m) = {"idle"}
        BY <3>1 DEF SessionFields, SessionColumns
      <4>2. row = [owner |-> t[s].owner, active |-> t[s].active, expired |-> t[s].expired, idle |-> FALSE]
        BY <2>2, <2>3, <3>1, <4>1 DEF SessionColumns
      <4>3. row \in SessionRows /\ row.owner = t[s].owner /\ row.active = t[s].active /\ row.expired = t[s].expired
        BY <2>2, <4>2 DEF SessionRows
      <4>4. DOMAIN m = {"idle"} /\ DOMAIN [active |-> FALSE] = {"active"}
        BY <3>1
      <4>5. m # [active |-> FALSE]
        BY <4>4
      <4>6. QED
        BY <4>3, <4>5
    <3>2. CASE m = [active |-> FALSE]
      <4>1. SessionFields(m) = {"active"}
        BY <3>2 DEF SessionFields, SessionColumns
      <4>2. row = [owner |-> t[s].owner, active |-> FALSE, expired |-> t[s].expired, idle |-> t[s].idle]
        BY <2>2, <2>3, <3>2, <4>1 DEF SessionColumns
      <4>3. row \in SessionRows /\ row.owner = t[s].owner /\ ~row.active /\ row.expired = t[s].expired
        BY <2>2, <4>2 DEF SessionRows
      <4>4. QED
        BY <4>3
    <3>3. QED
      BY <3>1, <3>2
  <2>5. QED
    BY <1>2, <2>1, <2>4 DEF Put
<1>3. QED
  BY <1>1, <1>2

NewSession(owner) == [owner |-> owner, active |-> TRUE, expired |-> FALSE, idle |-> FALSE]

SessionPut(t, u, id, owner, us) ==
    owner \in DOMAIN us /\ id \notin DOMAIN t /\ u = Put(t, id, NewSession(owner))

\* A new session is active and has an owner.
LEMMA SessionInserted ==
    ASSUME NEW t, NEW id, NEW owner, NEW us,
           NEW r, r = SessionCreate(t, id, SessionNew(owner), us)
    PROVE  IF r.err = "none" THEN SessionPut(t, r.table, id, owner, us) ELSE r.table = t
<1> USE DEF SessionPut, NewSession
<1> DEFINE m == SessionNew(owner)
           valid == SessionCheck(Filled(m, SessionDefaults))
           row == SessionSpec(m)
<1>1. row = [owner |-> owner, active |-> TRUE, expired |-> FALSE, idle |-> FALSE]
  <2>1. DOMAIN m = {"owner", "expired", "idle"} /\ DOMAIN SessionDefaults = {"active"}
    BY DEF SessionNew, SessionDefaults
  <2>2. /\ Filled(m, SessionDefaults)["owner"] = owner /\ Filled(m, SessionDefaults)["active"] = TRUE
        /\ Filled(m, SessionDefaults)["expired"] = FALSE /\ Filled(m, SessionDefaults)["idle"] = FALSE
    BY <2>1 DEF Filled, SessionNew, SessionDefaults
  <2> DEFINE f == Filled(m, SessionDefaults)
  <2>3. row = [c \in SessionColumns |-> f[c]]
    BY DEF SessionSpec
  <2> HIDE DEF f, m
  <2>4. QED
    BY <2>2, <2>3 DEF SessionColumns, f
<1>2. m.owner = owner
  BY DEF SessionNew
<1>3. SessionCreate(t, id, m, us) = Inserted(t, id, row, valid, {}, m.owner \in DOMAIN us)
  BY DEF SessionCreate
<1> HIDE DEF m, valid, row
<1>4. CASE ~valid
  BY <1>3, <1>4 DEF Inserted, Fails, m
<1>5. CASE valid /\ (owner \notin DOMAIN us \/ id \in DOMAIN t)
  BY <1>2, <1>3, <1>5 DEF Inserted, Fails, m
<1>6. CASE valid /\ owner \in DOMAIN us /\ id \notin DOMAIN t
  BY <1>1, <1>2, <1>3, <1>6 DEF Inserted, Succeeds, m
<1>7. QED
  BY <1>4, <1>5, <1>6

NewToken(owner) == [owner |-> owner, revoked |-> FALSE, expired |-> FALSE]

TokenPut(t, u, id, owner, us) ==
    owner \in DOMAIN us /\ id \notin DOMAIN t /\ u = Put(t, id, NewToken(owner))

\* A new token is not revoked and has an owner.
LEMMA TokenInserted ==
    ASSUME NEW t, NEW id, NEW owner, NEW us,
           NEW r, r = TokenCreate(t, id, TokenNew(owner), us)
    PROVE  r.table = t \/ TokenPut(t, r.table, id, owner, us)
<1> USE DEF TokenPut, NewToken
<1> DEFINE m == TokenNew(owner)
           valid == TokenCheck(Filled(m, TokenDefaults))
           row == TokenSpec(m)
<1>1. row = [owner |-> owner, revoked |-> FALSE, expired |-> FALSE]
  <2>1. DOMAIN m = {"owner", "expired"} /\ DOMAIN TokenDefaults = {"revoked"}
    BY DEF TokenNew, TokenDefaults
  <2>2. /\ Filled(m, TokenDefaults)["owner"] = owner /\ Filled(m, TokenDefaults)["revoked"] = FALSE
        /\ Filled(m, TokenDefaults)["expired"] = FALSE
    BY <2>1 DEF Filled, TokenNew, TokenDefaults
  <2> DEFINE f == Filled(m, TokenDefaults)
  <2>3. row = [c \in TokenColumns |-> f[c]]
    BY DEF TokenSpec
  <2> HIDE DEF f, m
  <2>4. QED
    BY <2>2, <2>3 DEF TokenColumns, f
<1>2. m.owner = owner
  BY DEF TokenNew
<1>3. TokenCreate(t, id, m, us) = Inserted(t, id, row, valid, {}, m.owner \in DOMAIN us)
  BY DEF TokenCreate
<1> HIDE DEF m, valid, row
<1>4. CASE ~valid
  BY <1>3, <1>4 DEF Inserted, Fails, m
<1>5. CASE valid /\ (owner \notin DOMAIN us \/ id \in DOMAIN t)
  BY <1>2, <1>3, <1>5 DEF Inserted, Fails, m
<1>6. CASE valid /\ owner \in DOMAIN us /\ id \notin DOMAIN t
  BY <1>1, <1>2, <1>3, <1>6 DEF Inserted, Succeeds, m
<1>7. QED
  BY <1>4, <1>5, <1>6

\* Rows that do not clash on the unique columns differ in both.
LEMMA NoUserClash ==
    ASSUME NEW t, NEW id, NEW row, \A u \in UserUnique : ~Clashes(t, id, row, u)
    PROVE  \A i \in DOMAIN t \ {id} : t[i].uid # row.uid /\ t[i].email # row.email
<1>1. ~Clashes(t, id, row, {"uid"}) /\ ~Clashes(t, id, row, {"email"})
  BY DEF UserUnique
<1>2. QED
  BY <1>1 DEF Clashes

NewUser(uid) == [uid |-> uid, email |-> uid, role |-> "user", active |-> TRUE, plan |-> ""]

UserPut(t, u, id, uid) ==
    /\ id \notin DOMAIN t /\ u = Put(t, id, NewUser(uid))
    /\ \A i \in DOMAIN t : t[i].uid # uid /\ t[i].email # uid

\* A new user has the uid and an email that nobody else has.
LEMMA UserInserted ==
    ASSUME NEW t, NEW id, NEW uid,
           NEW r, r = UserCreate(t, id, UserNew(uid, uid))
    PROVE  IF r.err = "none" THEN UserPut(t, r.table, id, uid) ELSE r.table = t
<1> USE DEF UserPut, NewUser
<1> DEFINE m == UserNew(uid, uid)
           valid == UserCheck(Filled(m, UserDefaults))
           row == UserSpec(m)
<1>1. row = [uid |-> uid, email |-> uid, role |-> "user", active |-> TRUE, plan |-> ""]
  <2>1. DOMAIN m = {"uid", "email"} /\ DOMAIN UserDefaults = {"role", "active", "plan"}
    BY DEF UserNew, UserDefaults
  <2>2. /\ Filled(m, UserDefaults)["uid"] = uid /\ Filled(m, UserDefaults)["email"] = uid
        /\ Filled(m, UserDefaults)["role"] = "user" /\ Filled(m, UserDefaults)["active"] = TRUE
        /\ Filled(m, UserDefaults)["plan"] = ""
    BY <2>1 DEF Filled, UserNew, UserDefaults
  <2> DEFINE f == Filled(m, UserDefaults)
  <2>3. row = [c \in UserColumns |-> f[c]]
    BY DEF UserSpec
  <2> HIDE DEF f, m
  <2>4. QED
    BY <2>2, <2>3 DEF UserColumns, f
<1>2. r = Inserted(t, id, row, valid, UserUnique, TRUE)
  BY DEF UserCreate
<1> HIDE DEF m, valid, row
<1>3. row.uid = uid /\ row.email = uid
  BY <1>1
<1>4. \/ r.err # "none" /\ r.table = t
      \/ /\ r.err = "none" /\ id \notin DOMAIN t /\ r.table = Put(t, id, row)
         /\ \A u \in UserUnique : ~Clashes(t, id, row, u)
  <2>1. CASE ~valid
    BY <1>2, <2>1 DEF Inserted, Fails
  <2>2. CASE valid /\ (id \in DOMAIN t \/ \E u \in UserUnique : Clashes(t, id, row, u))
    BY <1>2, <2>2 DEF Inserted, Fails
  <2>3. CASE valid /\ id \notin DOMAIN t /\ \A u \in UserUnique : ~Clashes(t, id, row, u)
    BY <1>2, <2>3 DEF Inserted, Succeeds
  <2>4. QED
    BY <2>1, <2>2, <2>3
<1>5. ASSUME id \notin DOMAIN t, \A u \in UserUnique : ~Clashes(t, id, row, u)
      PROVE  \A i \in DOMAIN t : t[i].uid # uid /\ t[i].email # uid
  <2>1. \A i \in DOMAIN t \ {id} : t[i].uid # row.uid /\ t[i].email # row.email
    BY <1>5, NoUserClash
  <2>2. QED
    BY <1>3, <1>5, <2>1
<1>6. QED
  BY <1>1, <1>4, <1>5

\* The row id of t was rewritten.
OneUserRewritten(t, u, id) ==
    /\ id \in DOMAIN t
    /\ \E row \in UserRows :
          /\ u = Put(t, id, row) /\ row.uid = t[id].uid
          /\ \A i \in DOMAIN t \ {id} : t[i].uid # row.uid /\ t[i].email # row.email

\* An update of a user never changes the uid, and its email is nobody else's.
LEMMA UserRewritten ==
    ASSUME NEW t, t \in [DOMAIN t -> UserRows], NEW id, NEW a \in BOOLEAN, NEW e \in Uids,
           NEW m, m = <<>> \/ m = [active |-> a] \/ m = [active |-> a, email |-> e],
           NEW u, u = UserUpdateOne(t, id, m).table
    PROVE  u = t \/ OneUserRewritten(t, u, id)
<1> USE DEF OneUserRewritten
<1> DEFINE row == Mutated(t[id], m, UserFields(m))
<1>1. CASE id \notin DOMAIN t
  BY <1>1 DEF UserUpdateOne, Rewritten, Fails
<1>2. CASE id \in DOMAIN t /\ \E c \in UserUnique : Clashes(t, id, row, c)
  BY <1>2 DEF UserUpdateOne, Rewritten, Fails
<1>3. CASE id \in DOMAIN t /\ \A c \in UserUnique : ~Clashes(t, id, row, c)
  <2>1. u = Put(t, id, row)
    BY <1>3 DEF UserUpdateOne, Rewritten, Succeeds
  <2>2. t[id] \in UserRows /\ DOMAIN t[id] = UserColumns
    BY <1>3 DEF UserRows, UserColumns
  <2>3. row = [c \in UserColumns |-> IF c \in UserFields(m) THEN m[c] ELSE t[id][c]]
    BY <2>2 DEF Mutated
  <2> HIDE DEF row
  <2>4. row \in UserRows /\ row.uid = t[id].uid
    <3>1. CASE m = <<>>
      <4>1. UserFields(m) = {}
        BY <3>1 DEF UserFields, UserColumns
      <4>2. row = [uid |-> t[id].uid, email |-> t[id].email, role |-> t[id].role, active |-> t[id].active, plan |-> t[id].plan]
        BY <2>2, <2>3, <4>1 DEF UserColumns
      <4>3. QED
        BY <2>2, <4>2 DEF UserRows
    <3>2. CASE m = [active |-> a]
      <4>1. UserFields(m) = {"active"}
        BY <3>2 DEF UserFields, UserColumns
      <4>2. row = [uid |-> t[id].uid, email |-> t[id].email, role |-> t[id].role, active |-> a, plan |-> t[id].plan]
        BY <2>2, <2>3, <3>2, <4>1 DEF UserColumns
      <4>3. QED
        BY <2>2, <4>2 DEF UserRows
    <3>3. CASE m = [active |-> a, email |-> e]
      <4>1. UserFields(m) = {"active", "email"}
        BY <3>3 DEF UserFields, UserColumns
      <4>2. row = [uid |-> t[id].uid, email |-> e, role |-> t[id].role, active |-> a, plan |-> t[id].plan]
        BY <2>2, <2>3, <3>3, <4>1 DEF UserColumns
      <4>3. QED
        BY <2>2, <4>2 DEF UserRows
    <3>4. QED
      BY <3>1, <3>2, <3>3
  <2>5. \A i \in DOMAIN t \ {id} : t[i].uid # row.uid /\ t[i].email # row.email
    BY <1>3, NoUserClash
  <2>6. QED
    BY <1>3, <2>1, <2>4, <2>5
<1>4. QED
  BY <1>1, <1>2, <1>3

\* The tokens t became u: none is gone, none is valid again.
TokensWane(t, u) ==
    /\ DOMAIN u = DOMAIN t /\ u \in [DOMAIN t -> TokenRows]
    /\ \A x \in DOMAIN t : u[x].owner = t[x].owner /\ (t[x].revoked => u[x].revoked)

\* Revoking a token.
LEMMA TokenRewritten ==
    ASSUME NEW t, t \in [DOMAIN t -> TokenRows], NEW k,
           NEW u, u = TokenUpdateOne(t, k, [revoked |-> TRUE]).table
    PROVE  TokensWane(t, u)
<1> USE DEF TokensWane
<1> DEFINE m == [revoked |-> TRUE]
           row == Mutated(t[k], m, TokenFields(m))
<1>1. CASE k \notin DOMAIN t
  BY <1>1 DEF TokenUpdateOne, Rewritten, Fails
<1>2. CASE k \in DOMAIN t
  <2>1. u = Put(t, k, row)
    BY <1>2 DEF TokenUpdateOne, Rewritten, Succeeds
  <2>2. t[k] \in TokenRows /\ DOMAIN t[k] = TokenColumns
    BY <1>2 DEF TokenRows, TokenColumns
  <2>3. TokenFields(m) = {"revoked"}
    BY DEF TokenFields, TokenColumns
  <2>a. row = [c \in TokenColumns |-> IF c \in TokenFields(m) THEN m[c] ELSE t[k][c]]
    BY <2>2 DEF Mutated
  <2>4. row = [owner |-> t[k].owner, revoked |-> TRUE, expired |-> t[k].expired]
    BY <2>2, <2>3, <2>a DEF TokenColumns
  <2> HIDE DEF row
  <2>5. row \in TokenRows /\ row.owner = t[k].owner /\ row.revoked
    BY <2>2, <2>4 DEF TokenRows
  <2>6. QED
    BY <1>2, <2>1, <2>5 DEF Put
<1>3. QED
  BY <1>1, <1>2

-----------------------------------------------------------------------------
(* What a step may do to the tables.                                       *)

GivenGrow ==
    /\ given' \in [user : 0..MaxUsers, session : 0..MaxSessions, token : 0..MaxTokens]
    /\ given'.user >= given.user /\ given'.session >= given.session

UsersEvolve ==
    /\ users' \in [DOMAIN users' -> UserRows]
    /\ \A i \in DOMAIN users' : i \in DOMAIN users \/ (i = given.user + 1 /\ given'.user = i)
    /\ \A i \in DOMAIN users' \cap DOMAIN users : users'[i].uid = users[i].uid
    /\ \A i, j \in DOMAIN users' : i # j => users'[i].uid # users'[j].uid /\ users'[i].email # users'[j].email

SessionsEvolve ==
    /\ sessions' \in [DOMAIN sessions' -> SessionRows]
    /\ \A s \in DOMAIN sessions' : s \in DOMAIN sessions \/ (s = given.session + 1 /\ given'.session = s)
    /\ \A s \in DOMAIN sessions' \cap DOMAIN sessions :
          /\ sessions'[s].owner = sessions[s].owner
          /\ sessions'[s].active => sessions[s].active
          /\ sessions[s].expired => sessions'[s].expired

TokensEvolve ==
    /\ tokens' \in [DOMAIN tokens' -> TokenRows] /\ DOMAIN tokens' \subseteq TokenIds
    /\ \A k \in DOMAIN tokens : k \in DOMAIN tokens' /\ (tokens[k].revoked => tokens'[k].revoked)

OwnersKept ==
    /\ \A s \in DOMAIN sessions' : sessions'[s].owner \in DOMAIN users'
    /\ \A k \in DOMAIN tokens' : tokens'[k].owner \in DOMAIN users'

Evolves == GivenGrow /\ UsersEvolve /\ SessionsEvolve /\ TokensEvolve /\ OwnersKept

\* A step that leaves the tables alone.
LEMMA SameTables ==
    ASSUME AccountsInd, UNCHANGED db
    PROVE  Evolves
<1> USE DEF AccountsInd, AccountsInv, db
<1>1. GivenGrow
  BY DEF GivenGrow, TypeOK
<1>2. UsersEvolve
  BY DEF UsersEvolve, TypeOK
<1>3. SessionsEvolve /\ TokensEvolve /\ OwnersKept
  BY DEF SessionsEvolve, TokensEvolve, OwnersKept, TypeOK
<1>4. QED
  BY <1>1, <1>2, <1>3 DEF Evolves

\* A statement on the sessions that inserts none.
LEMMA SessionsOnly ==
    ASSUME AccountsInd, UNCHANGED <<users, tokens, given>>, SessionsWane(sessions, sessions')
    PROVE  Evolves
<1> USE DEF AccountsInd, AccountsInv, SessionsWane
<1>1. GivenGrow
  BY DEF GivenGrow, TypeOK
<1>2. UsersEvolve
  BY DEF UsersEvolve, TypeOK
<1>3. SessionsEvolve /\ TokensEvolve /\ OwnersKept
  BY DEF SessionsEvolve, TokensEvolve, OwnersKept, TypeOK
<1>4. QED
  BY <1>1, <1>2, <1>3 DEF Evolves

\* An update of one session: its last use, or its revocation.
LEMMA SessionUpdated ==
    ASSUME AccountsInd, UNCHANGED <<users, tokens, given>>, NEW s,
           NEW m \in {[idle |-> FALSE], [active |-> FALSE]},
           sessions' = SessionUpdateOne(sessions, s, m).table
    PROVE  Evolves /\ (m = [active |-> FALSE] => Ended(sessions', s))
<1>1. sessions \in [DOMAIN sessions -> SessionRows]
  BY DEF AccountsInd, AccountsInv, TypeOK
<1>2. SessionsWane(sessions, sessions') /\ (m = [active |-> FALSE] => Ended(sessions', s))
  BY <1>1, SessionRewritten
<1>3. QED
  BY <1>2, SessionsOnly

\* A user's row is rewritten.
LEMMA UserUpdated ==
    ASSUME AccountsInd, UNCHANGED <<sessions, tokens, given>>, NEW i, NEW a \in BOOLEAN, NEW e \in Uids,
           NEW m, m = <<>> \/ m = [active |-> a] \/ m = [active |-> a, email |-> e],
           users' = UserUpdateOne(users, i, m).table
    PROVE  Evolves
<1> USE DEF AccountsInd, AccountsInv
<1>0. users \in [DOMAIN users -> UserRows]
  BY DEF TypeOK
<1>1. CASE users' = users
  BY <1>1, SameTables DEF db
<1>2. CASE OneUserRewritten(users, users', i)
  <2>1. PICK row \in UserRows :
                 /\ users' = Put(users, i, row) /\ row.uid = users[i].uid
                 /\ \A j \in DOMAIN users \ {i} : users[j].uid # row.uid /\ users[j].email # row.email
    BY <1>2 DEF OneUserRewritten
  <2>. i \in DOMAIN users
    BY <1>2 DEF OneUserRewritten
  <2>2. /\ DOMAIN users' = DOMAIN users /\ users'[i] = row
        /\ \A j \in DOMAIN users \ {i} : users'[j] = users[j]
        /\ users' \in [DOMAIN users' -> UserRows]
    BY <1>0, <1>2, <2>1 DEF Put
  <2>3. GivenGrow
    BY DEF GivenGrow, TypeOK
  <2>4. UsersEvolve
    BY <1>2, <2>1, <2>2 DEF UsersEvolve
  <2>5. SessionsEvolve /\ TokensEvolve /\ OwnersKept
    BY <2>2 DEF SessionsEvolve, TokensEvolve, OwnersKept, TypeOK
  <2>6. QED
    BY <2>3, <2>4, <2>5 DEF Evolves
<1>3. QED
  <2> HIDE DEF AccountsInd, AccountsInv
  <2>1. users' = users \/ OneUserRewritten(users, users', i)
    BY <1>0, UserRewritten
  <2>2. QED
    BY <1>1, <1>2, <2>1

\* A user is inserted: LoginCreate and RegisterCreate.
LEMMA UserCreated ==
    ASSUME AccountsInd, UNCHANGED <<sessions, tokens>>, NEW uid \in Uids, given.user < MaxUsers,
           users' = CreateUser(uid).table, given' = [given EXCEPT !.user = @ + 1]
    PROVE  /\ Evolves /\ given'.user = given.user + 1 /\ given.user + 1 \in UserIds
           /\ CreateUser(uid).err = "none" =>
                 given.user + 1 \in DOMAIN users' /\ users'[given.user + 1].uid = uid
<1> DEFINE id == given.user + 1
<1>0. IF CreateUser(uid).err = "none" THEN UserPut(users, users', id, uid) ELSE users' = users
  BY UserInserted DEF CreateUser
<1>. USE DEF AccountsInd, AccountsInv
<1>1. users \in [DOMAIN users -> UserRows] /\ given.user \in 0..MaxUsers /\ DOMAIN users \subseteq 1..given.user
  BY DEF TypeOK
<1>2. given'.user = id /\ id \in UserIds /\ GivenGrow
  BY <1>1, AccountsAssumption DEF TypeOK, GivenGrow, UserIds
<1>3. CASE CreateUser(uid).err # "none"
  <2>1. UsersEvolve /\ SessionsEvolve /\ TokensEvolve /\ OwnersKept
    BY <1>0, <1>3 DEF UsersEvolve, SessionsEvolve, TokensEvolve, OwnersKept, TypeOK
  <2>2. QED
    BY <1>2, <1>3, <2>1 DEF Evolves
<1>4. CASE CreateUser(uid).err = "none"
  <2>1. /\ users' = Put(users, id, NewUser(uid)) /\ id \notin DOMAIN users
        /\ \A i \in DOMAIN users : users[i].uid # uid /\ users[i].email # uid
    BY <1>0, <1>4 DEF UserPut
  <2>2. NewUser(uid) \in UserRows /\ NewUser(uid).uid = uid /\ NewUser(uid).email = uid
    BY DEF UserRows, NewUser
  <2>3. /\ DOMAIN users' = DOMAIN users \cup {id} /\ users'[id] = NewUser(uid)
        /\ \A j \in DOMAIN users : users'[j] = users[j]
        /\ users' \in [DOMAIN users' -> UserRows]
    BY <1>1, <2>1, <2>2 DEF Put
  <2>4. UsersEvolve
    BY <1>2, <2>1, <2>2, <2>3 DEF UsersEvolve
  <2>5. SessionsEvolve /\ TokensEvolve /\ OwnersKept
    BY <2>3 DEF SessionsEvolve, TokensEvolve, OwnersKept, TypeOK
  <2>6. QED
    BY <1>2, <2>2, <2>3, <2>4, <2>5 DEF Evolves
<1>5. QED
  BY <1>3, <1>4

\* A session is inserted for a user.
LEMMA SessionCreated ==
    ASSUME AccountsInd, UNCHANGED <<users, tokens>>, NEW owner, given.session < MaxSessions,
           sessions' = CreateForUser(owner).table, given' = [given EXCEPT !.session = @ + 1]
    PROVE  /\ Evolves /\ given'.session = given.session + 1 /\ given.session + 1 \in SessionIds
           /\ CreateForUser(owner).err = "none" =>
                 /\ given.session + 1 \in DOMAIN sessions' /\ sessions'[given.session + 1].owner = owner
                 /\ owner \in DOMAIN users
<1> DEFINE id == given.session + 1
<1>0. IF CreateForUser(owner).err = "none" THEN SessionPut(sessions, sessions', id, owner, users) ELSE sessions' = sessions
  BY SessionInserted DEF CreateForUser
<1>. USE DEF AccountsInd, AccountsInv
<1>1. /\ sessions \in [DOMAIN sessions -> SessionRows] /\ given.session \in 0..MaxSessions
      /\ DOMAIN users \subseteq UserIds
  BY DEF TypeOK
<1>2. given'.session = id /\ id \in SessionIds /\ GivenGrow
  BY <1>1, AccountsAssumption DEF TypeOK, GivenGrow, SessionIds
<1>3. CASE CreateForUser(owner).err # "none"
  <2>1. UsersEvolve /\ SessionsEvolve /\ TokensEvolve /\ OwnersKept
    BY <1>0, <1>3 DEF UsersEvolve, SessionsEvolve, TokensEvolve, OwnersKept, TypeOK
  <2>2. QED
    BY <1>2, <1>3, <2>1 DEF Evolves
<1>4. CASE CreateForUser(owner).err = "none"
  <2>1. owner \in DOMAIN users /\ id \notin DOMAIN sessions /\ sessions' = Put(sessions, id, NewSession(owner))
    BY <1>0, <1>4 DEF SessionPut
  <2>2. NewSession(owner) \in SessionRows /\ NewSession(owner).owner = owner
    BY <1>1, <2>1 DEF SessionRows, NewSession
  <2>3. /\ DOMAIN sessions' = DOMAIN sessions \cup {id} /\ sessions'[id] = NewSession(owner)
        /\ \A j \in DOMAIN sessions : sessions'[j] = sessions[j]
        /\ sessions' \in [DOMAIN sessions' -> SessionRows]
    BY <1>1, <2>1, <2>2 DEF Put
  <2>4. UsersEvolve
    BY DEF UsersEvolve, TypeOK
  <2>5. SessionsEvolve /\ TokensEvolve /\ OwnersKept
    BY <1>2, <2>1, <2>2, <2>3 DEF SessionsEvolve, TokensEvolve, OwnersKept, TypeOK
  <2>6. QED
    BY <1>2, <2>1, <2>2, <2>3, <2>4, <2>5 DEF Evolves
<1>5. QED
  BY <1>3, <1>4

\* A token is inserted for a user.
LEMMA TokenCreated ==
    ASSUME AccountsInd, UNCHANGED <<users, sessions>>, NEW owner, given.token < MaxTokens,
           tokens' = CreateTokenFor(owner).table, given' = [given EXCEPT !.token = @ + 1]
    PROVE  Evolves
<1> DEFINE id == given.token + 1
<1>0. tokens' = tokens \/ TokenPut(tokens, tokens', id, owner, users)
  BY TokenInserted DEF CreateTokenFor
<1>. USE DEF AccountsInd, AccountsInv
<1>1. /\ tokens \in [DOMAIN tokens -> TokenRows] /\ given.token \in 0..MaxTokens
      /\ DOMAIN users \subseteq UserIds /\ DOMAIN tokens \subseteq TokenIds
  BY DEF TypeOK
<1>2. id \in TokenIds /\ GivenGrow
  BY <1>1, AccountsAssumption DEF TypeOK, GivenGrow, TokenIds
<1>3. UsersEvolve /\ SessionsEvolve
  BY DEF UsersEvolve, SessionsEvolve, TypeOK
<1>4. TokensEvolve /\ OwnersKept
  <2>1. CASE tokens' = tokens
    BY <2>1 DEF TokensEvolve, OwnersKept, TypeOK
  <2>2. CASE TokenPut(tokens, tokens', id, owner, users)
    <3>1. owner \in DOMAIN users /\ id \notin DOMAIN tokens /\ tokens' = Put(tokens, id, NewToken(owner))
      BY <2>2 DEF TokenPut
    <3>2. NewToken(owner) \in TokenRows /\ NewToken(owner).owner = owner
      BY <1>1, <3>1 DEF TokenRows, NewToken
    <3>3. /\ DOMAIN tokens' = DOMAIN tokens \cup {id} /\ tokens'[id] = NewToken(owner)
          /\ \A j \in DOMAIN tokens : tokens'[j] = tokens[j]
          /\ tokens' \in [DOMAIN tokens' -> TokenRows]
      BY <1>1, <3>1, <3>2 DEF Put
    <3>4. QED
      BY <1>1, <1>2, <3>1, <3>2, <3>3 DEF TokensEvolve, OwnersKept
  <2>3. QED
    BY <1>0, <2>1, <2>2
<1>5. QED
  BY <1>2, <1>3, <1>4 DEF Evolves

\* A statement on the tokens that inserts none: RevokeToken, and time.
LEMMA TokensOnly ==
    ASSUME AccountsInd, UNCHANGED <<users, sessions, given>>, TokensWane(tokens, tokens')
    PROVE  Evolves
<1> USE DEF AccountsInd, AccountsInv, TokensWane
<1>1. GivenGrow /\ UsersEvolve
  BY DEF GivenGrow, UsersEvolve, TypeOK
<1>2. SessionsEvolve /\ TokensEvolve /\ OwnersKept
  BY DEF SessionsEvolve, TokensEvolve, OwnersKept, TypeOK
<1>3. QED
  BY <1>1, <1>2 DEF Evolves

\* A user without sessions and tokens is deleted.
LEMMA UserDeleted ==
    ASSUME AccountsInd, UNCHANGED <<sessions, tokens, given>>, NEW i, NEW b \in BOOLEAN,
           users' = Delete(i, b).table
    PROVE  Evolves
<1>1. \/ users' = users
      \/ /\ users' = Without(users, {i})
         /\ ~Refers(sessions, "owner", i) /\ ~Refers(tokens, "owner", i)
  BY DEF Delete, UserDelete, Removed, Fails, Succeeds
<1>2. CASE users' = users
  BY <1>2, SameTables DEF db
<1>3. CASE /\ users' = Without(users, {i})
           /\ ~Refers(sessions, "owner", i) /\ ~Refers(tokens, "owner", i)
  <2> USE DEF AccountsInd, AccountsInv
  <2>0. users \in [DOMAIN users -> UserRows]
    BY DEF TypeOK
  <2>1. /\ DOMAIN users' = DOMAIN users \ {i} /\ users' \in [DOMAIN users' -> UserRows]
        /\ \A j \in DOMAIN users' : users'[j] = users[j]
    BY <1>3, <2>0 DEF Without
  <2>2. GivenGrow /\ UsersEvolve
    BY <2>1 DEF GivenGrow, UsersEvolve, TypeOK
  <2>3. /\ \A s \in DOMAIN sessions : sessions[s].owner # i
        /\ \A k \in DOMAIN tokens : tokens[k].owner # i
    BY <1>3 DEF Refers
  <2>4. SessionsEvolve /\ TokensEvolve /\ OwnersKept
    BY <2>1, <2>3 DEF SessionsEvolve, TokensEvolve, OwnersKept, TypeOK
  <2>5. QED
    BY <2>2, <2>4 DEF Evolves
<1>4. QED
  BY <1>1, <1>2, <1>3

\* An update of many sessions that revokes them.
LEMMA SessionsRevoked ==
    ASSUME AccountsInd, UNCHANGED <<users, tokens, given>>, NEW ids,
           sessions' = SessionUpdate(sessions, ids, [active |-> FALSE]).table
    PROVE  Evolves
<1> DEFINE m == [active |-> FALSE]
           row(x) == Mutated(sessions[x], m, SessionFields(m))
<1>1. sessions \in [DOMAIN sessions -> SessionRows]
  BY DEF AccountsInd, AccountsInv, TypeOK
<1>2. sessions' = [x \in DOMAIN sessions |-> IF x \in ids THEN row(x) ELSE sessions[x]]
  BY DEF SessionUpdate, RewrittenAll, Succeeds
<1>3. SessionFields(m) = {"active"}
  BY DEF SessionFields, SessionColumns
<1>4. ASSUME NEW x \in DOMAIN sessions
      PROVE  row(x) \in SessionRows /\ row(x).owner = sessions[x].owner /\ ~row(x).active
                /\ row(x).expired = sessions[x].expired
  <2>1. sessions[x] \in SessionRows /\ DOMAIN sessions[x] = SessionColumns
    BY <1>1, <1>4 DEF SessionRows, SessionColumns
  <2>2. row(x) = [c \in SessionColumns |-> IF c \in {"active"} THEN m[c] ELSE sessions[x][c]]
    BY <1>3, <2>1 DEF Mutated
  <2>3. row(x) = [owner |-> sessions[x].owner, active |-> FALSE, expired |-> sessions[x].expired,
                  idle |-> sessions[x].idle]
    BY <2>2 DEF SessionColumns
  <2> HIDE DEF row
  <2>4. QED
    BY <2>1, <2>3 DEF SessionRows
<1> HIDE DEF row
<1>5. SessionsWane(sessions, sessions')
  BY <1>1, <1>2, <1>4 DEF SessionsWane
<1>6. QED
  BY <1>5, SessionsOnly

\* The session cleanup deletes some sessions.
LEMMA SessionsDeleted ==
    ASSUME AccountsInd, UNCHANGED <<users, tokens, given>>, NEW ids,
           sessions' = SessionDelete(sessions, ids).table
    PROVE  Evolves
<1>1. sessions \in [DOMAIN sessions -> SessionRows]
  BY DEF AccountsInd, AccountsInv, TypeOK
<1>2. sessions' = [x \in DOMAIN sessions \ ids |-> sessions[x]]
  BY DEF SessionDelete, Succeeds, Without
<1>3. SessionsWane(sessions, sessions')
  BY <1>1, <1>2 DEF SessionsWane
<1>4. QED
  BY <1>3, SessionsOnly

\* Time passes for a session or a token.
LEMMA TimePasses ==
    ASSUME AccountsInd, Expire
    PROVE  Evolves
<1>0. sessions \in [DOMAIN sessions -> SessionRows] /\ tokens \in [DOMAIN tokens -> TokenRows]
  BY DEF AccountsInd, AccountsInv, TypeOK
<1>1. ASSUME NEW s \in DOMAIN sessions, sessions' = [sessions EXCEPT ![s].expired = TRUE], UNCHANGED tokens
      PROVE  Evolves
  <2>1. SessionsWane(sessions, sessions')
    BY <1>0, <1>1 DEF SessionsWane, SessionRows
  <2>2. QED
    BY <1>1, <2>1, SessionsOnly DEF Expire
<1>2. ASSUME NEW s \in DOMAIN sessions, sessions' = [sessions EXCEPT ![s].idle = TRUE], UNCHANGED tokens
      PROVE  Evolves
  <2>1. SessionsWane(sessions, sessions')
    BY <1>0, <1>2 DEF SessionsWane, SessionRows
  <2>2. QED
    BY <1>2, <2>1, SessionsOnly DEF Expire
<1>3. ASSUME NEW k \in DOMAIN tokens, tokens' = [tokens EXCEPT ![k].expired = TRUE], UNCHANGED sessions
      PROVE  Evolves
  <2>1. TokensWane(tokens, tokens')
    BY <1>0, <1>3 DEF TokensWane, TokenRows
  <2>2. QED
    BY <1>3, <2>1, TokensOnly DEF Expire
<1>4. QED
  BY <1>1, <1>2, <1>3 DEF Expire

-----------------------------------------------------------------------------
(* What the queries find.                                                  *)

\* GetActiveByToken finds a usable session.
LEMMA ActiveFound ==
    ASSUME NEW s, GetActiveByToken(s) # 0
    PROVE  Usable(s)
<1> DEFINE m == [active |-> TRUE, expired |-> FALSE]
<1>1. s \in SessionWhere(sessions, m)
  BY OneOfOne DEF GetActiveByToken, SessionOnly
<1>2. SessionFields(m) = {"active", "expired"} /\ m["active"] = TRUE /\ m["expired"] = FALSE
  BY DEF SessionFields, SessionColumns
<1> HIDE DEF m
<1>3. s \in DOMAIN sessions /\ \A c \in SessionFields(m) : sessions[s][c] = m[c]
  BY <1>1 DEF SessionWhere, SessionEQ
<1>4. sessions[s]["active"] = TRUE /\ sessions[s]["expired"] = FALSE
  BY <1>2, <1>3
<1>5. QED
  BY <1>3, <1>4 DEF Usable

\* ... and finds one that is.
LEMMA ActiveIsFound ==
    ASSUME AccountsInd, NEW s \in Nat, Usable(s)
    PROVE  GetActiveByToken(s) # 0
<1> DEFINE m == [active |-> TRUE, expired |-> FALSE]
<1>0. s \in DOMAIN sessions /\ s # 0 /\ sessions[s] \in SessionRows
  BY DEF Usable, AccountsInd, SessionsGiven, AccountsInv, TypeOK
<1>1. sessions[s]["active"] = TRUE /\ sessions[s]["expired"] = FALSE
  BY <1>0 DEF Usable, SessionRows
<1>2. SessionFields(m) = {"active", "expired"} /\ m["active"] = TRUE /\ m["expired"] = FALSE
  BY DEF SessionFields, SessionColumns
<1> HIDE DEF m
<1>3. s \in SessionWhere(sessions, m)
  BY <1>0, <1>1, <1>2 DEF SessionWhere, SessionEQ
<1>4. QED
  BY <1>0, <1>3, OneOfOne DEF GetActiveByToken, SessionOnly, m

\* GetUserByFirebaseUID finds a user with that uid.
LEMMA UserFound ==
    ASSUME AccountsInd, NEW uid, NEW u, u = GetUserByFirebaseUID(uid), u # 0
    PROVE  u \in DOMAIN users /\ users[u].uid = uid /\ u \in UserIds /\ u \in 1..given.user
<1> DEFINE m == [uid |-> uid]
<1>1. u \in UserWhere(users, m)
  BY OneIsMember DEF GetUserByFirebaseUID, UserOnly
<1>2. UserFields(m) = {"uid"} /\ m["uid"] = uid
  BY DEF UserFields, UserColumns
<1> HIDE DEF m
<1>3. u \in DOMAIN users /\ \A c \in UserFields(m) : users[u][c] = m[c]
  BY <1>1 DEF UserWhere, UserEQ
<1>4. QED
  BY <1>2, <1>3 DEF AccountsInd, AccountsInv, TypeOK

\* Get, and the owner of a session.
LEMMA GetFinds ==
    ASSUME AccountsInd, NEW i
    PROVE  /\ Get(i) \in UserIds \cup {0}
           /\ GetSessionOwner(i) \in UserIds \cup {0}
<1>1. Get(i) # 0 => Get(i) \in DOMAIN users
  BY OneIsMember DEF Get, UserGet
<1>2. i \in DOMAIN sessions => SessionRow(sessions, i).owner = sessions[i].owner
  BY DEF SessionRow, SessionColumns
<1>3. QED
  BY <1>1, <1>2 DEF GetSessionOwner, QueryOwner, AccountsInd, AccountsInv, TypeOK, SessionRows

-----------------------------------------------------------------------------
(* What every step of the tables leaves true.                              *)

\* The part of the invariant that is about the tables.
TablesInv ==
    /\ users \in [DOMAIN users -> UserRows] /\ DOMAIN users \subseteq UserIds
    /\ sessions \in [DOMAIN sessions -> SessionRows] /\ DOMAIN sessions \subseteq SessionIds
    /\ tokens \in [DOMAIN tokens -> TokenRows] /\ DOMAIN tokens \subseteq TokenIds
    /\ given \in [user : 0..MaxUsers, session : 0..MaxSessions, token : 0..MaxTokens]
    /\ \A i, j \in DOMAIN users : i # j => users[i].uid # users[j].uid /\ users[i].email # users[j].email
    /\ \A s \in DOMAIN sessions : sessions[s].owner \in DOMAIN users
    /\ \A k \in DOMAIN tokens : tokens[k].owner \in DOMAIN users
    /\ DOMAIN users \subseteq 1..given.user /\ DOMAIN sessions \subseteq 1..given.session

\* Ids that were given are not given again, and keep their account.
AccountsKept ==
    /\ given'.user >= given.user /\ given'.session >= given.session
    /\ \A s \in Nat : s <= given.session /\ Usable(s)' => Usable(s)
    /\ \A i \in DOMAIN users' : i <= given.user => i \in DOMAIN users /\ users'[i].uid = users[i].uid
    /\ \A s \in DOMAIN sessions' : s <= given.session =>
          s \in DOMAIN sessions /\ users'[sessions'[s].owner].uid = users[sessions[s].owner].uid

LEMMA TablesKept ==
    ASSUME AccountsInd, Evolves
    PROVE  TablesInv' /\ AccountsKept
<1> USE DEF AccountsInd, AccountsInv, SessionsGiven, Evolves
<1>0. /\ given.user \in 0..MaxUsers /\ given.session \in 0..MaxSessions
      /\ DOMAIN users \subseteq 1..given.user /\ DOMAIN sessions \subseteq 1..given.session
      /\ MaxUsers \in Nat /\ MaxSessions \in Nat
  BY AccountsAssumption DEF TypeOK
<1>1. /\ given'.user \in 0..MaxUsers /\ given'.session \in 0..MaxSessions
      /\ given'.user >= given.user /\ given'.session >= given.session
  BY DEF GivenGrow
<1>2. DOMAIN users' \subseteq 1..given'.user /\ DOMAIN users' \subseteq UserIds
  BY <1>0, <1>1 DEF UsersEvolve, UserIds
<1>3. DOMAIN sessions' \subseteq 1..given'.session /\ DOMAIN sessions' \subseteq SessionIds
  BY <1>0, <1>1 DEF SessionsEvolve, SessionIds
<1>4. TablesInv'
  BY <1>2, <1>3 DEF TablesInv, GivenGrow, UsersEvolve, SessionsEvolve, TokensEvolve, OwnersKept
<1>5. \A i \in DOMAIN users' : i <= given.user => i \in DOMAIN users /\ users'[i].uid = users[i].uid
  BY <1>0, <1>1 DEF UsersEvolve
<1>6. \A s \in DOMAIN sessions' : s <= given.session => s \in DOMAIN sessions
  BY <1>0, <1>1 DEF SessionsEvolve
<1>7. \A s \in Nat : s <= given.session /\ Usable(s)' => Usable(s)
  BY <1>6 DEF SessionsEvolve, Usable
<1>8. \A s \in DOMAIN sessions' : s <= given.session =>
          users'[sessions'[s].owner].uid = users[sessions[s].owner].uid
  <2>1. ASSUME NEW s \in DOMAIN sessions', s <= given.session
        PROVE  users'[sessions'[s].owner].uid = users[sessions[s].owner].uid
    <3>1. s \in DOMAIN sessions /\ sessions'[s].owner = sessions[s].owner
      BY <1>6, <2>1 DEF SessionsEvolve
    <3>2. sessions[s].owner \in DOMAIN users /\ sessions'[s].owner \in DOMAIN users'
      BY <3>1 DEF OwnersKept
    <3>3. QED
      BY <3>1, <3>2 DEF UsersEvolve
  <2>2. QED
    BY <2>1
<1>9. QED
  BY <1>1, <1>4, <1>5, <1>6, <1>7, <1>8 DEF AccountsKept

\* A request that does nothing knows what it knew.
LEMMA KnowledgeKept ==
    ASSUME AccountsInd, Evolves, NEW q \in RequestStates, RequestInv(q)
    PROVE  RequestInv(q)'
<1>0. q.ck.auth \in Nat /\ q.user \in Nat /\ q.arg \in Nat /\ given.user \in Nat /\ given.session \in Nat
      /\ given'.user \in Nat /\ given'.session \in Nat
  BY DEF RequestStates, Cookies, UserIds, SessionIds, AccountsInd, AccountsInv, TypeOK, Evolves, GivenGrow
<1>1. AccountsKept
  BY TablesKept
<1>2. q.ck.auth <= given'.session
  BY <1>0, <1>1 DEF AccountsKept, RequestInv
<1>3. Usable(q.ck.auth)' => q.live
  BY <1>0, <1>1 DEF AccountsKept, RequestInv
<1>4. ASSUME q.pc \in {"login_stamp", "login_session"}
      PROVE  q.user \in 1..given'.user /\ (q.user \in DOMAIN users' => users'[q.user].uid = q.uid)
  BY <1>0, <1>1, <1>4 DEF AccountsKept, RequestInv
<1>5. ASSUME q.pc = "login_load"
      PROVE  /\ q.arg \in 1..given'.session
             /\ q.arg \in DOMAIN sessions' => users'[sessions'[q.arg].owner].uid = q.uid
  BY <1>0, <1>1, <1>5 DEF AccountsKept, RequestInv
<1>6. QED
  BY <1>2, <1>3, <1>4, <1>5 DEF RequestInv

\* The cookies and the ended sessions, when no answer touches them.
LEMMA BrowserKept ==
    ASSUME AccountsInd, Evolves, UNCHANGED <<cookies, mixed, loggedOut>>
    PROVE  OneIdentity' /\ LoggedOutIsDead' /\ cookies'.auth <= given'.session /\ loggedOut' \subseteq 1..given'.session
<1>0. cookies.auth \in Nat /\ given.session \in Nat /\ given'.session \in Nat
  BY DEF Cookies, SessionIds, AccountsInd, AccountsInv, TypeOK, Evolves, GivenGrow
<1>1. AccountsKept
  BY TablesKept
<1>2. OneIdentity'
  BY <1>0, <1>1 DEF AccountsKept, OneIdentity, AccountsInd, AccountsInv, SessionsGiven
<1>3. LoggedOutIsDead' /\ loggedOut' \subseteq 1..given'.session
  BY <1>0, <1>1 DEF AccountsKept, LoggedOutIsDead, AccountsInd, SessionsGiven
<1>4. QED
  BY <1>0, <1>1, <1>2, <1>3 DEF AccountsKept, AccountsInd, SessionsGiven

\* A request that did not move.
LEMMA OthersKept ==
    ASSUME AccountsInd, Evolves, NEW x \in Requests, req'[x] = req[x]
    PROVE  RequestInv(req[x])' /\ (req'[x].via = "session" => req'[x].live)
<1> DEFINE p == req[x]
<1>1. p \in RequestStates /\ RequestInv(p) /\ req'[x] = p
  BY DEF AccountsInd, AccountsInv, TypeOK
<1>2. \A y \in RequestStates : RequestInv(y) => RequestInv(y)'
  BY KnowledgeKept
<1>3. RequestInv(req[x])'
  BY <1>1, <1>2 DEF RequestInv, Usable
<1>4. QED
  BY <1>3 DEF AccountsInd, OnlyLiveSessions

\* What is left to show for a step: the requests, and the browser.
LEMMA StepKeeps ==
    ASSUME AccountsInd, Evolves, req' \in [Requests -> RequestStates],
           \A x \in Requests : RequestInv(req[x])', OnlyLiveSessions',
           arrivals' \in 0..MaxArrivals, cleanup' \in {"waiting", "inactive"}, mixed' \in BOOLEAN,
           cookies' \in Cookies, cookies'.auth <= given'.session, loggedOut' \subseteq 1..given'.session,
           OneIdentity', LoggedOutIsDead'
    PROVE  AccountsInd'
<1>1. TablesInv'
  BY TablesKept
<1>2. TypeOK'
  BY <1>1 DEF TypeOK, TablesInv
<1>3. AccountsInv'
  BY <1>1, <1>2 DEF AccountsInv, TablesInv
<1>4. SessionsGiven'
  BY <1>1 DEF SessionsGiven, TablesInv
<1>5. QED
  BY <1>3, <1>4 DEF AccountsInd

\* A step of no request.
LEMMA TaskKeeps ==
    ASSUME AccountsInd, Evolves, UNCHANGED <<req, arrivals, cookies, mixed, loggedOut>>,
           cleanup' \in {"waiting", "inactive"}
    PROVE  AccountsInd'
<1>1. OneIdentity' /\ LoggedOutIsDead' /\ cookies'.auth <= given'.session /\ loggedOut' \subseteq 1..given'.session
  BY BrowserKept
<1>2. /\ req' \in [Requests -> RequestStates] /\ arrivals' \in 0..MaxArrivals /\ cookies' \in Cookies
      /\ mixed' \in BOOLEAN
  BY DEF AccountsInd, AccountsInv, TypeOK
<1>3. \A x \in Requests : RequestInv(req[x])'
  BY OthersKept
<1>4. OnlyLiveSessions'
  BY DEF AccountsInd, OnlyLiveSessions
<1>5. QED
  BY <1>1, <1>2, <1>3, <1>4, StepKeeps

\* A request that goes on, to pc p with user u, credentials v and argument a.
Moved(q, p, u, v, a) ==
    [op |-> q.op, pc |-> p, uid |-> q.uid, ck |-> q.ck, bearer |-> q.bearer, user |-> u, via |-> v, arg |-> a,
     live |-> q.live]

Vias == {"none", "cookie", "session", "token"}

\* What it must know there.
MayMove(q, p, u, v, a) ==
    /\ p \in {"auth_used", "auth_owner"} => q.live
    /\ v = "session" => q.live
    /\ p \in LoginPCs \cup RegisterPCs \cup VerifyPCs => q.uid \in Uids
    /\ p \in {"login_stamp", "login_session"} =>
          u \in 1..given.user /\ (u \in DOMAIN users => users[u].uid = q.uid)
    /\ p = "login_load" =>
          /\ a \in 1..given.session
          /\ a \in DOMAIN sessions => users[sessions[a].owner].uid = q.uid

LEMMA MovedKeeps ==
    ASSUME AccountsInd, Evolves, NEW r \in Requests, NEW q0, q0 = req[r],
           NEW p \in PCs, NEW u \in UserIds \cup {0},
           NEW v \in Vias, NEW a \in UserIds \cup SessionIds \cup {0},
           req' = [req EXCEPT ![r] = Moved(q0, p, u, v, a)], Unanswered, Quiet, MayMove(q0, p, u, v, a)'
    PROVE  AccountsInd'
<1> DEFINE q == Moved(q0, p, u, v, a)
<1>0. req \in [Requests -> RequestStates] /\ q0 \in RequestStates /\ RequestInv(q0)
  BY DEF AccountsInd, AccountsInv, TypeOK
<1>1. /\ q \in RequestStates /\ q.pc = p /\ q.user = u /\ q.via = v /\ q.arg = a
      /\ q.uid = q0.uid /\ q.ck = q0.ck /\ q.live = q0.live
  BY <1>0 DEF Moved, RequestStates, Vias
<1> HIDE DEF q
<1>2. OneIdentity' /\ LoggedOutIsDead' /\ cookies'.auth <= given'.session /\ loggedOut' \subseteq 1..given'.session
  BY BrowserKept DEF Unanswered
<1>3. req' \in [Requests -> RequestStates] /\ req'[r] = q /\ \A x \in Requests \ {r} : req'[x] = req[x]
  BY <1>0, <1>1 DEF q
<1>4. RequestInv(req[r])'
  <2>0. /\ q.ck.auth \in Nat /\ given.session \in Nat /\ given'.session \in Nat
    BY <1>1 DEF RequestStates, Cookies, SessionIds, AccountsInd, AccountsInv, TypeOK, Evolves, GivenGrow
  <2>1. AccountsKept
    BY TablesKept
  <2>2. q.ck.auth <= given.session /\ (Usable(q.ck.auth) => q.live)
    BY <1>0, <1>1 DEF RequestInv
  <2>3. q.ck.auth <= given'.session /\ (Usable(q.ck.auth)' => q.live)
    BY <2>0, <2>1, <2>2 DEF AccountsKept
  <2>4. RequestInv(q)'
    BY <1>1, <2>3 DEF RequestInv, MayMove
  <2>5. QED
    BY <1>3, <2>4 DEF RequestInv, Usable
<1>5. OnlyLiveSessions'
  BY <1>1, <1>3 DEF OnlyLiveSessions, MayMove, AccountsInd
<1>6. \A x \in Requests : RequestInv(req[x])'
  <2>1. \A x \in Requests \ {r} : RequestInv(req[x])'
    BY <1>3, OthersKept
  <2>2. QED
    BY <1>4, <2>1
<1>7. /\ arrivals' \in 0..MaxArrivals /\ cookies' \in Cookies /\ cleanup' \in {"waiting", "inactive"}
      /\ mixed' \in BOOLEAN
  BY DEF Unanswered, Quiet, AccountsInd, AccountsInv, TypeOK
<1>8. QED
  BY <1>2, <1>3, <1>5, <1>6, <1>7, StepKeeps

\* A request that ends.  Only a login may replace both cookies at once.
LEMMA EndedKeeps ==
    ASSUME AccountsInd, Evolves, NEW r \in Requests, NEW ck \in Cookies, Ends(r, ck), Quiet,
           ck.auth <= given'.session,
           \/ ck.session = cookies.session \/ ck.auth = cookies.auth \/ ck.session = NoUid
           \/ ck.auth \in DOMAIN sessions' => users'[sessions'[ck.auth].owner].uid = ck.session,
           NEW e, e = req[r].ck.auth, \A s \in loggedOut' : s \in loggedOut \/ (s = e /\ s # 0 /\ ~Usable(e)')
    PROVE  AccountsInd'
<1>0. req \in [Requests -> RequestStates] /\ req[r] \in RequestStates /\ RequestInv(req[r])
  BY DEF AccountsInd, AccountsInv, TypeOK
<1>1. AccountsKept /\ TablesInv'
  BY TablesKept
<1>2. /\ Idle \in RequestStates /\ Idle.pc = "idle" /\ Idle.via = "none" /\ Idle.ck.auth = 0
  <2>1. NoCookies \in Cookies /\ NoCookies.auth = 0
    BY DEF NoCookies, Cookies
  <2>2. QED
    BY <2>1 DEF Idle, RequestStates, PCs
<1>3. req' \in [Requests -> RequestStates] /\ req'[r] = Idle /\ \A x \in Requests \ {r} : req'[x] = req[x]
  BY <1>0, <1>2 DEF Ends
<1>4. /\ cookies \in Cookies /\ cookies.auth \in Nat /\ ck.auth \in Nat /\ given.session \in Nat
      /\ given'.session \in Nat /\ cookies.auth <= given.session
      /\ req[r].ck.auth \in Nat /\ req[r].ck.auth <= given.session
  BY <1>0 DEF Cookies, SessionIds, AccountsInd, AccountsInv, TypeOK, Evolves, GivenGrow, SessionsGiven,
             RequestInv, RequestStates
<1>5. RequestInv(req[r])'
  <2>1. 0 \notin DOMAIN sessions'
    BY <1>1 DEF TablesInv
  <2>2. RequestInv(Idle)'
    BY <1>2, <1>4, <2>1 DEF RequestInv, Usable, LoginPCs, RegisterPCs, VerifyPCs
  <2>3. QED
    BY <1>3, <2>2 DEF RequestInv, Usable
<1>6. OneIdentity'
  <2>1. SUFFICES ASSUME ~mixed', cookies'.session # NoUid, cookies'.auth \in DOMAIN sessions'
                 PROVE  users'[sessions'[cookies'.auth].owner].uid = cookies'.session
    BY DEF OneIdentity
  <2>a. cookies' = ck /\ ck.session # NoUid /\ ck.auth # 0
    BY <1>1, <2>1 DEF Ends, TablesInv
  <2>b. ~(mixed \/ /\ ck.session # NoUid /\ ck.auth # 0
                   /\ (ck.session = cookies.session) # (ck.auth = cookies.auth))
    BY <2>1 DEF Ends
  <2>2. /\ cookies' = ck /\ ck.session # NoUid /\ ck.auth # 0 /\ ~mixed
        /\ (ck.session = cookies.session) <=> (ck.auth = cookies.auth)
    BY <2>a, <2>b
  <2>3. CASE ck.session = cookies.session
    <3>1. ck.auth = cookies.auth
      BY <2>2, <2>3
    <3>2. users'[sessions'[ck.auth].owner].uid = users[sessions[ck.auth].owner].uid /\ ck.auth \in DOMAIN sessions
      BY <1>1, <1>4, <2>1, <2>2, <3>1 DEF AccountsKept
    <3>3. users[sessions[cookies.auth].owner].uid = cookies.session
      BY <2>2, <2>3, <3>1, <3>2 DEF OneIdentity, AccountsInd, AccountsInv
    <3>4. QED
      BY <2>2, <2>3, <3>1, <3>2, <3>3
  <2>4. CASE ck.session # cookies.session
    BY <2>1, <2>2, <2>4
  <2>5. QED
    BY <2>3, <2>4
<1>7. LoggedOutIsDead' /\ loggedOut' \subseteq 1..given'.session
  <2>1. \A s \in loggedOut : s \in 1..given.session /\ ~Usable(s)
    BY DEF AccountsInd, SessionsGiven, LoggedOutIsDead
  <2>2. \A s \in loggedOut : s \in 1..given'.session /\ ~Usable(s)'
    BY <1>1, <1>4, <2>1 DEF AccountsKept
  <2>a. e <= given'.session
    BY <1>1, <1>4 DEF AccountsKept
  <2>b. \A s \in loggedOut' : s \in loggedOut \/ (s = e /\ s # 0 /\ ~Usable(e)')
    OBVIOUS
  <2>c. e \in Nat
    BY <1>4
  <2>d. \A s \in loggedOut' : s = e /\ s # 0 => s \in 1..given'.session
    BY <1>4, <2>a, <2>c
  <2>3. \A s \in loggedOut' : s \in 1..given'.session /\ ~Usable(s)'
    <3>1. ASSUME NEW s \in loggedOut', s = e, s # 0, ~Usable(e)'
          PROVE  ~Usable(s)'
      BY <3>1 DEF Usable
    <3>2. QED
      BY <2>2, <2>b, <2>d, <3>1
  <2>4. QED
    BY <2>3 DEF LoggedOutIsDead, Usable
<1>8. /\ \A x \in Requests : RequestInv(req[x])'
      /\ OnlyLiveSessions'
  <2>1. \A x \in Requests \ {r} : RequestInv(req[x])'
    BY <1>3, OthersKept
  <2>2. \A x \in Requests : RequestInv(req[x])'
    BY <1>5, <2>1
  <2>3. OnlyLiveSessions'
    BY <1>2, <1>3 DEF OnlyLiveSessions, AccountsInd
  <2>4. QED
    BY <2>2, <2>3
<1>9. cookies' \in Cookies /\ cookies'.auth <= given'.session /\ mixed' \in BOOLEAN
  BY DEF Ends, AccountsInd, AccountsInv, TypeOK
<1>10. arrivals' \in 0..MaxArrivals /\ cleanup' \in {"waiting", "inactive"}
  BY DEF Quiet, AccountsInd, AccountsInv, TypeOK
<1>11. QED
  BY <1>3, <1>6, <1>7, <1>8, <1>9, <1>10, StepKeeps

LEMMA AnsweredKeeps ==
    ASSUME AccountsInd, Evolves, NEW r \in Requests, NEW ck \in Cookies, Answer(r, ck), Quiet,
           ck.auth <= given'.session,
           \/ ck.session = cookies.session \/ ck.auth = cookies.auth \/ ck.session = NoUid
           \/ ck.auth \in DOMAIN sessions' => users'[sessions'[ck.auth].owner].uid = ck.session,
           NEW e, e = req[r].ck.auth, req[r].pc \in {"logout_find", "logout_revoke"} => ~Usable(e)'
    PROVE  AccountsInd'
<1>1. Ends(r, ck)
  BY DEF Answer
<1>2. \A s \in loggedOut' : s \in loggedOut \/ (s = e /\ s # 0 /\ ~Usable(e)')
  BY DEF Answer
<1>3. QED
  BY <1>1, <1>2, EndedKeeps

-----------------------------------------------------------------------------
(* The ways a request goes on.                                             *)

LEMMA Known ==
    ASSUME AccountsInd, NEW r \in Requests
    PROVE  /\ req \in [Requests -> RequestStates] /\ req[r] \in RequestStates /\ RequestInv(req[r])
           /\ req[r].via = "session" => req[r].live
           /\ req[r].uid \in Uids \cup {NoUid} /\ req[r].ck \in Cookies /\ req[r].user \in UserIds \cup {0}
           /\ req[r].via \in Vias /\ req[r].arg \in UserIds \cup SessionIds \cup {0}
           /\ req[r].ck.auth \in Nat /\ req[r].ck.auth <= given.session
           /\ cookies \in Cookies /\ cookies.auth <= given.session
           /\ given.session \in Nat /\ given.user \in Nat
<1>1. req \in [Requests -> RequestStates] /\ req[r] \in RequestStates /\ RequestInv(req[r])
  BY DEF AccountsInd, AccountsInv, TypeOK
<1>2. /\ req[r].uid \in Uids \cup {NoUid} /\ req[r].ck \in Cookies /\ req[r].user \in UserIds \cup {0}
      /\ req[r].via \in Vias /\ req[r].arg \in UserIds \cup SessionIds \cup {0}
  BY <1>1 DEF RequestStates, Vias
<1>3. req[r].ck.auth \in Nat /\ req[r].ck.auth <= given.session
  BY <1>1, <1>2 DEF Cookies, SessionIds, RequestInv
<1>4. /\ cookies \in Cookies /\ cookies.auth <= given.session
      /\ given.session \in Nat /\ given.user \in Nat
  BY DEF AccountsInd, AccountsInv, TypeOK, SessionsGiven
<1>5. QED
  BY <1>1, <1>2, <1>3, <1>4 DEF AccountsInd, OnlyLiveSessions

LEMMA GotoMoves ==
    ASSUME AccountsInd, NEW r \in Requests, NEW q, q = req[r], NEW p, Goto(r, p)
    PROVE  req' = [req EXCEPT ![r] = Moved(q, p, q.user, q.via, q.arg)]
<1>1. req \in [Requests -> RequestStates] /\ q \in RequestStates
  BY DEF AccountsInd, AccountsInv, TypeOK
<1>2. [q EXCEPT !.pc = p] = Moved(q, p, q.user, q.via, q.arg)
  BY <1>1 DEF Moved, RequestStates
<1>3. req' = [req EXCEPT ![r] = [q EXCEPT !.pc = p]]
  BY <1>1 DEF Goto
<1>4. QED
  BY <1>2, <1>3

LEMMA WithUserMoves ==
    ASSUME AccountsInd, NEW r \in Requests, NEW q, q = req[r], NEW p, NEW u, WithUser(r, p, u)
    PROVE  req' = [req EXCEPT ![r] = Moved(q, p, u, q.via, q.arg)]
<1> DEFINE w == [q EXCEPT !.pc = p]
<1>1. req \in [Requests -> RequestStates] /\ q \in RequestStates
  BY DEF AccountsInd, AccountsInv, TypeOK
<1>2. w = Moved(q, p, q.user, q.via, q.arg)
  BY <1>1 DEF Moved, RequestStates
<1>3. req' = [req EXCEPT ![r] = [w EXCEPT !.user = u]]
  BY <1>1 DEF WithUser
<1> HIDE DEF w
<1>4. [w EXCEPT !.user = u] = Moved(q, p, u, q.via, q.arg)
  BY <1>2 DEF Moved
<1>5. QED
  BY <1>3, <1>4

LEMMA AuthenticatedMoves ==
    ASSUME AccountsInd, NEW r \in Requests, NEW q, q = req[r], NEW u, NEW v, Authenticated(r, u, v)
    PROVE  req' = [req EXCEPT ![r] = Moved(q, "stamp", u, v, q.arg)]
<1> DEFINE w == [q EXCEPT !.pc = "stamp"]
           x == [w EXCEPT !.user = u]
<1>1. req \in [Requests -> RequestStates] /\ q \in RequestStates
  BY DEF AccountsInd, AccountsInv, TypeOK
<1>2. w = Moved(q, "stamp", q.user, q.via, q.arg)
  BY <1>1 DEF Moved, RequestStates
<1>3. req' = [req EXCEPT ![r] = [x EXCEPT !.via = v]]
  BY <1>1 DEF Authenticated
<1> HIDE DEF w
<1>4. x = Moved(q, "stamp", u, q.via, q.arg)
  BY <1>2 DEF Moved
<1> HIDE DEF x
<1>5. [x EXCEPT !.via = v] = Moved(q, "stamp", u, v, q.arg)
  BY <1>4 DEF Moved
<1>6. QED
  BY <1>3, <1>5

LEMMA ArgumentMoves ==
    ASSUME AccountsInd, NEW r \in Requests, NEW q, q = req[r], NEW p, NEW a, WithArg(r, p, a)
    PROVE  req' = [req EXCEPT ![r] = Moved(q, p, q.user, q.via, a)]
<1> DEFINE w == [q EXCEPT !.pc = p]
<1>1. req \in [Requests -> RequestStates] /\ q \in RequestStates
  BY DEF AccountsInd, AccountsInv, TypeOK
<1>2. w = Moved(q, p, q.user, q.via, q.arg)
  BY <1>1 DEF Moved, RequestStates
<1>3. req' = [req EXCEPT ![r] = [w EXCEPT !.arg = a]]
  BY <1>1 DEF WithArg
<1> HIDE DEF w
<1>4. [w EXCEPT !.arg = a] = Moved(q, p, q.user, q.via, a)
  BY <1>2 DEF Moved
<1>5. QED
  BY <1>3, <1>4

Plain == PCs \ {"login_stamp", "login_session", "login_load"}
ByToken == LoginPCs \cup RegisterPCs \cup VerifyPCs

\* On to the next step, or on with a user.
LEMMA GoesOn ==
    ASSUME AccountsInd, Evolves, Unanswered, Quiet, NEW r \in Requests, NEW p \in Plain, NEW u \in UserIds \cup {0},
           Goto(r, p) \/ WithUser(r, p, u),
           p \in {"auth_used", "auth_owner"} => req[r].live,
           p \in ByToken => req[r].pc \in ByToken
    PROVE  AccountsInd'
<1>1. PICK q : q = req[r]
  OBVIOUS
<1>2. /\ req \in [Requests -> RequestStates] /\ q \in RequestStates /\ RequestInv(q)
      /\ q.via = "session" => q.live
      /\ q.user \in UserIds \cup {0} /\ q.via \in Vias /\ q.arg \in UserIds \cup SessionIds \cup {0}
  BY <1>1, Known
<1>3. p \in PCs /\ p \notin {"login_stamp", "login_session", "login_load"}
  BY DEF Plain
<1>4. PICK v \in UserIds \cup {0} : req' = [req EXCEPT ![r] = Moved(q, p, v, q.via, q.arg)]
  <2>1. CASE Goto(r, p)
    <3>1. req' = [req EXCEPT ![r] = Moved(q, p, q.user, q.via, q.arg)]
      BY <1>1, <2>1, GotoMoves
    <3>2. QED
      BY <1>2, <3>1
  <2>2. CASE WithUser(r, p, u)
    <3>1. req' = [req EXCEPT ![r] = Moved(q, p, u, q.via, q.arg)]
      BY <1>1, <2>2, WithUserMoves
    <3>2. QED
      BY <3>1
  <2>3. QED
    BY <2>1, <2>2
<1>5. MayMove(q, p, v, q.via, q.arg)'
  BY <1>1, <1>2, <1>3 DEF MayMove, RequestInv, ByToken
<1>6. QED
  BY <1>1, <1>2, <1>3, <1>4, <1>5, MovedKeeps

\* On to a login step with the account of the ID token.
LEMMA LoginGoesOn ==
    ASSUME AccountsInd, Evolves, Unanswered, Quiet, NEW r \in Requests, NEW u \in UserIds,
           req[r].pc \in ByToken, u <= given'.user,
           \/ WithUser(r, "login_stamp", u)
           \/ Goto(r, "login_session") /\ req[r].user = u,
           u \in DOMAIN users' => users'[u].uid = req[r].uid
    PROVE  AccountsInd'
<1>1. PICK q : q = req[r]
  OBVIOUS
<1>2. /\ req \in [Requests -> RequestStates] /\ q \in RequestStates /\ RequestInv(q)
      /\ q.via = "session" => q.live
      /\ q.user \in UserIds \cup {0} /\ q.via \in Vias /\ q.arg \in UserIds \cup SessionIds \cup {0}
  BY <1>1, Known
<1>3. PICK p \in {"login_stamp", "login_session"} : req' = [req EXCEPT ![r] = Moved(q, p, u, q.via, q.arg)]
  <2>1. CASE Goto(r, "login_session") /\ req[r].user = u
    <3>1. req' = [req EXCEPT ![r] = Moved(q, "login_session", u, q.via, q.arg)]
      BY <1>1, <2>1, GotoMoves
    <3>2. QED
      BY <3>1
  <2>2. CASE WithUser(r, "login_stamp", u)
    <3>1. req' = [req EXCEPT ![r] = Moved(q, "login_stamp", u, q.via, q.arg)]
      BY <1>1, <2>2, WithUserMoves
    <3>2. QED
      BY <3>1
  <2>3. QED
    BY <2>1, <2>2
<1>4. p \in PCs /\ p \in LoginPCs
  BY DEF PCs, LoginPCs
<1>a. given'.user \in Nat
  BY DEF Evolves, GivenGrow
<1>5. MayMove(q, p, u, q.via, q.arg)'
  BY <1>1, <1>2, <1>a DEF MayMove, RequestInv, ByToken, UserIds
<1>6. QED
  BY <1>1, <1>2, <1>3, <1>4, <1>5, MovedKeeps

LogoutPCs == {"logout_find", "logout_revoke"}

\* The answers of everything but a logout.
LEMMA AnswersKeep ==
    ASSUME AccountsInd, Evolves, Quiet, NEW r \in Requests, req[r].pc \notin LogoutPCs,
           \/ Error(r) \/ Answer(r, SessionSet(r)) \/ Answer(r, NoCookies)
           \/ Answer(r, [cookies EXCEPT !.session = NoUid])
           \/ Answer(r, [cookies EXCEPT !.auth = req[r].ck.auth])
    PROVE  AccountsInd'
<1>1. /\ req[r].uid \in Uids \cup {NoUid} /\ req[r].ck \in Cookies
      /\ req[r].ck.auth \in Nat /\ req[r].ck.auth <= given.session
      /\ cookies \in Cookies /\ cookies.auth <= given.session /\ given.session \in Nat
  BY Known
<1>2. given'.session >= given.session /\ given'.session \in Nat /\ cookies.auth \in Nat
  BY <1>1 DEF Evolves, GivenGrow, Cookies, SessionIds
<1>3. PICK ck \in Cookies :
         /\ Answer(r, ck) /\ ck.auth \in Nat /\ ck.auth <= given.session
         /\ ck.session = cookies.session \/ ck.auth = cookies.auth \/ ck.session = NoUid
  <2>1. CASE Error(r)
    BY <1>1, <1>2, <2>1 DEF Error
  <2>2. CASE Answer(r, SessionSet(r))
    <3>1. SessionSet(r) \in Cookies /\ SessionSet(r).auth = cookies.auth
      BY <1>1 DEF SessionSet, Cookies
    <3>2. QED
      BY <1>1, <1>2, <2>2, <3>1
  <2>3. CASE Answer(r, NoCookies)
    <3>1. NoCookies \in Cookies /\ NoCookies.session = NoUid /\ NoCookies.auth = 0
      BY DEF NoCookies, Cookies
    <3>2. QED
      BY <1>1, <2>3, <3>1
  <2>4. CASE Answer(r, [cookies EXCEPT !.session = NoUid])
    <3>1. /\ [cookies EXCEPT !.session = NoUid] \in Cookies
          /\ [cookies EXCEPT !.session = NoUid].auth = cookies.auth
      BY <1>1 DEF Cookies
    <3>2. QED
      BY <1>1, <1>2, <2>4, <3>1
  <2>5. CASE Answer(r, [cookies EXCEPT !.auth = req[r].ck.auth])
    <3>1. /\ [cookies EXCEPT !.auth = req[r].ck.auth] \in Cookies
          /\ [cookies EXCEPT !.auth = req[r].ck.auth].session = cookies.session
          /\ [cookies EXCEPT !.auth = req[r].ck.auth].auth = req[r].ck.auth
      BY <1>1 DEF Cookies
    <3>2. QED
      BY <1>1, <2>5, <3>1
  <2>6. QED
    BY <2>1, <2>2, <2>3, <2>4, <2>5
<1>4. ck.auth <= given'.session
  BY <1>1, <1>2, <1>3
<1>5. QED
  BY <1>3, <1>4, AnsweredKeeps DEF LogoutPCs

\* The answer of a logout, when the session is not usable any more.
LEMMA LogoutKeeps ==
    ASSUME AccountsInd, Evolves, Quiet, NEW r \in Requests, Answer(r, NoCookies),
           NEW e, e = req[r].ck.auth, ~Usable(e)'
    PROVE  AccountsInd'
<1>1. NoCookies \in Cookies /\ NoCookies.session = NoUid /\ NoCookies.auth = 0
  BY DEF NoCookies, Cookies
<1>2. NoCookies.auth <= given'.session
  BY <1>1 DEF Evolves, GivenGrow
<1>3. QED
  BY <1>1, <1>2, AnsweredKeeps

-----------------------------------------------------------------------------
(* The actions.                                                            *)

LEMMA ArriveKeeps ==
    ASSUME AccountsInd, NEW r \in Requests, Arrive(r)
    PROVE  AccountsInd'
<1>1. PICK op \in ForAccount \cup OnCookies \cup Protected, u \in Uids \cup {NoUid}, k \in TokenIds \cup {0} :
          /\ (u # NoUid) = (op \in ForAccount)
          /\ req' = [req EXCEPT ![r] =
                [Idle EXCEPT !.op = op, !.uid = u, !.ck = cookies, !.bearer = k,
                    !.pc = IF op \in Protected THEN "auth" ELSE op,
                    !.live = Usable(cookies.auth)]]
  BY DEF Arrive
<1>2. PICK q : q = [Idle EXCEPT !.op = op, !.uid = u, !.ck = cookies, !.bearer = k,
                        !.pc = IF op \in Protected THEN "auth" ELSE op, !.live = Usable(cookies.auth)]
  OBVIOUS
<1>3. Evolves /\ req \in [Requests -> RequestStates] /\ cookies \in Cookies /\ cookies.auth <= given.session
  BY SameTables, Known DEF Arrive
<1>4. q = [op |-> op, pc |-> IF op \in Protected THEN "auth" ELSE op, uid |-> u, ck |-> cookies, bearer |-> k,
           user |-> 0, via |-> "none", arg |-> 0, live |-> Usable(cookies.auth)]
  BY <1>2 DEF Idle
<1>5. q.pc \in {"auth", "login", "register", "verify", "logout", "session"}
      /\ (q.pc \in {"login", "register", "verify"} => q.uid \in Uids)
  BY <1>1, <1>4 DEF ForAccount, OnCookies, Protected
<1>6. Usable(cookies.auth) \in BOOLEAN
  <2>1. cookies.auth \in DOMAIN sessions => sessions[cookies.auth] \in SessionRows
    BY DEF AccountsInd, AccountsInv, TypeOK
  <2>2. QED
    BY <2>1 DEF Usable, SessionRows
<1>7. q \in RequestStates
  BY <1>3, <1>4, <1>5, <1>6 DEF RequestStates, PCs, LoginPCs, RegisterPCs, VerifyPCs, CookiePCs, AuthPCs
<1>8. req' \in [Requests -> RequestStates] /\ req'[r] = q /\ \A x \in Requests \ {r} : req'[x] = req[x]
  BY <1>1, <1>2, <1>3, <1>7
<1>9. UNCHANGED <<sessions, users, given>>
  BY DEF Arrive, db
<1>10. RequestInv(req[r])'
  <2>1. q.ck = cookies /\ q.live = Usable(cookies.auth) /\ req[r]' = q
    BY <1>4, <1>8
  <2>2. q.pc \notin {"auth_used", "auth_owner", "login_stamp", "login_session", "login_load"}
    BY <1>5
  <2>3. q.pc \in LoginPCs \cup RegisterPCs \cup VerifyPCs => q.uid \in Uids
    BY <1>5 DEF LoginPCs, RegisterPCs, VerifyPCs
  <2>4. q.ck.auth <= given'.session
    BY <1>3, <1>9, <2>1
  <2>5. Usable(q.ck.auth) => q.live
    BY <2>1
  <2>6. RequestInv(q)'
    BY <1>9, <2>2, <2>3, <2>4, <2>5 DEF RequestInv, Usable
  <2>7. QED
    BY <2>1, <2>6 DEF RequestInv, Usable
<1>11. \A x \in Requests : RequestInv(req[x])'
  <2>1. \A x \in Requests \ {r} : RequestInv(req[x])'
    BY <1>3, <1>8, OthersKept
  <2>2. QED
    BY <1>10, <2>1
<1>12. OnlyLiveSessions'
  BY <1>4, <1>8 DEF OnlyLiveSessions, AccountsInd
<1>13. OneIdentity' /\ LoggedOutIsDead' /\ cookies'.auth <= given'.session /\ loggedOut' \subseteq 1..given'.session
  BY <1>3, BrowserKept DEF Arrive, Unanswered
<1>14. /\ arrivals' \in 0..MaxArrivals /\ cookies' \in Cookies /\ cleanup' \in {"waiting", "inactive"}
       /\ mixed' \in BOOLEAN
  BY AccountsAssumption DEF Arrive, Unanswered, AccountsInd, AccountsInv, TypeOK
<1>15. QED
  BY <1>3, <1>8, <1>11, <1>12, <1>13, <1>14, StepKeeps

\* Steps that only read the database.
LEMMA LoginReads ==
    ASSUME AccountsInd, NEW r \in Requests, LoginLookup(r) \/ LoginStamp(r)
    PROVE  AccountsInd'
<1>1. Evolves /\ Quiet /\ UNCHANGED db
  BY SameTables DEF LoginLookup, LoginStamp
<1>2. /\ req[r].user \in UserIds \cup {0} /\ RequestInv(req[r]) /\ given.user \in Nat /\ given'.user = given.user
      /\ users' = users
  BY <1>1, Known DEF db
<1>3. "login_create" \in Plain /\ {"login", "login_stamp"} \subseteq ByToken /\ "login_create" \in ByToken
  BY DEF Plain, PCs, LoginPCs, ByToken
<1>4. CASE LoginLookup(r)
  <2> DEFINE u == GetUserByFirebaseUID(req[r].uid)
  <2>0. req[r].pc = "login"
    BY <1>4 DEF LoginLookup, At
  <2>1. CASE Error(r)
    BY <1>1, <2>0, <2>1, AnswersKeep DEF LogoutPCs
  <2>2. CASE u # 0 /\ WithUser(r, "login_stamp", u) /\ Unanswered
    <3>1. u \in DOMAIN users /\ users[u].uid = req[r].uid /\ u \in UserIds /\ u \in 1..given.user
      BY <2>2, UserFound
    <3> HIDE DEF u
    <3>2. QED
      BY <1>1, <1>2, <1>3, <2>0, <2>2, <3>1, LoginGoesOn
  <2>3. CASE Goto(r, "login_create") /\ Unanswered
    BY <1>1, <1>2, <1>3, <2>0, <2>3, GoesOn
  <2>4. QED
    BY <1>4, <2>1, <2>2, <2>3 DEF LoginLookup
<1>5. CASE LoginStamp(r)
  <2>0. req[r].pc = "login_stamp"
    BY <1>5 DEF LoginStamp, At
  <2>1. CASE Answer(r, SessionSet(r))
    BY <1>1, <2>0, <2>1, AnswersKeep DEF LogoutPCs
  <2>2. CASE Goto(r, "login_session") /\ Unanswered
    <3>1. /\ req[r].user \in UserIds /\ req[r].user <= given'.user
          /\ req[r].user \in DOMAIN users' => users'[req[r].user].uid = req[r].uid
      BY <1>2, <2>0 DEF RequestInv, UserIds
    <3>2. QED
      BY <1>1, <1>3, <2>0, <2>2, <3>1, LoginGoesOn
  <2>3. QED
    BY <1>5, <2>1, <2>2 DEF LoginStamp
<1>6. QED
  BY <1>4, <1>5

\* The user is found by another request, or inserted by this one.
LEMMA LoginCreateKeeps ==
    ASSUME AccountsInd, NEW r \in Requests, LoginCreate(r)
    PROVE  AccountsInd'
<1> DEFINE id == given.user + 1
<1>0. req[r].pc = "login_create" /\ Quiet
  BY DEF LoginCreate, At
<1>1. req[r].uid \in Uids /\ "login_create" \in ByToken /\ given.user \in Nat
  BY <1>0, Known DEF RequestInv, LoginPCs, ByToken
<1>2. /\ Evolves /\ given'.user = id /\ id \in UserIds
      /\ CreateUser(req[r].uid).err = "none" => id \in DOMAIN users' /\ users'[id].uid = req[r].uid
  <2>1. PICK uid \in Uids : uid = req[r].uid
    BY <1>1
  <2>2. /\ UNCHANGED <<sessions, tokens>> /\ given.user < MaxUsers /\ users' = CreateUser(uid).table
        /\ given' = [given EXCEPT !.user = @ + 1]
    BY <2>1 DEF LoginCreate
  <2>3. /\ Evolves /\ given'.user = given.user + 1 /\ given.user + 1 \in UserIds
        /\ CreateUser(uid).err = "none" => given.user + 1 \in DOMAIN users' /\ users'[given.user + 1].uid = uid
    BY <2>2, UserCreated
  <2>4. QED
    BY <2>1, <2>3
<1>3. CASE CreateUser(req[r].uid).err = "none" /\ WithUser(r, "login_stamp", id) /\ Unanswered
  BY <1>0, <1>1, <1>2, <1>3, LoginGoesOn
<1>4. CASE Answer(r, SessionSet(r))
  BY <1>0, <1>2, <1>4, AnswersKeep DEF LogoutPCs
<1>5. QED
  BY <1>3, <1>4 DEF LoginCreate

\* The session is inserted for the account of the ID token.
LEMMA LoginSessionKeeps ==
    ASSUME AccountsInd, NEW r \in Requests, LoginSession(r)
    PROVE  AccountsInd'
<1> DEFINE id == given.session + 1
<1>0. req[r].pc = "login_session" /\ Quiet /\ UNCHANGED <<users, tokens>>
  BY DEF LoginSession, At
<1>1. PICK q : q = req[r]
  OBVIOUS
<1>2. /\ q.uid \in Uids /\ q.user \in UserIds \cup {0} /\ q.via \in Vias
      /\ q.user \in DOMAIN users => users[q.user].uid = q.uid
      /\ q.via = "session" => q.live
      /\ given.session \in Nat
  BY <1>0, <1>1, Known DEF RequestInv, LoginPCs
<1>3. /\ Evolves /\ given'.session = id /\ id \in SessionIds
      /\ CreateForUser(q.user).err = "none" =>
            id \in DOMAIN sessions' /\ sessions'[id].owner = q.user /\ q.user \in DOMAIN users
  <2>1. /\ given.session < MaxSessions /\ sessions' = CreateForUser(q.user).table
        /\ given' = [given EXCEPT !.session = @ + 1]
    BY <1>1 DEF LoginSession
  <2>2. QED
    BY <1>0, <2>1, SessionCreated
<1>4. CASE CreateForUser(q.user).err = "none" /\ WithArg(r, "login_load", id) /\ Unanswered
  <2>1. req' = [req EXCEPT ![r] = Moved(q, "login_load", q.user, q.via, id)]
    BY <1>1, <1>4, ArgumentMoves
  <2>2. "login_load" \in PCs /\ "login_load" \in LoginPCs
    BY DEF PCs, LoginPCs
  <2>3. users'[sessions'[id].owner].uid = q.uid /\ id \in 1..given'.session
    BY <1>0, <1>2, <1>3, <1>4
  <2>4. PICK i \in SessionIds : i = id
    BY <1>3
  <2>5. MayMove(q, "login_load", q.user, q.via, i)'
    BY <1>2, <2>3, <2>4 DEF MayMove
  <2>6. QED
    BY <1>0, <1>1, <1>2, <1>3, <1>4, <2>1, <2>2, <2>4, <2>5, MovedKeeps
<1>5. CASE Answer(r, SessionSet(r))
  BY <1>0, <1>3, <1>5, AnswersKeep DEF LogoutPCs
<1>6. QED
  BY <1>1, <1>4, <1>5 DEF LoginSession

\* Both cookies are set, for the same account.
LEMMA LoginLoadKeeps ==
    ASSUME AccountsInd, NEW r \in Requests, LoginLoad(r)
    PROVE  AccountsInd'
<1>0. req[r].pc = "login_load" /\ Quiet /\ UNCHANGED <<users, sessions, given>> /\ Evolves
  BY SameTables DEF LoginLoad, At, db
<1>1. CASE Answer(r, SessionSet(r))
  BY <1>0, <1>1, AnswersKeep DEF LogoutPCs
<1>2. CASE Answer(r, [session |-> req[r].uid, auth |-> req[r].arg])
  <2>1. PICK ck : ck = [session |-> req[r].uid, auth |-> req[r].arg]
    OBVIOUS
  <2>2. /\ req[r].uid \in Uids /\ req[r].arg \in 1..given.session
        /\ req[r].arg \in DOMAIN sessions => users[sessions[req[r].arg].owner].uid = req[r].uid
        /\ given.session \in 0..MaxSessions
    BY <1>0, Known DEF RequestInv, LoginPCs, AccountsInd, AccountsInv, TypeOK
  <2>3. ck \in Cookies /\ ck.auth = req[r].arg /\ ck.session = req[r].uid
    BY <2>1, <2>2, AccountsAssumption DEF Cookies, SessionIds
  <2>4. /\ ck.auth <= given'.session
        /\ ck.auth \in DOMAIN sessions' => users'[sessions'[ck.auth].owner].uid = ck.session
    BY <1>0, <2>2, <2>3
  <2>5. PICK e : e = req[r].ck.auth
    OBVIOUS
  <2>6. QED
    BY <1>0, <1>2, <2>1, <2>3, <2>4, <2>5, AnsweredKeeps
<1>3. QED
  BY <1>1, <1>2 DEF LoginLoad

LEMMA RegisterKeeps ==
    ASSUME AccountsInd, NEW r \in Requests, RegisterStep(r)
    PROVE  AccountsInd'
<1>0. req[r].pc \in {"register", "register_email", "register_create"} /\ Quiet
  BY DEF RegisterStep, RegisterLookup, RegisterEmail, RegisterCreate, At
<1>1. req[r].uid \in Uids /\ req[r].user \in UserIds \cup {0}
  BY <1>0, Known DEF RequestInv, RegisterPCs
<1>2. {"register_email", "register_create"} \subseteq Plain /\ {"register", "register_email"} \subseteq ByToken
      /\ req[r].pc \notin LogoutPCs /\ req[r].pc \in ByToken
  BY <1>0 DEF Plain, PCs, RegisterPCs, ByToken, LogoutPCs
<1>3. CASE RegisterCreate(r)
  <2>1. PICK uid \in Uids : uid = req[r].uid
    BY <1>1
  <2>2. /\ UNCHANGED <<sessions, tokens>> /\ given.user < MaxUsers /\ users' = CreateUser(uid).table
        /\ given' = [given EXCEPT !.user = @ + 1] /\ Error(r)
    BY <1>3, <2>1 DEF RegisterCreate
  <2>3. Evolves
    BY <2>2, UserCreated
  <2>4. QED
    BY <1>0, <1>2, <2>2, <2>3, AnswersKeep
<1>4. CASE RegisterLookup(r) \/ RegisterEmail(r)
  <2>1. Evolves
    BY <1>4, SameTables DEF RegisterLookup, RegisterEmail
  <2>2. CASE Error(r)
    BY <1>0, <1>2, <2>1, <2>2, AnswersKeep
  <2>3. CASE Goto(r, "register_email") /\ Unanswered
    BY <1>0, <1>1, <1>2, <2>1, <2>3, GoesOn
  <2>4. CASE Goto(r, "register_create") /\ Unanswered
    BY <1>0, <1>1, <1>2, <2>1, <2>4, GoesOn
  <2>5. QED
    BY <1>4, <2>2, <2>3, <2>4 DEF RegisterLookup, RegisterEmail
<1>5. QED
  BY <1>3, <1>4 DEF RegisterStep

\* A user's row is written without a change that matters here.
LEMMA UserTouched ==
    ASSUME AccountsInd, UNCHANGED <<sessions, tokens, given>>, NEW i, users' = UserUpdateOne(users, i, <<>>).table
    PROVE  Evolves
<1>1. CASE i \notin DOMAIN users
  <2>1. users' = users
    BY <1>1 DEF UserUpdateOne, Rewritten, Fails
  <2>2. QED
    BY <2>1, SameTables DEF db
<1>2. CASE i \in DOMAIN users
  <2>1. users[i].uid \in Uids
    BY <1>2 DEF AccountsInd, AccountsInv, TypeOK, UserRows
  <2>2. QED
    BY <2>1, UserUpdated
<1>3. QED
  BY <1>1, <1>2

LEMMA VerifyKeeps ==
    ASSUME AccountsInd, NEW r \in Requests, VerifyToken(r) \/ VerifyStamp(r)
    PROVE  AccountsInd'
<1>0. req[r].pc \in {"verify", "verify_stamp"} /\ Quiet
  BY DEF VerifyToken, VerifyStamp, At
<1>1. "verify_stamp" \in Plain /\ req[r].pc \notin LogoutPCs /\ req[r].pc \in ByToken
  BY <1>0 DEF Plain, PCs, VerifyPCs, ByToken, LogoutPCs
<1>2. CASE VerifyStamp(r)
  <2>1. Evolves
    BY <1>2, UserTouched DEF VerifyStamp, UpdateUserLastActivity
  <2>2. QED
    BY <1>0, <1>1, <1>2, <2>1, AnswersKeep DEF VerifyStamp
<1>3. CASE VerifyToken(r)
  <2>1. Evolves
    BY <1>3, SameTables DEF VerifyToken
  <2>2. CASE Error(r) \/ Answer(r, SessionSet(r))
    BY <1>0, <1>1, <2>1, <2>2, AnswersKeep
  <2>3. ASSUME NEW u, u = GetUserByFirebaseUID(req[r].uid), u # 0, WithUser(r, "verify_stamp", u), Unanswered
        PROVE  AccountsInd'
    <3>1. u \in UserIds
      BY <2>3, UserFound
    <3>2. QED
      BY <1>0, <1>1, <2>1, <2>3, <3>1, GoesOn
  <2>4. QED
    BY <1>3, <2>2, <2>3 DEF VerifyToken
<1>4. QED
  BY <1>2, <1>3

\* Logout answers only when its session is not usable any more.
LEMMA LogoutStepKeeps ==
    ASSUME AccountsInd, NEW r \in Requests, Logout(r) \/ LogoutFind(r) \/ LogoutRevoke(r) \/ LogoutFails(r)
    PROVE  AccountsInd'
<1>0. Quiet /\ req[r].user \in UserIds \cup {0} /\ req[r].ck.auth \in Nat
  BY Known DEF Logout, LogoutFind, LogoutRevoke, LogoutFails
<1>1. {"logout_find", "logout_revoke"} \subseteq Plain /\ {"logout_find", "logout_revoke"} \cap ByToken = {}
  BY DEF Plain, PCs, CookiePCs, ByToken, LoginPCs, RegisterPCs, VerifyPCs
<1>2. CASE Logout(r)
  <2>1. Evolves /\ req[r].pc = "logout"
    BY <1>2, SameTables DEF Logout, At
  <2>2. CASE Error(r)
    BY <1>0, <2>1, <2>2, AnswersKeep DEF LogoutPCs
  <2>3. CASE Goto(r, "logout_find") /\ Unanswered
    BY <1>0, <1>1, <2>1, <2>3, GoesOn
  <2>4. QED
    BY <1>2, <2>2, <2>3 DEF Logout
<1>3. CASE LogoutFind(r)
  <2>1. Evolves /\ sessions' = sessions
    BY <1>3, SameTables DEF LogoutFind, db
  <2>2. CASE Goto(r, "logout_revoke") /\ Unanswered
    BY <1>0, <1>1, <2>1, <2>2, GoesOn
  <2>3. CASE GetActiveByToken(req[r].ck.auth) = 0 /\ Answer(r, NoCookies)
    <3>1. PICK e \in Nat : e = req[r].ck.auth
      BY <1>0
    <3>2. ~Usable(e)
      BY <2>3, <3>1, ActiveIsFound
    <3>3. ~Usable(e)'
      BY <2>1, <3>2 DEF Usable
    <3>4. QED
      BY <1>0, <2>1, <2>3, <3>1, <3>3, LogoutKeeps
  <2>4. QED
    BY <1>3, <2>2, <2>3 DEF LogoutFind
<1>4. CASE LogoutRevoke(r)
  <2>1. PICK e : e = req[r].ck.auth
    OBVIOUS
  <2>2. /\ UNCHANGED <<users, tokens, given>> /\ sessions' = SessionUpdateOne(sessions, e, [active |-> FALSE]).table
        /\ Answer(r, NoCookies)
    BY <1>4, <2>1 DEF LogoutRevoke, Revoke
  <2>3. Evolves /\ Ended(sessions', e)
    BY <2>2, SessionUpdated
  <2>4. ~Usable(e)'
    BY <2>3 DEF Ended, Usable
  <2>5. QED
    BY <1>0, <2>1, <2>2, <2>3, <2>4, LogoutKeeps
<1>5. CASE LogoutFails(r)
  <2>1. Evolves /\ Ends(r, NoCookies) /\ loggedOut' = loggedOut
    BY <1>5, SameTables DEF LogoutFails
  <2>2. NoCookies \in Cookies /\ NoCookies.session = NoUid /\ NoCookies.auth = 0
    BY DEF NoCookies, Cookies
  <2>3. NoCookies.auth <= given'.session
    BY <2>1, <2>2 DEF Evolves, GivenGrow
  <2>4. \A s \in loggedOut' : s \in loggedOut
    BY <2>1
  <2>5. QED
    BY <1>0, <2>1, <2>2, <2>3, <2>4, EndedKeeps
<1>6. QED
  BY <1>2, <1>3, <1>4, <1>5

LEMMA SessionStepKeeps ==
    ASSUME AccountsInd, NEW r \in Requests,
           GetSession(r) \/ SessionStamp(r) \/ SessionToken(r) \/ SessionUsed(r) \/ SessionOwner(r)
    PROVE  AccountsInd'
<1>0. /\ Quiet /\ req[r].user \in UserIds \cup {0}
      /\ req[r].pc \in {"session", "session_stamp", "session_token", "session_used", "session_owner"}
  BY Known DEF GetSession, SessionStamp, SessionToken, SessionUsed, SessionOwner, At
<1>1. /\ {"session_stamp", "session_token", "session_used", "session_owner"} \subseteq Plain
      /\ {"session_stamp", "session_token", "session_used", "session_owner"} \cap ByToken = {}
      /\ req[r].pc \notin LogoutPCs
  BY <1>0 DEF Plain, PCs, CookiePCs, ByToken, LoginPCs, RegisterPCs, VerifyPCs, LogoutPCs
<1>2. CASE GetSession(r)
  <2>1. Evolves
    BY <1>2, SameTables DEF GetSession
  <2>2. CASE Goto(r, "session_token") /\ Unanswered
    BY <1>0, <1>1, <2>1, <2>2, GoesOn
  <2>3. ASSUME NEW u, u = GetUserByFirebaseUID(req[r].ck.session), u # 0, WithUser(r, "session_stamp", u), Unanswered
        PROVE  AccountsInd'
    <3>1. u \in UserIds
      BY <2>3, UserFound
    <3>2. QED
      BY <1>0, <1>1, <2>1, <2>3, <3>1, GoesOn
  <2>4. QED
    BY <1>2, <2>2, <2>3 DEF GetSession
<1>3. CASE SessionStamp(r)
  <2>1. Evolves
    BY <1>3, UserTouched DEF SessionStamp, UpdateUserLastActivity
  <2>2. QED
    BY <1>0, <1>1, <1>3, <2>1, AnswersKeep DEF SessionStamp
<1>4. CASE SessionToken(r)
  <2>1. Evolves
    BY <1>4, SameTables DEF SessionToken
  <2>2. CASE Goto(r, "session_used") /\ Unanswered
    BY <1>0, <1>1, <2>1, <2>2, GoesOn
  <2>3. CASE Answer(r, IF req[r].ck = NoCookies THEN cookies ELSE NoCookies)
    <3>1. Error(r) \/ Answer(r, NoCookies)
      BY <2>3 DEF Error
    <3>2. QED
      BY <1>0, <1>1, <2>1, <3>1, AnswersKeep
  <2>4. QED
    BY <1>4, <2>2, <2>3 DEF SessionToken
<1>5. CASE SessionUsed(r)
  <2>1. Evolves
    <3>1. UNCHANGED <<users, tokens, given>> /\ sessions' = SessionUpdateOne(sessions, req[r].ck.auth, [idle |-> FALSE]).table
      BY <1>5 DEF SessionUsed, UpdateLastUsed, LastUsed
    <3>2. QED
      BY <3>1, SessionUpdated
  <2>2. CASE Goto(r, "session_owner") /\ Unanswered
    BY <1>0, <1>1, <2>1, <2>2, GoesOn
  <2>3. CASE Error(r)
    BY <1>0, <1>1, <2>1, <2>3, AnswersKeep
  <2>4. QED
    BY <1>5, <2>2, <2>3 DEF SessionUsed
<1>6. CASE SessionOwner(r)
  <2>1. Evolves
    BY <1>6, SameTables DEF SessionOwner
  <2>2. Answer(r, [cookies EXCEPT !.auth = req[r].ck.auth]) \/ Answer(r, NoCookies)
    BY <1>6 DEF SessionOwner
  <2>3. QED
    BY <1>0, <1>1, <2>1, <2>2, AnswersKeep
<1>7. QED
  BY <1>2, <1>3, <1>4, <1>5, <1>6

\* RequireAuth lets the request in.
LEMMA LetIn ==
    ASSUME AccountsInd, Evolves, Quiet, NEW r \in Requests, NEW u \in UserIds \cup {0}, NEW v \in Vias,
           Authenticated(r, u, v), v = "session" => req[r].live
    PROVE  AccountsInd'
<1>1. PICK q : q = req[r]
  OBVIOUS
<1>2. q.arg \in UserIds \cup SessionIds \cup {0} /\ Unanswered
  BY <1>1, Known DEF Authenticated
<1>3. req' = [req EXCEPT ![r] = Moved(q, "stamp", u, v, q.arg)]
  BY <1>1, AuthenticatedMoves
<1>4. "stamp" \in PCs /\ "stamp" \notin LoginPCs \cup RegisterPCs \cup VerifyPCs
  BY DEF PCs, AuthPCs, LoginPCs, RegisterPCs, VerifyPCs
<1>5. MayMove(q, "stamp", u, v, q.arg)'
  BY <1>1, <1>4 DEF MayMove
<1>6. QED
  BY <1>1, <1>2, <1>3, <1>4, <1>5, MovedKeeps

\* Only a session that was usable when the request was sent lets it in.
LEMMA AuthKeeps ==
    ASSUME AccountsInd, NEW r \in Requests, RequireAuth(r)
    PROVE  AccountsInd'
<1> USE DEF Refuse
<1>0. Quiet /\ req[r].user \in UserIds \cup {0} /\ RequestInv(req[r])
  BY Known DEF RequireAuth, AuthCookie, AuthToken, AuthUsed, AuthOwner, AuthBearer, AuthBearerUsed, AuthBearerUser,
               AuthStamp
<1>1. /\ {"auth_token", "auth_used", "auth_owner", "auth_bearer", "auth_bearer_used", "auth_bearer_user", "handler"}
            \subseteq Plain \ ByToken
      /\ req[r].pc \notin LogoutPCs
  <2>1. {"auth_token", "auth_used", "auth_owner", "auth_bearer", "auth_bearer_used", "auth_bearer_user", "handler"}
            \subseteq Plain \ ByToken
    BY DEF Plain, PCs, AuthPCs, HandlerPCs, ByToken, LoginPCs, RegisterPCs, VerifyPCs
  <2>2. req[r].pc \notin LogoutPCs
    BY DEF RequireAuth, AuthCookie, AuthToken, AuthUsed, AuthOwner, AuthBearer, AuthBearerUsed, AuthBearerUser,
           AuthStamp, At, LogoutPCs
  <2>3. QED
    BY <2>1, <2>2
<1>2. CASE AuthCookie(r)
  <2>1. Evolves
    BY <1>2, SameTables DEF AuthCookie
  <2>2. ASSUME NEW u, u = GetUserByFirebaseUID(req[r].ck.session), u # 0, Authenticated(r, u, "cookie")
        PROVE  AccountsInd'
    <3>1. u \in UserIds /\ "cookie" \in Vias
      BY <2>2, UserFound DEF Vias
    <3>2. QED
      BY <1>0, <2>1, <2>2, <3>1, LetIn
  <2>3. CASE Goto(r, "auth_token") /\ Unanswered
    BY <1>0, <1>1, <2>1, <2>3, GoesOn
  <2>4. QED
    BY <1>2, <2>2, <2>3 DEF AuthCookie
<1>3. CASE AuthToken(r)
  <2>1. Evolves /\ Unanswered
    BY <1>3, SameTables DEF AuthToken
  <2>2. CASE GetActiveByToken(req[r].ck.auth) # 0 /\ Goto(r, "auth_used")
    <3>1. Usable(req[r].ck.auth)
      BY <2>2, ActiveFound
    <3>2. req[r].live
      BY <1>0, <3>1 DEF RequestInv
    <3>3. QED
      BY <1>0, <1>1, <2>1, <2>2, <3>2, GoesOn
  <2>3. CASE Goto(r, "auth_bearer")
    BY <1>0, <1>1, <2>1, <2>3, GoesOn
  <2>4. QED
    BY <1>3, <2>2, <2>3 DEF AuthToken
<1>4. CASE AuthUsed(r)
  <2>1. UNCHANGED <<users, tokens, given>> /\ sessions' = SessionUpdateOne(sessions, req[r].ck.auth, [idle |-> FALSE]).table
    BY <1>4 DEF AuthUsed, UpdateLastUsed, LastUsed
  <2>2. Evolves
    BY <2>1, SessionUpdated
  <2>3. Goto(r, "auth_owner") /\ Unanswered /\ req[r].live
    BY <1>0, <1>4 DEF AuthUsed, At, RequestInv
  <2>4. QED
    BY <1>0, <1>1, <2>2, <2>3, GoesOn
<1>5. CASE AuthOwner(r)
  <2>1. Evolves /\ req[r].live
    BY <1>0, <1>5, SameTables DEF AuthOwner, At, RequestInv
  <2>2. ASSUME NEW u, u = GetSessionOwner(req[r].ck.auth), Authenticated(r, u, "session")
        PROVE  AccountsInd'
    <3>1. u \in UserIds \cup {0} /\ "session" \in Vias
      BY <2>2, GetFinds DEF Vias
    <3>2. QED
      BY <1>0, <2>1, <2>2, <3>1, LetIn
  <2>3. CASE Goto(r, "auth_bearer") /\ Unanswered
    BY <1>0, <1>1, <2>1, <2>3, GoesOn
  <2>4. QED
    BY <1>5, <2>2, <2>3 DEF AuthOwner
<1>6. CASE AuthBearer(r) \/ AuthBearerUsed(r)
  <2>1. Evolves
    BY <1>6, SameTables DEF AuthBearer, AuthBearerUsed
  <2>2. CASE Goto(r, "auth_bearer_used") /\ Unanswered
    BY <1>0, <1>1, <2>1, <2>2, GoesOn
  <2>3. CASE Goto(r, "auth_bearer_user") /\ Unanswered
    BY <1>0, <1>1, <2>1, <2>3, GoesOn
  <2>4. CASE Answer(r, NoCookies)
    BY <1>0, <1>1, <2>1, <2>4, AnswersKeep
  <2>5. QED
    BY <1>6, <2>2, <2>3, <2>4 DEF AuthBearer, AuthBearerUsed
<1>7. CASE AuthBearerUser(r)
  <2>1. Evolves
    BY <1>7, SameTables DEF AuthBearerUser
  <2>2. ASSUME NEW u, u = Get(TokenRow(tokens, req[r].bearer).owner), Authenticated(r, u, "token")
        PROVE  AccountsInd'
    <3>1. u \in UserIds \cup {0} /\ "token" \in Vias
      BY <2>2, GetFinds DEF Vias
    <3>2. QED
      BY <1>0, <2>1, <2>2, <3>1, LetIn
  <2>3. CASE Answer(r, NoCookies)
    BY <1>0, <1>1, <2>1, <2>3, AnswersKeep
  <2>4. QED
    BY <1>7, <2>2, <2>3 DEF AuthBearerUser
<1>8. CASE AuthStamp(r)
  <2>1. Evolves
    BY <1>8, SameTables DEF AuthStamp
  <2>2. CASE Error(r)
    BY <1>0, <1>1, <2>1, <2>2, AnswersKeep
  <2>3. CASE Goto(r, "handler") /\ Unanswered
    BY <1>0, <1>1, <2>1, <2>3, GoesOn
  <2>4. QED
    BY <1>8, <2>2, <2>3 DEF AuthStamp
<1>9. QED
  BY <1>2, <1>3, <1>4, <1>5, <1>6, <1>7, <1>8 DEF RequireAuth

\* What the handlers do to the tables.
LEMMA HandlerEvolves ==
    ASSUME AccountsInd, NEW r \in Requests, Handler(r)
    PROVE  Evolves
<1>1. CASE Read(r) \/ UpdateProfile(r) \/ UpdateUser(r)
  BY <1>1, SameTables DEF Read, UpdateProfile, UpdateUser
<1>2. CASE ProfileWrite(r)
  BY <1>2, UserTouched DEF ProfileWrite, Update
<1>3. CASE DeleteProfile(r)
  BY <1>3, UserDeleted DEF DeleteProfile
<1>4. CASE DeleteUser(r)
  BY <1>4, UserDeleted DEF DeleteUser
<1>5. CASE RevokeSession(r)
  <2>1. PICK s : UNCHANGED <<users, tokens, given>> /\ sessions' = SessionUpdateOne(sessions, s, [active |-> FALSE]).table
    BY <1>5 DEF RevokeSession, Revoke
  <2>2. QED
    BY <2>1, SessionUpdated
<1>6. CASE RevokeAllSessions(r)
  BY <1>6, SessionsRevoked DEF RevokeAllSessions, RevokeAllUserSessions
<1>7. CASE CreateToken(r)
  BY <1>7, TokenCreated DEF CreateToken
<1>8. CASE RevokeToken(r)
  <2>1. PICK k : UNCHANGED <<users, sessions, given>> /\ tokens' = TokenUpdateOne(tokens, k, [revoked |-> TRUE]).table
    BY <1>8 DEF RevokeToken, RevokeTokenById
  <2>2. tokens \in [DOMAIN tokens -> TokenRows]
    BY DEF AccountsInd, AccountsInv, TypeOK
  <2>3. TokensWane(tokens, tokens')
    BY <2>1, <2>2, TokenRewritten
  <2>4. QED
    BY <2>1, <2>3, TokensOnly
<1>9. CASE UserWrite(r)
  <2>1. PICK a \in BOOLEAN, e \in Uids :
              \E m \in {[active |-> a], [active |-> a, email |-> e]} :
                 users' = UserUpdateOne(users, req[r].arg, m).table
    BY <1>9 DEF UserWrite, Update
  <2>2. QED
    <3>1. PICK m \in {[active |-> a], [active |-> a, email |-> e]} :
                users' = UserUpdateOne(users, req[r].arg, m).table
      BY <2>1
    <3>2. m = [active |-> a] \/ m = [active |-> a, email |-> e]
      OBVIOUS
    <3>3. QED
      BY <1>9, <3>1, <3>2, UserUpdated DEF UserWrite
<1>10. QED
  BY <1>1, <1>2, <1>3, <1>4, <1>5, <1>6, <1>7, <1>8, <1>9 DEF Handler

LEMMA HandlerKeeps ==
    ASSUME AccountsInd, NEW r \in Requests, Handler(r)
    PROVE  AccountsInd'
<1>0. Quiet /\ Evolves /\ req[r].user \in UserIds \cup {0} /\ req[r].pc \notin LogoutPCs
  BY HandlerEvolves, Known DEF Handler, Read, UpdateProfile, ProfileWrite, DeleteProfile, RevokeSession,
     RevokeAllSessions, CreateToken, RevokeToken, UpdateUser, UserWrite, DeleteUser, Handles, At, LogoutPCs
<1>1. CASE Error(r) \/ Answer(r, [cookies EXCEPT !.session = NoUid])
  BY <1>0, <1>1, AnswersKeep
<1>2. CASE Goto(r, "profile_write") /\ Unanswered
  <2>1. "profile_write" \in Plain \ ByToken
    BY DEF Plain, PCs, HandlerPCs, ByToken, LoginPCs, RegisterPCs, VerifyPCs
  <2>2. QED
    BY <1>0, <1>2, <2>1, GoesOn
<1>3. ASSUME NEW i \in UserIds, WithArg(r, "user_write", i), Unanswered
      PROVE  AccountsInd'
  <2>1. PICK q : q = req[r]
    OBVIOUS
  <2>2. req' = [req EXCEPT ![r] = Moved(q, "user_write", q.user, q.via, i)]
    BY <1>3, <2>1, ArgumentMoves
  <2>3. "user_write" \in PCs /\ "user_write" \notin LoginPCs \cup RegisterPCs \cup VerifyPCs
    BY DEF PCs, HandlerPCs, LoginPCs, RegisterPCs, VerifyPCs
  <2>4. q.user \in UserIds \cup {0} /\ q.via \in Vias /\ (q.via = "session" => q.live)
    BY <2>1, Known
  <2>5. MayMove(q, "user_write", q.user, q.via, i)'
    BY <2>3, <2>4 DEF MayMove
  <2>6. QED
    BY <1>0, <1>3, <2>1, <2>2, <2>3, <2>4, <2>5, MovedKeeps
<1>4. QED
  BY <1>1, <1>2, <1>3 DEF Handler, Read, UpdateProfile, ProfileWrite, DeleteProfile, RevokeSession,
     RevokeAllSessions, CreateToken, RevokeToken, UpdateUser, UserWrite, DeleteUser

-----------------------------------------------------------------------------
(* The specification.                                                      *)

LEMMA AccountsInit == Init => AccountsInd
<1> SUFFICES ASSUME Init PROVE AccountsInd
  OBVIOUS
<1>0. /\ MaxUsers \in Nat /\ MaxUsers >= 1 /\ MaxSessions \in Nat /\ MaxTokens \in Nat /\ MaxArrivals \in Nat
  BY AccountsAssumption
<1>1. PICK u \in Uids :
         users = [i \in {1} |-> [uid |-> u, email |-> u, role |-> "admin", active |-> TRUE, plan |-> ""]]
  BY DEF Init
<1>2. DOMAIN users = {1} /\ users \in [DOMAIN users -> UserRows] /\ DOMAIN users \subseteq UserIds
  <2>1. [uid |-> u, email |-> u, role |-> "admin", active |-> TRUE, plan |-> ""] \in UserRows
    BY DEF UserRows
  <2>2. {1} \subseteq UserIds
    BY <1>0 DEF UserIds
  <2>3. QED
    BY <1>1, <2>1, <2>2
<1>3. /\ DOMAIN sessions = {} /\ DOMAIN tokens = {}
      /\ sessions \in [DOMAIN sessions -> SessionRows] /\ tokens \in [DOMAIN tokens -> TokenRows]
  BY DEF Init
<1>4. /\ given \in [user : 0..MaxUsers, session : 0..MaxSessions, token : 0..MaxTokens]
      /\ given.user = 1 /\ given.session = 0
  <2>1. given = [user |-> 1, session |-> 0, token |-> 0]
    BY DEF Init
  <2>2. 1 \in 0..MaxUsers /\ 0 \in 0..MaxSessions /\ 0 \in 0..MaxTokens
    BY <1>0
  <2>3. QED
    BY <2>1, <2>2
<1>5. NoCookies \in Cookies /\ NoCookies.auth = 0
  BY DEF NoCookies, Cookies
<1>6. Idle \in RequestStates /\ Idle.pc = "idle" /\ Idle.via = "none" /\ Idle.ck.auth = 0
  BY <1>5 DEF Idle, RequestStates, PCs
<1>7. /\ req \in [Requests -> RequestStates] /\ cookies \in Cookies /\ cookies.auth = 0 /\ loggedOut = {}
      /\ \A r \in Requests : req[r] = Idle
  BY <1>5, <1>6 DEF Init
<1>8. TypeOK
  <2>a. arrivals = 0 /\ cleanup = "waiting" /\ mixed = FALSE
    BY DEF Init
  <2>b. arrivals \in 0..MaxArrivals
    BY <1>0, <2>a
  <2>c. cleanup \in {"waiting", "inactive"} /\ mixed \in BOOLEAN
    BY <2>a, Zenon
  <2>1. arrivals \in 0..MaxArrivals /\ cleanup \in {"waiting", "inactive"} /\ mixed \in BOOLEAN
    BY <2>b, <2>c
  <2>2. DOMAIN sessions \subseteq SessionIds /\ DOMAIN tokens \subseteq TokenIds
    BY <1>3
  <2>3. QED
    BY <1>2, <1>3, <1>4, <1>7, <2>1, <2>2 DEF TypeOK
<1>9. OneIdentity
  BY <1>3 DEF OneIdentity
<1>10. AccountsInv
  BY <1>2, <1>3, <1>4, <1>8, <1>9 DEF AccountsInv
<1>11. OnlyLiveSessions /\ LoggedOutIsDead /\ SessionsGiven
  BY <1>3, <1>4, <1>6, <1>7 DEF OnlyLiveSessions, LoggedOutIsDead, SessionsGiven
<1>12. RequestInv(Idle)
  BY <1>3, <1>4, <1>6 DEF RequestInv, Usable, LoginPCs, RegisterPCs, VerifyPCs
<1>13. \A r \in Requests : RequestInv(req[r])
  BY <1>7, <1>12
<1>14. QED
  BY <1>10, <1>11, <1>13 DEF AccountsInd

\* Every step is one of the changes of the tables above.
LEMMA NextEvolves == AccountsInd /\ [Next]_vars => Evolves
<1> SUFFICES ASSUME AccountsInd, [Next]_vars PROVE Evolves
  OBVIOUS
<1>1. CASE UNCHANGED vars
  BY <1>1, SameTables DEF vars, db
<1>2. CASE Expire
  BY <1>2, TimePasses
<1>3. CASE CleanupExpired \/ CleanupInactive
  BY <1>3, SessionsDeleted DEF CleanupExpired, CleanupInactive
<1>4. ASSUME NEW r \in Requests, Arrive(r) \/ LoginStep(r)
      PROVE  Evolves
  <2>1. CASE Arrive(r) \/ LoginLookup(r) \/ LoginStamp(r) \/ LoginLoad(r)
    BY <2>1, SameTables DEF Arrive, LoginLookup, LoginStamp, LoginLoad
  <2>2. CASE LoginCreate(r)
    <3>1. req[r].uid \in Uids
      BY <2>2, Known DEF LoginCreate, At, RequestInv, LoginPCs
    <3>2. QED
      BY <2>2, <3>1, UserCreated DEF LoginCreate
  <2>3. CASE LoginSession(r)
    BY <2>3, SessionCreated DEF LoginSession
  <2>4. QED
    BY <1>4, <2>1, <2>2, <2>3 DEF LoginStep
<1>5. ASSUME NEW r \in Requests, RegisterStep(r)
      PROVE  Evolves
  <2>1. CASE RegisterLookup(r) \/ RegisterEmail(r)
    BY <2>1, SameTables DEF RegisterLookup, RegisterEmail
  <2>2. CASE RegisterCreate(r)
    <3>1. req[r].uid \in Uids
      BY <2>2, Known DEF RegisterCreate, At, RequestInv, RegisterPCs
    <3>2. QED
      BY <2>2, <3>1, UserCreated DEF RegisterCreate
  <2>3. QED
    BY <1>5, <2>1, <2>2 DEF RegisterStep
<1>6. ASSUME NEW r \in Requests, CookieStep(r)
      PROVE  Evolves
  <2>1. CASE \/ VerifyToken(r) \/ Logout(r) \/ LogoutFind(r) \/ LogoutFails(r)
             \/ GetSession(r) \/ SessionToken(r) \/ SessionOwner(r)
    BY <2>1, SameTables DEF VerifyToken, Logout, LogoutFind, LogoutFails, GetSession, SessionToken, SessionOwner
  <2>2. CASE VerifyStamp(r) \/ SessionStamp(r)
    BY <2>2, UserTouched DEF VerifyStamp, SessionStamp, UpdateUserLastActivity
  <2>3. CASE LogoutRevoke(r)
    <3>1. UNCHANGED <<users, tokens, given>> /\ sessions' = SessionUpdateOne(sessions, req[r].ck.auth, [active |-> FALSE]).table
      BY <2>3 DEF LogoutRevoke, Revoke
    <3>2. QED
      BY <3>1, SessionUpdated
  <2>a. CASE SessionUsed(r)
    <3>1. UNCHANGED <<users, tokens, given>> /\ sessions' = SessionUpdateOne(sessions, req[r].ck.auth, [idle |-> FALSE]).table
      BY <2>a DEF SessionUsed, UpdateLastUsed, LastUsed
    <3>2. QED
      BY <3>1, SessionUpdated
  <2>4. QED
    BY <1>6, <2>1, <2>2, <2>3, <2>a DEF CookieStep
<1>7. ASSUME NEW r \in Requests, RequireAuth(r)
      PROVE  Evolves
  <2>1. CASE AuthUsed(r)
    <3>1. UNCHANGED <<users, tokens, given>> /\ sessions' = SessionUpdateOne(sessions, req[r].ck.auth, [idle |-> FALSE]).table
      BY <2>1 DEF AuthUsed, UpdateLastUsed, LastUsed
    <3>2. QED
      BY <3>1, SessionUpdated
  <2>2. CASE UNCHANGED db
    BY <2>2, SameTables
  <2>3. QED
    BY <1>7, <2>1, <2>2 DEF RequireAuth, AuthCookie, AuthToken, AuthOwner, AuthBearer, AuthBearerUsed,
                            AuthBearerUser, AuthStamp
<1>8. QED
  BY <1>1, <1>2, <1>3, <1>4, <1>5, <1>6, <1>7, HandlerEvolves DEF Next

LEMMA AccountsNext == AccountsInd /\ [Next]_vars => AccountsInd'
<1> SUFFICES ASSUME AccountsInd, [Next]_vars PROVE AccountsInd'
  OBVIOUS
<1>0. Evolves
  BY NextEvolves
<1>1. CASE UNCHANGED vars
  <2>1. cleanup' \in {"waiting", "inactive"}
    BY <1>1 DEF vars, AccountsInd, AccountsInv, TypeOK
  <2>2. QED
    BY <1>0, <1>1, <2>1, TaskKeeps DEF vars
<1>2. CASE Expire
  <2>1. cleanup' \in {"waiting", "inactive"}
    BY <1>2 DEF Expire, Quiet, AccountsInd, AccountsInv, TypeOK
  <2>2. QED
    BY <1>0, <1>2, <2>1, TaskKeeps DEF Expire, Unanswered, Quiet
<1>3. CASE CleanupExpired \/ CleanupInactive
  BY <1>0, <1>3, TaskKeeps DEF CleanupExpired, CleanupInactive, Unanswered
<1>4. ASSUME NEW r \in Requests, LoginStep(r)
      PROVE  AccountsInd'
  BY <1>4, LoginReads, LoginCreateKeeps, LoginSessionKeeps, LoginLoadKeeps DEF LoginStep
<1>5. ASSUME NEW r \in Requests, CookieStep(r)
      PROVE  AccountsInd'
  BY <1>5, VerifyKeeps, LogoutStepKeeps, SessionStepKeeps DEF CookieStep
<1>6. QED
  BY <1>1, <1>2, <1>3, <1>4, <1>5, ArriveKeeps, RegisterKeeps, AuthKeeps, HandlerKeeps DEF Next

\* Whatever logins, registrations and administrators do at once, for any
\* number of them: the unique indexes and foreign keys are never violated, no
\* id is reused, and the browser's two cookies speak for the same account
\* unless an answer replaced only one of them.
THEOREM AccountsHold == Spec => []AccountsInv
<1>1. AccountsInd => AccountsInv
  BY DEF AccountsInd
<1>2. QED
  BY AccountsInit, AccountsNext, <1>1, PTL DEF Spec

\* RequireAuth never lets a request in by a session that was already revoked,
\* expired or deleted when the request was sent, though it reads the session,
\* writes it and reads its owner in three statements.
THEOREM OnlyLiveSessionsEnter == Spec => []OnlyLiveSessions
<1>1. AccountsInd => OnlyLiveSessions
  BY DEF AccountsInd
<1>2. QED
  BY AccountsInit, AccountsNext, <1>1, PTL DEF Spec

\* Once a logout whose statements did not fail is answered, its session is
\* never usable again: no update of its last use by another request of the
\* same browser revives it.
THEOREM LogoutIsFinal == Spec => []LoggedOutIsDead
<1>1. AccountsInd => LoggedOutIsDead
  BY DEF AccountsInd
<1>2. QED
  BY AccountsInit, AccountsNext, <1>1, PTL DEF Spec

\* No step makes a revoked session active or a revoked token valid again, and
\* none removes a token.
THEOREM RevocationIsFinal == Spec => RevokedStaysRevoked
<1> DEFINE A == /\ \A s \in DOMAIN sessions \cap DOMAIN sessions' : ~sessions[s].active => ~sessions'[s].active
                /\ \A k \in DOMAIN tokens : k \in DOMAIN tokens' /\ (tokens[k].revoked => tokens'[k].revoked)
<1>1. AccountsInd /\ [Next]_vars => A
  BY NextEvolves DEF Evolves, SessionsEvolve, TokensEvolve
<1>2. AccountsInd /\ [Next]_vars => [A]_vars
  BY <1>1
<1> HIDE DEF A
<1>3. Spec => [][A]_vars
  BY AccountsInit, AccountsNext, <1>2, PTL DEF Spec
<1>4. QED
  BY <1>3 DEF RevokedStaysRevoked, A
=============================================================================
