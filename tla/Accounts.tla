------------------------------ MODULE Accounts ------------------------------
(***************************************************************************)
(* Accounts, their sessions and the routes that use them:                  *)
(* src/modules/auth/index.ts, src/database/repositories/user.ts,           *)
(* session.ts and rate-limit.ts, and the auth and users routes of          *)
(* src/api/index.ts.                                                       *)
(*                                                                         *)
(* scrypt is the only await: a login, a new password and the bootstrap     *)
(* read the table, hash, and go on with what they read.  A password stands *)
(* for its hash, a token for its row and the claims signed into it.        *)
(***************************************************************************)
EXTENDS Naturals, FiniteSetsExt

CONSTANTS
    Names,       \* usernames
    AdminName,   \* 'admin', the name a generated bootstrap credential has
    Passwords,
    Ips,
    Environments, \* QQ_GUARDIAN_BOOTSTRAP_USERNAME and _PASSWORD, or None
    Handlers,    \* requests that await a hash
    Boots,       \* boots that await one
    None,        \* null: no row, no file, no hash, nothing in flight
    MaxAttempts, \* auth.maxLoginAttempts
    IpLimit,     \* auth.rateLimitRequests
    Window,      \* auth.rateLimitWindowMs
    LockTtl, AccessTtl, RefreshTtl, FileTtl,
    MaxClock, MaxIds, MaxTokens    \* bounds of the model

ASSUME AccountsAssumption ==
    /\ AdminName \in Names
    /\ Environments \subseteq [name : Names, password : Passwords] \cup {None}
    /\ {MaxAttempts, IpLimit, Window, LockTtl, AccessTtl, RefreshTtl, FileTtl} \subseteq Nat \ {0}
    /\ {MaxClock, MaxIds, MaxTokens} \subseteq Nat

VARIABLES
    clock,
    account,   \* table users
    created,   \* its AUTOINCREMENT sequence
    session,   \* table auth_sessions, with the claims of each token
    issued,    \* tokens issued so far
    bucket,    \* table login_rate_limits
    handler,   \* what each request remembers across its await
    boot,      \* what each ensureBootstrapAdmin remembers across its await
    file       \* bootstrap-credentials.json

accountVars == <<clock, account, created, session, issued, bucket, handler, boot, file>>

Ids == 1..MaxIds
Tokens == 1..MaxTokens
Roles == {"super_admin", "viewer"}
BucketKeys == {<<"global", "*">>} \cup {<<"ip", i>> : i \in Ips} \cup {<<"account", n>> : n \in Names}

Account == [name : Names, password : Passwords \cup {None}, role : Roles,
            attempts : 0..MaxAttempts, locked : Nat]
Session == [user : Ids, kind : {"access", "refresh"}, role : Roles, expires : Nat,
            revoked : BOOLEAN, login : Nat]
AccountChange == [password : Passwords \cup {None}, role : Roles \cup {None}, unlock : BOOLEAN]
NoChange == [password |-> None, role |-> None, unlock |-> FALSE]

HashRequest ==
    [op : {"login"}, id : Ids \cup {None}, tried : Passwords, row : Account \cup {None}]
    \cup [op : {"create"}, name : Names, password : Passwords, role : Roles]
    \cup [op : {"update"}, id : Ids, data : AccountChange]
BootRequest == [name : Names, password : Passwords, oneTime : BOOLEAN, force : BOOLEAN]
BootFile == [name : Names, password : Passwords, at : Nat]

ASSUME NoneIsNoRow == None \notin Account /\ None \notin Session

AccountsTypeOK ==
    /\ clock \in 0..MaxClock /\ created \in 0..MaxIds /\ issued \in 0..MaxTokens
    /\ account \in [Ids -> Account \cup {None}]
    /\ session \in [Tokens -> Session \cup {None}]
    /\ bucket \in [BucketKeys -> [attempts : Nat, resetAt : Nat]]
    /\ handler \in [Handlers -> HashRequest \cup {None}]
    /\ boot \in [Boots -> BootRequest \cup {None}]
    /\ file \in BootFile \cup {None}

-----------------------------------------------------------------------------
(* Reading the tables. *)
Exists(id) == account[id] # None
Registered == {i \in Ids : Exists(i)}
Named(n) == {i \in Registered : account[i].name = n}
Locked(row) == clock < row.locked

UsableSuperAdmin(row) == row.role = "super_admin" /\ row.password # None /\ ~Locked(row)

UsableSuperAdmins == {i \in Registered : UsableSuperAdmin(account[i])}

Live(t, kind) ==
    session[t] # None /\ session[t].kind = kind /\ ~session[t].revoked /\ session[t].expires > clock

Authenticates(t) ==
    /\ Live(t, "access")
    /\ LET row == account[session[t].user]
       IN  ~Locked(row) /\ row.role = session[t].role

SuperAdmin(t) == Authenticates(t) /\ session[t].role = "super_admin"

(* Writing them. *)
SessionsOf(id) == {t \in Tokens : session[t] # None /\ session[t].user = id}

Revoke(T) ==
    [t \in Tokens |-> IF session[t] # None /\ t \in T THEN [session[t] EXCEPT !.revoked = TRUE]
                      ELSE session[t]]

RevokeSessions(id) == session' = Revoke(SessionsOf(id))

NewAccount(name, password, role) ==
    [name |-> name, password |-> password, role |-> role, attempts |-> 0, locked |-> 0]

InsertReusing(name, password, role) ==
    \E id \in Ids \ Registered :
        /\ \A i \in 1..(id - 1) : Exists(i)
        /\ created' = IF id > created THEN id ELSE created
        /\ account' = [account EXCEPT ![id] = NewAccount(name, password, role)]

Insert(name, password, role) ==
    /\ created < MaxIds
    /\ created' = created + 1
    /\ account' = [account EXCEPT ![created + 1] = NewAccount(name, password, role)]

(* issueTokens: expired rows are purged, two rows are added. *)
IssueTokens(id, role, login, sessions) ==
    LET Row(kind, ttl) == [user |-> id, kind |-> kind, role |-> role, expires |-> clock + ttl,
                           revoked |-> FALSE, login |-> login]
        Kept(t) == IF sessions[t] # None /\ sessions[t].expires <= clock THEN None ELSE sessions[t]
    IN  /\ issued + 2 <= MaxTokens
        /\ issued' = issued + 2
        /\ session' = [t \in Tokens |-> CASE t = issued + 1 -> Row("access", AccessTtl)
                                          [] t = issued + 2 -> Row("refresh", RefreshTtl)
                                          [] OTHER -> Kept(t)]

-----------------------------------------------------------------------------
(***************************************************************************)
(* The limiter.  A window that has passed counts as none, so it makes no   *)
(* difference when its row is pruned.  Counts above a limit are alike.     *)
(***************************************************************************)
Limit(k) == CASE k[1] = "global" -> IpLimit * 5 [] k[1] = "ip" -> IpLimit [] OTHER -> MaxAttempts

Consume(b, k) ==
    [b EXCEPT ![k] = IF @.resetAt <= clock
                     THEN [attempts |-> 1, resetAt |-> clock + Window]
                     ELSE [attempts |-> Min({@.attempts + 1, Limit(k) + 1}), resetAt |-> @.resetAt]]

Exceeds(b, k) == b[k].attempts > Limit(k)

(* POST /auth/login up to verifyPassword. *)
LoginBegins(h, name, password, ip) ==
    LET global == Consume(bucket, <<"global", "*">>)
        perIp  == Consume(global, <<"ip", ip>>)
        all    == Consume(perIp, <<"account", name>>)
        throttledEarly == Exceeds(global, <<"global", "*">>) \/ Exceeds(perIp, <<"ip", ip>>)
        row == IF Named(name) = {} THEN None ELSE CHOOSE i \in Named(name) : TRUE
    IN  /\ handler[h] = None
        /\ bucket' = IF Exceeds(global, <<"global", "*">>) THEN global
                     ELSE IF throttledEarly THEN perIp ELSE all
        /\ IF throttledEarly \/ Exceeds(all, <<"account", name>>)
           THEN UNCHANGED handler
           ELSE handler' = [handler EXCEPT ![h] =
                       [op |-> "login", id |-> row, tried |-> password,
                        row |-> IF row = None THEN None ELSE account[row]]]
        /\ UNCHANGED <<clock, account, created, session, issued, boot, file>>

(* The rest of login, with the row as it was before the hash. *)
Accepted(row, tried) == row # None /\ row.password = tried /\ ~Locked(row)

(* recordLoginFailure: the row as it is now. *)
Failed(row) ==
    [row EXCEPT !.attempts = Min({row.attempts + 1, MaxAttempts}),
                !.locked = IF row.attempts + 1 >= MaxAttempts THEN clock + LockTtl ELSE row.locked]

LoginFails(h) ==
    LET row == handler[h].row IN
    /\ ~Accepted(row, handler[h].tried)
    /\ account' = IF row = None \/ row.password = None \/ Locked(row) \/ ~Exists(handler[h].id)
                  THEN account
                  ELSE [account EXCEPT ![handler[h].id] = Failed(@)]
    /\ UNCHANGED <<session, issued, file>>

(* recordLoginSuccess *)
Cleared(row) == [row EXCEPT !.attempts = 0, !.locked = 0]

ConsumesFile(row) == IF row.role = "super_admin" THEN None ELSE file

LoginSucceeds(h) ==
    LET row == handler[h].row
        id == handler[h].id
    IN  /\ Accepted(row, handler[h].tried)
        /\ file' = ConsumesFile(row)
        /\ IF Exists(id)
           THEN /\ account' = [account EXCEPT ![id] = Cleared(@)]
                /\ IssueTokens(id, row.role, issued + 1, session)
           ELSE UNCHANGED <<account, session, issued>>     \* the foreign key refuses

LoginEnds(h) ==
    /\ handler[h] # None /\ handler[h].op = "login"
    /\ LoginFails(h) \/ LoginSucceeds(h)
    /\ handler' = [handler EXCEPT ![h] = None]
    /\ UNCHANGED <<clock, created, bucket, boot>>

(* POST /auth/refresh and /auth/logout: one turn each. *)
RefreshWithoutRevoking(t) ==
    /\ Live(t, "refresh") /\ ~Locked(account[session[t].user])
    /\ IssueTokens(session[t].user, account[session[t].user].role, session[t].login, session)
    /\ UNCHANGED <<clock, account, created, bucket, handler, boot, file>>

Refresh(t) ==
    /\ Live(t, "refresh") /\ ~Locked(account[session[t].user])
    /\ IssueTokens(session[t].user, account[session[t].user].role, session[t].login, Revoke({t}))
    /\ UNCHANGED <<clock, account, created, bucket, handler, boot, file>>

(* It names an access token, a refresh token, or both. *)
Logout(T) ==
    /\ \E t \in T : session[t] # None /\ ~session[t].revoked
    /\ session' = Revoke(T)
    /\ UNCHANGED <<clock, account, created, issued, bucket, handler, boot, file>>

-----------------------------------------------------------------------------
(***************************************************************************)
(* Administration.  A request is authenticated when it arrives; the checks *)
(* of the transaction are made when it writes.                             *)
(***************************************************************************)
Projected(row, data) ==
    [row EXCEPT !.password = IF data.password # None THEN data.password ELSE @,
                !.role     = IF data.role # None THEN data.role ELSE @,
                !.attempts = IF data.unlock THEN 0 ELSE @,
                !.locked   = IF data.unlock THEN 0 ELSE @]

(* A new hash differs from the old one even for the same password. *)
Changes(row, data) == data.password # None \/ Projected(row, data) # row

StrandsAdministration(id, row) ==
    /\ UsableSuperAdmin(account[id]) /\ ~UsableSuperAdmin(row)
    /\ UsableSuperAdmins \subseteq {id}

UpdateTrusting(id, data) ==
    IF Exists(id) /\ Changes(account[id], data)
    THEN /\ account' = [account EXCEPT ![id] = Projected(@, data)]
         /\ RevokeSessions(id)
    ELSE UNCHANGED <<account, session>>

UpdateByAdministrator(id, data) ==
    IF Exists(id) /\ Changes(account[id], data)
       /\ ~StrandsAdministration(id, Projected(account[id], data))
    THEN /\ account' = [account EXCEPT ![id] = Projected(@, data)]
         /\ RevokeSessions(id)
    ELSE UNCHANGED <<account, session>>

(* PUT /users/:id with a role only, POST /users/:id/unlock *)
PutRole(t, id, role) ==
    /\ SuperAdmin(t) /\ Exists(id)
    /\ UpdateByAdministrator(id, [NoChange EXCEPT !.role = role])
    /\ UNCHANGED <<clock, created, issued, bucket, handler, boot, file>>

Unlock(t, id) ==
    /\ SuperAdmin(t) /\ Exists(id)
    /\ UpdateByAdministrator(id, [NoChange EXCEPT !.unlock = TRUE])
    /\ UNCHANGED <<clock, created, issued, bucket, handler, boot, file>>

(* DELETE /users/:id; the sessions cascade. *)
DeleteByAdministrator(t, id) ==
    /\ SuperAdmin(t) /\ Exists(id) /\ id # session[t].user
    /\ ~(UsableSuperAdmin(account[id]) /\ UsableSuperAdmins = {id})
    /\ account' = [account EXCEPT ![id] = None]
    /\ session' = [s \in Tokens |-> IF session[s] # None /\ session[s].user = id THEN None
                                    ELSE session[s]]
    /\ UNCHANGED <<clock, created, issued, bucket, handler, boot, file>>

(* POST /users, PUT /users/:id with a password and POST /users/:id/password. *)
CreateBegins(h, t, name, password, role) ==
    /\ handler[h] = None /\ SuperAdmin(t) /\ Named(name) = {}
    /\ handler' = [handler EXCEPT ![h] =
           [op |-> "create", name |-> name, password |-> password, role |-> role]]
    /\ UNCHANGED <<clock, account, created, session, issued, bucket, boot, file>>

UpdateBegins(h, t, id, password, role) ==
    /\ handler[h] = None /\ SuperAdmin(t)
    /\ handler' = [handler EXCEPT ![h] =
           [op |-> "update", id |-> id, data |-> [NoChange EXCEPT !.password = password, !.role = role]]]
    /\ UNCHANGED <<clock, account, created, session, issued, bucket, boot, file>>

(* A name taken meanwhile breaks the UNIQUE constraint: nothing is written. *)
CreateEnds(h) ==
    /\ handler[h] # None /\ handler[h].op = "create"
    /\ IF Named(handler[h].name) = {}
       THEN Insert(handler[h].name, handler[h].password, handler[h].role)
       ELSE UNCHANGED <<account, created>>
    /\ handler' = [handler EXCEPT ![h] = None]
    /\ UNCHANGED <<clock, session, issued, bucket, boot, file>>

UpdateEnds(h) ==
    /\ handler[h] # None /\ handler[h].op = "update"
    /\ UpdateByAdministrator(handler[h].id, handler[h].data)
    /\ handler' = [handler EXCEPT ![h] = None]
    /\ UNCHANGED <<clock, created, issued, bucket, boot, file>>

-----------------------------------------------------------------------------
(***************************************************************************)
(* ensureBootstrapAdmin.  `env' is the pair of environment credentials,    *)
(* `force' the recovery switch, which requires them.                       *)
(***************************************************************************)
GeneratedCredentials == [name : {AdminName}, password : Passwords, at : {clock}]

Expired(f) == f # None /\ clock > f.at + FileTtl

BootFindsAccounts(force) ==
    /\ UsableSuperAdmins # {} \/ (Registered # {} /\ ~force)
    /\ file' = IF UsableSuperAdmins # {} /\ Expired(file) THEN None ELSE file
    /\ UNCHANGED boot

(* bootstrapCredentials: from the environment, the file, or a new file. *)
BootHashes(b, env, force) ==
    /\ UsableSuperAdmins = {} /\ (Registered = {} \/ force)
    /\ \E fresh \in GeneratedCredentials :
         LET used == IF env # None THEN env ELSE IF file # None THEN file ELSE fresh IN
         /\ file' = IF env = None /\ file = None THEN fresh ELSE file
         /\ boot' = [boot EXCEPT ![b] =
                [name |-> used.name, password |-> used.password, oneTime |-> env = None, force |-> force]]

BootBegins(b, env, force) ==
    /\ boot[b] = None
    /\ force => env # None
    /\ BootFindsAccounts(force) \/ BootHashes(b, env, force)
    /\ UNCHANGED <<clock, account, created, session, issued, bucket, handler>>

(* createBootstrapAdmin and recoverSuperAdmin look again before they write. *)
Overtaken(b) == IF boot[b].force THEN UsableSuperAdmins # {} ELSE Registered # {}

Recover(b) ==
    LET id == CHOOSE i \in Named(boot[b].name) : TRUE IN
    /\ account' = [account EXCEPT ![id] =
           NewAccount(boot[b].name, boot[b].password, "super_admin")]
    /\ RevokeSessions(id)
    /\ UNCHANGED created

BootEnds(b) ==
    /\ boot[b] # None
    /\ IF Overtaken(b)
       THEN UNCHANGED <<account, created, session, file>>
       ELSE /\ file' = IF boot[b].oneTime THEN file ELSE None
            /\ IF Named(boot[b].name) # {} THEN Recover(b)
               ELSE Insert(boot[b].name, boot[b].password, "super_admin") /\ UNCHANGED session
    /\ boot' = [boot EXCEPT ![b] = None]
    /\ UNCHANGED <<clock, issued, bucket, handler>>

(* The process dies and starts again: only the tables and the file remain. *)
Restart ==
    /\ (\E h \in Handlers : handler[h] # None) \/ (\E b \in Boots : boot[b] # None)
    /\ handler' = [h \in Handlers |-> None]
    /\ boot' = [b \in Boots |-> None]
    /\ UNCHANGED <<clock, account, created, session, issued, bucket, file>>

ClockTicks ==
    /\ clock < MaxClock
    /\ clock' = clock + 1
    /\ UNCHANGED <<account, created, session, issued, bucket, handler, boot, file>>

-----------------------------------------------------------------------------
AccountsInit ==
    /\ clock = 0 /\ created = 0 /\ issued = 0 /\ file = None
    /\ account = [i \in Ids |-> None]
    /\ session = [t \in Tokens |-> None]
    /\ bucket = [k \in BucketKeys |-> [attempts |-> 0, resetAt |-> 0]]
    /\ handler = [h \in Handlers |-> None]
    /\ boot = [b \in Boots |-> None]

HandlerStep(h) ==
    \/ \E n \in Names, p \in Passwords, i \in Ips : LoginBegins(h, n, p, i)
    \/ \E t \in Tokens, n \in Names, p \in Passwords, r \in Roles : CreateBegins(h, t, n, p, r)
    \/ \E t \in Tokens, i \in Ids, p \in Passwords, r \in Roles \cup {None} : UpdateBegins(h, t, i, p, r)
    \/ LoginEnds(h)
    \/ CreateEnds(h)
    \/ UpdateEnds(h)

TokenStep(t) ==
    \/ Refresh(t)
    \/ \E u \in Tokens : Logout({t, u})
    \/ \E i \in Ids, r \in Roles : PutRole(t, i, r)
    \/ \E i \in Ids : Unlock(t, i) \/ DeleteByAdministrator(t, i)

BootStep(b) ==
    \/ \E env \in Environments, force \in BOOLEAN :
          BootBegins(b, env, force)
    \/ BootEnds(b)

AccountsNext ==
    \/ \E h \in Handlers : HandlerStep(h)
    \/ \E t \in Tokens : TokenStep(t)
    \/ \E b \in Boots : BootStep(b)
    \/ Restart
    \/ ClockTicks

AccountsSpec == AccountsInit /\ [][AccountsNext]_accountVars

-----------------------------------------------------------------------------
(***************************************************************************)
(* Strengthening: what the tables say of each other.  The sequences are    *)
(* ahead of the rows, a session has its account, and of the refresh tokens *)
(* of one login at most one is not revoked, expired or not.                *)
(***************************************************************************)
RowsNumbered == \A i \in Ids : account[i] # None => i <= created

SessionsAnchored ==
    \A t \in Tokens : session[t] # None =>
        t <= issued /\ account[session[t].user] # None /\ session[t].login \in 1..issued

LoginsFound ==
    \A h \in Handlers : handler[h] # None /\ handler[h].op = "login" /\ handler[h].row # None =>
        /\ handler[h].id \in Ids /\ handler[h].id <= created
        /\ Exists(handler[h].id) => account[handler[h].id].name = handler[h].row.name

TablesAgree == RowsNumbered /\ SessionsAnchored /\ LoginsFound

Unspent(t) == session[t] # None /\ session[t].kind = "refresh" /\ ~session[t].revoked

OneUnspentPerLogin ==
    \A t, u \in Tokens : Unspent(t) /\ Unspent(u) /\ session[t].login = session[u].login => t = u

(***************************************************************************)
(* Whatever administrators do to each other at once, and however long      *)
(* their requests hashed, they leave a usable super administrator: only    *)
(* failed logins can lock the last one (user.ts:196-210, 248-255).         *)
(***************************************************************************)
LockedOut(i) ==
    account'[i] = [account[i] EXCEPT !.attempts = MaxAttempts, !.locked = clock + LockTtl]

LastAdminStands ==
    [][ UsableSuperAdmins # {} /\ UsableSuperAdmins' = {} =>
          \E i \in UsableSuperAdmins : LockedOut(i) ]_accountVars

(***************************************************************************)
(* A login hashes while accounts come and go.  The tokens it ends with are *)
(* for the account whose row it read: an id that was freed meanwhile is    *)
(* nobody else's (auth/index.ts:279-304).                                  *)
(***************************************************************************)
LogsIn(h) ==
    handler[h] # None /\ handler[h].op = "login" /\ handler'[h] = None /\ issued' # issued

LoginIsOfItsAccount ==
    [][ \A h \in Handlers : LogsIn(h) =>
          Exists(handler[h].id) /\ account[handler[h].id].name = handler[h].row.name ]_accountVars

(***************************************************************************)
(* A refresh token is spent by its use: of all tokens that descend from    *)
(* one login, one refresh token is good at any time (auth/index.ts:313).   *)
(***************************************************************************)
OneRefreshPerLogin ==
    \A t, u \in Tokens : Live(t, "refresh") /\ Live(u, "refresh")
        /\ session[t].login = session[u].login => t = u

AccountsIndInv == AccountsTypeOK /\ TablesAgree /\ OneUnspentPerLogin
=============================================================================
