---------------------------- MODULE AccountsProofs ----------------------------
(***************************************************************************)
(* Proofs about Accounts, for any names, handlers, boots, limits and       *)
(* lifetimes: the tables keep their types and agree with each other; a     *)
(* change of an account ends its sessions; a login has one refresh token   *)
(* at a time; administrators never strand the installation.                *)
(***************************************************************************)
EXTENDS Accounts, TLAPS

USE DEF Ids, Tokens, Roles

-----------------------------------------------------------------------------
(* Operators.                                                              *)

LEMMA MinOfTwo ==
    ASSUME NEW a \in Nat, NEW b \in Nat
    PROVE  Min({a, b}) = IF a <= b THEN a ELSE b
<1> DEFINE m == IF a <= b THEN a ELSE b
<1>1. m \in {a, b} /\ \A y \in {a, b} : m <= y
    OBVIOUS
<1>2. \A x \in {a, b} : (\A y \in {a, b} : x <= y) => x = m
    OBVIOUS
<1>3. Min({a, b}) \in {a, b} /\ \A y \in {a, b} : Min({a, b}) <= y
    BY <1>1 DEF Min
<1> QED
    BY <1>2, <1>3

(* A limiter key has a limit, and counting keeps the table's shape. *)
LEMMA ConsumeTyped ==
    ASSUME NEW b \in [BucketKeys -> [attempts : Nat, resetAt : Nat]], NEW k \in BucketKeys,
           clock \in Nat
    PROVE  Consume(b, k) \in [BucketKeys -> [attempts : Nat, resetAt : Nat]]
<1>1. Limit(k) \in Nat
    BY AccountsAssumption DEF Limit
<1>2. b[k].attempts \in Nat /\ b[k].resetAt \in Nat /\ b[k] \in [attempts : Nat, resetAt : Nat]
    OBVIOUS
<1>3. Min({b[k].attempts + 1, Limit(k) + 1}) \in Nat
    BY <1>1, <1>2, MinOfTwo
<1>4. [b[k] EXCEPT !.attempts = Min({b[k].attempts + 1, Limit(k) + 1})] \in [attempts : Nat, resetAt : Nat]
    BY <1>2, <1>3
<1>5. [attempts |-> 1, resetAt |-> clock + Window] \in [attempts : Nat, resetAt : Nat]
    BY AccountsAssumption
<1> QED
    BY <1>4, <1>5 DEF Consume

LEMMA NewAccountTyped ==
    ASSUME NEW n \in Names, NEW p \in Passwords, NEW r \in Roles
    PROVE  NewAccount(n, p, r) \in Account
    BY AccountsAssumption DEF NewAccount, Account

LEMMA ProjectedTyped ==
    ASSUME NEW row \in Account, NEW data \in AccountChange
    PROVE  Projected(row, data) \in Account
<1> DEFINE a == IF data.unlock THEN 0 ELSE row.attempts
           l == IF data.unlock THEN 0 ELSE row.locked
           p == IF data.password # None THEN data.password ELSE row.password
           r == IF data.role # None THEN data.role ELSE row.role
<1>1. a \in 0..MaxAttempts /\ l \in Nat
    BY AccountsAssumption DEF Account
<1>2. p \in Passwords \cup {None} /\ r \in Roles
    BY DEF AccountChange, Account
<1>3. Projected(row, data) = [row EXCEPT !.password = p, !.role = r, !.attempts = a, !.locked = l]
    BY DEF Projected
<1> QED
    BY <1>1, <1>2, <1>3 DEF Account

(***************************************************************************)
(* What a step makes of the sessions: an old row may go or be revoked; a   *)
(* new one is numbered after every old one.                                *)
(***************************************************************************)
LEMMA RevokeRows ==
    ASSUME session \in [Tokens -> Session \cup {None}], NEW T
    PROVE  /\ Revoke(T) \in [Tokens -> Session \cup {None}]
           /\ \A t \in Tokens :
                /\ Revoke(T)[t] # None => session[t] # None
                /\ session[t] = None => Revoke(T)[t] = None
                /\ session[t] # None =>
                     /\ Revoke(T)[t].user = session[t].user
                     /\ Revoke(T)[t].kind = session[t].kind
                     /\ Revoke(T)[t].login = session[t].login
                     /\ t \in T => Revoke(T)[t].revoked
                     /\ t \notin T => Revoke(T)[t] = session[t]
                     /\ session[t].revoked => Revoke(T)[t].revoked
<1>1. \A t \in Tokens : session[t] # None =>
        /\ session[t] \in Session
        /\ [session[t] EXCEPT !.revoked = TRUE] \in Session
        /\ [session[t] EXCEPT !.revoked = TRUE].user = session[t].user
        /\ [session[t] EXCEPT !.revoked = TRUE].kind = session[t].kind
        /\ [session[t] EXCEPT !.revoked = TRUE].login = session[t].login
        /\ [session[t] EXCEPT !.revoked = TRUE].revoked
    BY DEF Session
<1>2. \A t \in Tokens : Revoke(T)[t] = IF session[t] # None /\ t \in T
                                       THEN [session[t] EXCEPT !.revoked = TRUE] ELSE session[t]
    BY DEF Revoke
<1>3. Revoke(T) \in [Tokens -> Session \cup {None}]
    BY <1>1 DEF Revoke
<1> QED
    BY <1>1, <1>2, <1>3

TwoNewRows(id, login, S) ==
    \A t \in Tokens :
        \/ t = issued + 1 /\ session'[t].kind = "access"
              /\ session'[t].user = id /\ session'[t].login = login
        \/ t = issued + 2 /\ session'[t].kind = "refresh"
              /\ session'[t].user = id /\ session'[t].login = login
        \/ t \notin {issued + 1, issued + 2} /\ session'[t] \in {S[t], None}

LEMMA IssueRows ==
    ASSUME NEW id \in Ids, NEW role \in Roles, NEW login \in Nat,
           NEW S \in [Tokens -> Session \cup {None}],
           clock \in Nat, issued \in Nat,
           IssueTokens(id, role, login, S)
    PROVE  /\ session' \in [Tokens -> Session \cup {None}]
           /\ issued' = issued + 2 /\ issued' \in 0..MaxTokens
           /\ TwoNewRows(id, login, S)
<1> DEFINE Row(kind, ttl) == [user |-> id, kind |-> kind, role |-> role, expires |-> clock + ttl,
                              revoked |-> FALSE, login |-> login]
           Kept(t) == IF S[t] # None /\ S[t].expires <= clock THEN None ELSE S[t]
<1>1. Row("access", AccessTtl) \in Session /\ Row("refresh", RefreshTtl) \in Session
    BY AccountsAssumption DEF Session
<1>2. \A t \in Tokens : Kept(t) \in Session \cup {None} /\ Kept(t) \in {S[t], None}
    OBVIOUS
<1>3. /\ issued' = issued + 2 /\ issued + 2 <= MaxTokens
      /\ session' = [t \in Tokens |-> CASE t = issued + 1 -> Row("access", AccessTtl)
                                        [] t = issued + 2 -> Row("refresh", RefreshTtl)
                                        [] OTHER -> Kept(t)]
    BY DEF IssueTokens
<1>4. issued' \in 0..MaxTokens
    BY <1>3, AccountsAssumption
<1>5. \A t \in Tokens : session'[t] = IF t = issued + 1 THEN Row("access", AccessTtl)
                                      ELSE IF t = issued + 2 THEN Row("refresh", RefreshTtl)
                                      ELSE Kept(t)
    BY <1>3
<1>6. session' \in [Tokens -> Session \cup {None}]
    BY <1>1, <1>2, <1>3
<1>7. /\ Row("access", AccessTtl).kind = "access" /\ Row("access", AccessTtl).user = id
      /\ Row("access", AccessTtl).login = login
      /\ Row("refresh", RefreshTtl).kind = "refresh" /\ Row("refresh", RefreshTtl).user = id
      /\ Row("refresh", RefreshTtl).login = login
    OBVIOUS
<1> HIDE DEF Row, Kept
<1>8. \A t \in Tokens : \/ t = issued + 1 /\ session'[t] = Row("access", AccessTtl)
                        \/ t = issued + 2 /\ session'[t] = Row("refresh", RefreshTtl)
                        \/ t \notin {issued + 1, issued + 2} /\ session'[t] = Kept(t)
    BY <1>5
<1>9. ASSUME NEW t \in Tokens
      PROVE  \/ t = issued + 1 /\ session'[t].kind = "access"
                 /\ session'[t].user = id /\ session'[t].login = login
             \/ t = issued + 2 /\ session'[t].kind = "refresh"
                 /\ session'[t].user = id /\ session'[t].login = login
             \/ t \notin {issued + 1, issued + 2} /\ session'[t] \in {S[t], None}
    <2>1. CASE t = issued + 1 /\ session'[t] = Row("access", AccessTtl)
        BY <1>7, <2>1
    <2>2. CASE t = issued + 2 /\ session'[t] = Row("refresh", RefreshTtl)
        BY <1>7, <2>2
    <2>3. CASE t \notin {issued + 1, issued + 2} /\ session'[t] = Kept(t)
        BY <1>2, <2>3
    <2> QED
        BY <1>8, <2>1, <2>2, <2>3
<1> QED
    BY <1>3, <1>4, <1>6, <1>9 DEF TwoNewRows

LEMMA ClearedTyped ==
    ASSUME NEW row \in Account
    PROVE  Cleared(row) \in Account
<1>1. 0 \in 0..MaxAttempts /\ 0 \in Nat
    BY AccountsAssumption
<1>2. Cleared(row) = [row EXCEPT !.attempts = 0, !.locked = 0]
    BY DEF Cleared
<1> QED
    BY <1>1, <1>2 DEF Account

LEMMA FailedTyped ==
    ASSUME NEW row \in Account, clock \in Nat
    PROVE  Failed(row) \in Account
<1> DEFINE a == Min({row.attempts + 1, MaxAttempts})
           l == IF row.attempts + 1 >= MaxAttempts THEN clock + LockTtl ELSE row.locked
<1>1. row.attempts \in Nat /\ row.locked \in Nat /\ MaxAttempts \in Nat /\ LockTtl \in Nat
    BY AccountsAssumption DEF Account
<1>2. a \in 0..MaxAttempts
    BY <1>1, MinOfTwo
<1>3. l \in Nat
    BY <1>1, AccountsAssumption
<1>4. Failed(row) = [row EXCEPT !.attempts = a, !.locked = l]
    BY DEF Failed
<1> QED
    BY <1>2, <1>3, <1>4 DEF Account

-----------------------------------------------------------------------------
(* What each request remembers. *)
LEMMA RequestTyped ==
    ASSUME AccountsTypeOK, NEW h \in Handlers, handler[h] # None
    PROVE  /\ handler[h].op = "login" =>
                /\ handler[h].row \in Account \cup {None}
                /\ handler[h].tried \in Passwords
           /\ handler[h].op = "create" =>
                handler[h].name \in Names /\ handler[h].password \in Passwords /\ handler[h].role \in Roles
           /\ handler[h].op = "update" => handler[h].id \in Ids /\ handler[h].data \in AccountChange
<1>1. handler[h] \in HashRequest
    BY DEF AccountsTypeOK
<1> QED
    BY <1>1 DEF HashRequest

LEMMA BootTyped ==
    ASSUME AccountsTypeOK, NEW b \in Boots, boot[b] # None
    PROVE  /\ boot[b].name \in Names /\ boot[b].password \in Passwords
           /\ boot[b].oneTime \in BOOLEAN /\ boot[b].force \in BOOLEAN
<1>1. boot[b] \in BootRequest
    BY DEF AccountsTypeOK
<1> QED
    BY <1>1 DEF BootRequest

(* The change an action writes, whoever asked for it. *)
LEMMA UpdateEffect ==
    ASSUME AccountsTypeOK, NEW id \in Ids, NEW data \in AccountChange, UpdateByAdministrator(id, data)
    PROVE  /\ account' \in [Ids -> Account \cup {None}]
           /\ session' \in [Tokens -> Session \cup {None}]
          
           /\ \/ UNCHANGED <<account, session>>
              \/ /\ Exists(id) /\ account' = [account EXCEPT ![id] = Projected(account[id], data)]
                 /\ ~StrandsAdministration(id, Projected(account[id], data))
                 /\ Projected(account[id], data) \in Account
                 /\ RevokeSessions(id)
<1>1. CASE UNCHANGED <<account, session>>
    BY <1>1 DEF AccountsTypeOK
<1>2. CASE ~UNCHANGED <<account, session>>
    <2>1. /\ Exists(id) /\ account' = [account EXCEPT ![id] = Projected(account[id], data)]
          /\ ~StrandsAdministration(id, Projected(account[id], data))
          /\ RevokeSessions(id)
        BY <1>2 DEF UpdateByAdministrator
    <2>2. account[id] \in Account
        BY <2>1 DEF Exists, AccountsTypeOK
    <2>3. Projected(account[id], data) \in Account
        BY <2>2, ProjectedTyped
    <2>4. account' \in [Ids -> Account \cup {None}]
        BY <2>1, <2>3 DEF AccountsTypeOK
    <2>5. session' \in [Tokens -> Session \cup {None}]
        BY <2>1, RevokeRows DEF RevokeSessions, SessionsOf, AccountsTypeOK
    <2> QED
        BY <2>1, <2>3, <2>4, <2>5
<1> QED
    BY <1>1, <1>2

(***************************************************************************)
(* Type correctness, action by action.                                     *)
(***************************************************************************)
LEMMA TypesAtLogin ==
    ASSUME AccountsTypeOK, TablesAgree, NEW h \in Handlers
    PROVE  /\ \A n \in Names, p \in Passwords, i \in Ips : LoginBegins(h, n, p, i) => AccountsTypeOK'
           /\ LoginEnds(h) => AccountsTypeOK'
<1>0. clock \in Nat /\ issued \in Nat
    BY AccountsAssumption DEF AccountsTypeOK
<1>1. ASSUME NEW n \in Names, NEW p \in Passwords, NEW i \in Ips, LoginBegins(h, n, p, i)
      PROVE  AccountsTypeOK'
    <2> DEFINE global == Consume(bucket, <<"global", "*">>)
               perIp == Consume(global, <<"ip", i>>)
               all == Consume(perIp, <<"account", n>>)
               B == [BucketKeys -> [attempts : Nat, resetAt : Nat]]
               row == IF Named(n) = {} THEN None ELSE CHOOSE j \in Named(n) : TRUE
               r == [op |-> "login", id |-> row, tried |-> p,
                     row |-> IF row = None THEN None ELSE account[row]]
    <2>1. <<"global", "*">> \in BucketKeys /\ <<"ip", i>> \in BucketKeys /\ <<"account", n>> \in BucketKeys
        BY DEF BucketKeys
    <2>2. bucket \in B
        BY DEF AccountsTypeOK
    <2>3. global \in B
        BY <1>0, <2>1, <2>2, ConsumeTyped
    <2>4. perIp \in B
        BY <1>0, <2>1, <2>3, ConsumeTyped
    <2>5. all \in B
        BY <1>0, <2>1, <2>4, ConsumeTyped
    <2>6. row \in Ids \cup {None} /\ (row = None \/ account[row] \in Account \cup {None})
        BY DEF Named, Registered, AccountsTypeOK
    <2>7. r \in HashRequest
        BY <2>6 DEF HashRequest
    <2> HIDE DEF global, perIp, all, r
    <2>8. bucket' \in {global, perIp, all} /\ (handler' = handler \/ handler' = [handler EXCEPT ![h] = r])
        BY <1>1 DEF LoginBegins, global, perIp, all, r
    <2>9. bucket' \in B /\ handler' \in [Handlers -> HashRequest \cup {None}]
        BY <2>3, <2>4, <2>5, <2>7, <2>8 DEF AccountsTypeOK
    <2>10. UNCHANGED <<clock, account, created, session, issued, boot, file>>
        BY <1>1 DEF LoginBegins
    <2> QED
        BY <2>9, <2>10 DEF AccountsTypeOK
<1>2. ASSUME LoginEnds(h) PROVE AccountsTypeOK'
    <2> DEFINE id == handler[h].id
               row == handler[h].row
    <2>1. /\ handler[h] # None /\ handler[h].op = "login"
          /\ LoginFails(h) \/ LoginSucceeds(h)
          /\ handler' = [handler EXCEPT ![h] = None]
          /\ UNCHANGED <<clock, created, bucket, boot>>
        BY <1>2 DEF LoginEnds
    <2>2. row \in Account \cup {None}
        BY <2>1, RequestTyped
    <2>3. handler' \in [Handlers -> HashRequest \cup {None}]
        BY <2>1 DEF AccountsTypeOK
    <2>4. ASSUME LoginFails(h) PROVE account' \in [Ids -> Account \cup {None}] /\ UNCHANGED <<session, issued, file>>
        <3>1. CASE account' = account
            BY <3>1, <2>4 DEF LoginFails, AccountsTypeOK
        <3>2. CASE account' # account
            <4>1. Exists(id) /\ account' = [account EXCEPT ![id] = Failed(account[id])]
                BY <2>4, <3>2 DEF LoginFails
            <4>2. \A i \in Ids : account[i] # None => account[i] \in Account
                BY DEF AccountsTypeOK
            <4>3. id \in Ids => Failed(account[id]) \in Account
                BY <1>0, <4>1, <4>2, FailedTyped DEF Exists
            <4>4. account' \in [Ids -> Account \cup {None}]
                BY <4>1, <4>3 DEF AccountsTypeOK
            <4> QED
                BY <2>4, <4>4 DEF LoginFails
        <3> QED
            BY <3>1, <3>2
    <2>5. ASSUME LoginSucceeds(h)
          PROVE  /\ account' \in [Ids -> Account \cup {None}]
                 /\ session' \in [Tokens -> Session \cup {None}]
                 /\ issued' \in 0..MaxTokens
                 /\ file' \in BootFile \cup {None}
        <3>1. file' \in BootFile \cup {None}
            BY <2>5 DEF LoginSucceeds, ConsumesFile, AccountsTypeOK
        <3>2. row # None /\ row \in Account /\ row.role \in Roles
            BY <2>2, <2>5 DEF LoginSucceeds, Accepted, Account
        <3>3. id \in Ids
            BY <2>1, <3>2, <2>5 DEF TablesAgree, LoginsFound
        <3>4. CASE Exists(id)
            <4>1. /\ account' = [account EXCEPT ![id] = Cleared(account[id])]
                  /\ IssueTokens(id, row.role, issued + 1, session)
                BY <2>5, <3>4 DEF LoginSucceeds
            <4>2. account[id] \in Account
                BY <3>3, <3>4 DEF Exists, AccountsTypeOK
            <4>3. Cleared(account[id]) \in Account
                BY <4>2, ClearedTyped
            <4>5. account' \in [Ids -> Account \cup {None}]
                BY <4>1, <4>3 DEF AccountsTypeOK
            <4>6. session \in [Tokens -> Session \cup {None}]
                BY DEF AccountsTypeOK
            <4>7. session' \in [Tokens -> Session \cup {None}] /\ issued' \in 0..MaxTokens
                BY <1>0, <3>2, <3>3, <4>1, <4>6, IssueRows
            <4> QED
                BY <3>1, <4>5, <4>7
        <3>5. CASE ~Exists(id)
            BY <2>5, <3>1, <3>5 DEF LoginSucceeds, AccountsTypeOK
        <3> QED
            BY <3>4, <3>5
    <2> QED
        BY <2>1, <2>3, <2>4, <2>5 DEF AccountsTypeOK
<1> QED
    BY <1>1, <1>2

LEMMA TypesAtTokens ==
    ASSUME AccountsTypeOK, TablesAgree, NEW t \in Tokens
    PROVE  /\ Refresh(t) => AccountsTypeOK'
           /\ \A T : Logout(T) => AccountsTypeOK'
           /\ \A id \in Ids : DeleteByAdministrator(t, id) => AccountsTypeOK'
<1>0. /\ clock \in Nat /\ issued \in Nat /\ session \in [Tokens -> Session \cup {None}]
      /\ account \in [Ids -> Account \cup {None}]
    BY AccountsAssumption DEF AccountsTypeOK
<1>1. ASSUME Refresh(t) PROVE AccountsTypeOK'
    <2> DEFINE id == session[t].user
    <2>1. session[t] # None /\ IssueTokens(id, account[id].role, session[t].login, Revoke({t}))
        BY <1>1 DEF Refresh, Live
    <2>2. id \in Ids /\ session[t].login \in Nat /\ account[id] # None
        BY <1>0, <2>1 DEF Session, TablesAgree, SessionsAnchored
    <2>3. account[id].role \in Roles
        BY <1>0, <2>2 DEF Account
    <2>4. Revoke({t}) \in [Tokens -> Session \cup {None}]
        BY <1>0, RevokeRows
    <2>5. session' \in [Tokens -> Session \cup {None}] /\ issued' \in 0..MaxTokens
        BY <1>0, <2>1, <2>2, <2>3, <2>4, IssueRows
    <2>6. UNCHANGED <<clock, account, created, bucket, handler, boot, file>>
        BY <1>1 DEF Refresh
    <2> QED
        BY <2>5, <2>6 DEF AccountsTypeOK
<1>2. ASSUME NEW T, Logout(T) PROVE AccountsTypeOK'
    <2>1. session' \in [Tokens -> Session \cup {None}]
        BY <1>0, <1>2, RevokeRows DEF Logout
    <2> QED
        BY <1>2, <2>1 DEF AccountsTypeOK, Logout
<1>3. ASSUME NEW id \in Ids, DeleteByAdministrator(t, id) PROVE AccountsTypeOK'
    <2>1. account' \in [Ids -> Account \cup {None}] /\ session' \in [Tokens -> Session \cup {None}]
        BY <1>0, <1>3 DEF DeleteByAdministrator
    <2>2. UNCHANGED <<clock, created, issued, bucket, handler, boot, file>>
        BY <1>3 DEF DeleteByAdministrator
    <2> QED
        BY <2>1, <2>2 DEF AccountsTypeOK
<1> QED
    BY <1>1, <1>2, <1>3

LEMMA InsertTyped ==
    ASSUME AccountsTypeOK, NEW n \in Names, NEW p \in Passwords, NEW r \in Roles, Insert(n, p, r)
    PROVE  account' \in [Ids -> Account \cup {None}] /\ created' \in 0..MaxIds
<1>1. created + 1 \in Ids /\ created' = created + 1
    BY AccountsAssumption DEF AccountsTypeOK, Insert
<1>2. NewAccount(n, p, r) \in Account
    BY NewAccountTyped
<1>3. account' = [account EXCEPT ![created + 1] = NewAccount(n, p, r)]
    BY DEF Insert
<1> QED
    BY <1>1, <1>2, <1>3, AccountsAssumption DEF AccountsTypeOK

LEMMA TypesAtAdministration ==
    ASSUME AccountsTypeOK, NEW t \in Tokens
    PROVE  /\ \A id \in Ids, r \in Roles : PutRole(t, id, r) => AccountsTypeOK'
           /\ \A id \in Ids : Unlock(t, id) => AccountsTypeOK'
           /\ \A h \in Handlers, n \in Names, p \in Passwords, r \in Roles :
                 CreateBegins(h, t, n, p, r) => AccountsTypeOK'
           /\ \A h \in Handlers, id \in Ids, p \in Passwords, r \in Roles \cup {None} :
                 UpdateBegins(h, t, id, p, r) => AccountsTypeOK'
<1>1. ASSUME NEW id \in Ids, NEW r \in Roles, PutRole(t, id, r) PROVE AccountsTypeOK'
    <2>1. [NoChange EXCEPT !.role = r] \in AccountChange
        BY DEF NoChange, AccountChange
    <2>2. UpdateByAdministrator(id, [NoChange EXCEPT !.role = r])
          /\ UNCHANGED <<clock, created, issued, bucket, handler, boot, file>>
        BY <1>1 DEF PutRole
    <2> QED
        BY <2>1, <2>2, UpdateEffect DEF AccountsTypeOK
<1>2. ASSUME NEW id \in Ids, Unlock(t, id) PROVE AccountsTypeOK'
    <2>1. [NoChange EXCEPT !.unlock = TRUE] \in AccountChange
        BY DEF NoChange, AccountChange
    <2>2. UpdateByAdministrator(id, [NoChange EXCEPT !.unlock = TRUE])
          /\ UNCHANGED <<clock, created, issued, bucket, handler, boot, file>>
        BY <1>2 DEF Unlock
    <2> QED
        BY <2>1, <2>2, UpdateEffect DEF AccountsTypeOK
<1>3. ASSUME NEW h \in Handlers, NEW n \in Names, NEW p \in Passwords, NEW r \in Roles,
             CreateBegins(h, t, n, p, r)
      PROVE  AccountsTypeOK'
    <2>1. [op |-> "create", name |-> n, password |-> p, role |-> r] \in HashRequest
        BY DEF HashRequest
    <2> QED
        BY <1>3, <2>1 DEF CreateBegins, AccountsTypeOK
<1>4. ASSUME NEW h \in Handlers, NEW id \in Ids, NEW p \in Passwords, NEW r \in Roles \cup {None},
             UpdateBegins(h, t, id, p, r)
      PROVE  AccountsTypeOK'
    <2>1. [NoChange EXCEPT !.password = p, !.role = r] \in AccountChange
        BY DEF NoChange, AccountChange
    <2>2. [op |-> "update", id |-> id, data |-> [NoChange EXCEPT !.password = p, !.role = r]] \in HashRequest
        BY <2>1 DEF HashRequest
    <2> QED
        BY <1>4, <2>2 DEF UpdateBegins, AccountsTypeOK
<1> QED
    BY <1>1, <1>2, <1>3, <1>4

LEMMA TypesAtHashed ==
    ASSUME AccountsTypeOK, NEW h \in Handlers
    PROVE  (CreateEnds(h) => AccountsTypeOK') /\ (UpdateEnds(h) => AccountsTypeOK')
<1>5. ASSUME CreateEnds(h) PROVE AccountsTypeOK'
    <2>1. handler[h].name \in Names /\ handler[h].password \in Passwords /\ handler[h].role \in Roles
        BY <1>5, RequestTyped DEF CreateEnds
    <2>2. account' \in [Ids -> Account \cup {None}] /\ created' \in 0..MaxIds
        BY <1>5, <2>1, InsertTyped DEF CreateEnds, AccountsTypeOK
    <2> QED
        BY <1>5, <2>2 DEF CreateEnds, AccountsTypeOK
<1>6. ASSUME UpdateEnds(h) PROVE AccountsTypeOK'
    <2>1. handler[h].id \in Ids /\ handler[h].data \in AccountChange
        BY <1>6, RequestTyped DEF UpdateEnds
    <2>2. UpdateByAdministrator(handler[h].id, handler[h].data)
          /\ handler' = [handler EXCEPT ![h] = None]
          /\ UNCHANGED <<clock, created, issued, bucket, boot, file>>
        BY <1>6 DEF UpdateEnds
    <2> QED
        BY <2>1, <2>2, UpdateEffect DEF AccountsTypeOK
<1> QED
    BY <1>5, <1>6

LEMMA TypesAtBoot ==
    ASSUME AccountsTypeOK, NEW b \in Boots
    PROVE  /\ \A env \in Environments, force \in BOOLEAN : BootBegins(b, env, force) => AccountsTypeOK'
           /\ BootEnds(b) => AccountsTypeOK'
<1>0. clock \in Nat
    BY AccountsAssumption DEF AccountsTypeOK
<1>1. ASSUME NEW env \in Environments, NEW force \in BOOLEAN, BootBegins(b, env, force)
      PROVE  AccountsTypeOK'
    <2>1. UNCHANGED <<clock, account, created, session, issued, bucket, handler>>
        BY <1>1 DEF BootBegins
    <2>2. CASE BootFindsAccounts(force)
        BY <2>1, <2>2 DEF BootFindsAccounts, AccountsTypeOK
    <2>3. CASE BootHashes(b, env, force)
        <3>1. PICK fresh \in GeneratedCredentials :
                 LET used == IF env # None THEN env ELSE IF file # None THEN file ELSE fresh IN
                 /\ file' = IF env = None /\ file = None THEN fresh ELSE file
                 /\ boot' = [boot EXCEPT ![b] =
                        [name |-> used.name, password |-> used.password, oneTime |-> env = None,
                         force |-> force]]
            BY <2>3 DEF BootHashes
        <3>2. fresh \in BootFile
            BY <1>0, <3>1, AccountsAssumption DEF GeneratedCredentials, BootFile
        <3>3. file' \in BootFile \cup {None}
            BY <3>1, <3>2 DEF AccountsTypeOK
        <3> DEFINE used == IF env # None THEN env ELSE IF file # None THEN file ELSE fresh
        <3>4. used.name \in Names /\ used.password \in Passwords
            <4>1. env # None => env \in [name : Names, password : Passwords]
                BY AccountsAssumption
            <4>2. file # None => file \in BootFile
                BY DEF AccountsTypeOK
            <4> QED
                BY <3>2, <4>1, <4>2 DEF BootFile
        <3>5. boot' \in [Boots -> BootRequest \cup {None}]
            BY <3>1, <3>4 DEF AccountsTypeOK, BootRequest
        <3> QED
            BY <2>1, <3>3, <3>5 DEF AccountsTypeOK
    <2> QED
        BY <1>1, <2>2, <2>3 DEF BootBegins
<1>2. ASSUME BootEnds(b) PROVE AccountsTypeOK'
    <2>1. /\ boot[b] # None /\ boot' = [boot EXCEPT ![b] = None]
          /\ UNCHANGED <<clock, issued, bucket, handler>>
        BY <1>2 DEF BootEnds
    <2>2. boot[b].name \in Names /\ boot[b].password \in Passwords
        BY <2>1, BootTyped
    <2>3. CASE Overtaken(b)
        BY <1>2, <2>1, <2>3 DEF BootEnds, AccountsTypeOK
    <2>4. CASE ~Overtaken(b) /\ Named(boot[b].name) # {}
        <3> DEFINE id == CHOOSE i \in Named(boot[b].name) : TRUE
        <3>1. id \in Ids
            BY <2>4 DEF Named, Registered
        <3>2. NewAccount(boot[b].name, boot[b].password, "super_admin") \in Account
            BY <2>2, NewAccountTyped
        <3>3. Recover(b) /\ file' \in {file, None}
            BY <1>2, <2>4 DEF BootEnds
        <3>4. account' \in [Ids -> Account \cup {None}]
            BY <3>1, <3>2, <3>3 DEF Recover, AccountsTypeOK
        <3>5. session' \in [Tokens -> Session \cup {None}]
            BY <3>3, RevokeRows DEF Recover, RevokeSessions, SessionsOf, AccountsTypeOK
        <3> QED
            BY <2>1, <3>3, <3>4, <3>5 DEF Recover, AccountsTypeOK
    <2>5. CASE ~Overtaken(b) /\ Named(boot[b].name) = {}
        <3>1. Insert(boot[b].name, boot[b].password, "super_admin") /\ UNCHANGED session
              /\ file' \in {file, None}
            BY <1>2, <2>5 DEF BootEnds
        <3>2. account' \in [Ids -> Account \cup {None}] /\ created' \in 0..MaxIds
            BY <2>2, <3>1, InsertTyped
        <3> QED
            BY <2>1, <3>1, <3>2 DEF AccountsTypeOK
    <2> QED
        BY <2>3, <2>4, <2>5
<1> QED
    BY <1>1, <1>2

(* With what the tables say of each other, every step keeps the types. *)
LEMMA TypesKept ==
    ASSUME AccountsTypeOK, TablesAgree, [AccountsNext]_accountVars
    PROVE  AccountsTypeOK'
<1>1. ASSUME NEW h \in Handlers, HandlerStep(h) PROVE AccountsTypeOK'
    BY <1>1, TypesAtLogin, TypesAtAdministration, TypesAtHashed DEF HandlerStep
<1>2. ASSUME NEW t \in Tokens, TokenStep(t) PROVE AccountsTypeOK'
    BY <1>2, TypesAtTokens, TypesAtAdministration DEF TokenStep
<1>3. ASSUME NEW b \in Boots, BootStep(b) PROVE AccountsTypeOK'
    BY <1>3, TypesAtBoot DEF BootStep
<1>4. CASE Restart
    BY <1>4 DEF Restart, AccountsTypeOK
<1>5. CASE ClockTicks
    BY <1>5, AccountsAssumption DEF ClockTicks, AccountsTypeOK
<1>6. CASE UNCHANGED accountVars
    BY <1>6 DEF accountVars, AccountsTypeOK
<1> QED
    BY <1>1, <1>2, <1>3, <1>4, <1>5, <1>6 DEF AccountsNext

-----------------------------------------------------------------------------
(***************************************************************************)
(* The tables agree.  Most steps let sessions fade: none appears, none     *)
(* that is revoked comes back.                                             *)
(***************************************************************************)
SessionsFade ==
    \A t \in Tokens : session'[t] # None =>
        /\ session[t] # None
        /\ session'[t].user = session[t].user
        /\ session'[t].kind = session[t].kind
        /\ session'[t].login = session[t].login
        /\ session[t].revoked => session'[t].revoked

AccountsStay == \A i \in Ids : account[i] # None => account'[i] # None

LEMMA RevokingFades ==
    ASSUME AccountsTypeOK, NEW T, session' = Revoke(T)
    PROVE  SessionsFade
BY RevokeRows DEF SessionsFade, AccountsTypeOK

LEMMA FadingKeepsTokens ==
    ASSUME AccountsTypeOK, OneUnspentPerLogin, SessionsFade
    PROVE  OneUnspentPerLogin'
<1> SUFFICES ASSUME NEW t \in Tokens, NEW u \in Tokens, Unspent(t)', Unspent(u)',
                    session'[t].login = session'[u].login
             PROVE  t = u
    BY DEF OneUnspentPerLogin
<1>1. Unspent(t) /\ Unspent(u) /\ session[t].login = session[u].login
    BY DEF Unspent, SessionsFade
<1> QED
    BY <1>1 DEF OneUnspentPerLogin

LEMMA FadingKeepsAnchors ==
    ASSUME AccountsTypeOK, SessionsAnchored, SessionsFade, issued' = issued,
           \A t \in Tokens : session'[t] # None => account'[session[t].user] # None
    PROVE  SessionsAnchored'
BY DEF SessionsAnchored, SessionsFade

(* A step that writes neither accounts nor sessions. *)
LEMMA TablesUntouched ==
    ASSUME AccountsIndInv, UNCHANGED <<account, created, session, issued>>, LoginsFound'
    PROVE  TablesAgree' /\ OneUnspentPerLogin'
<1>1. RowsNumbered' /\ SessionsAnchored'
    BY DEF AccountsIndInv, TablesAgree, RowsNumbered, SessionsAnchored
<1>2. OneUnspentPerLogin'
    BY DEF AccountsIndInv, OneUnspentPerLogin, Unspent
<1> QED
    BY <1>1, <1>2 DEF TablesAgree

(* A step that ends sessions and keeps the accounts that sessions name. *)
LEMMA SessionsEnd ==
    ASSUME AccountsIndInv, SessionsFade, UNCHANGED issued, LoginsFound', RowsNumbered',
           \A t \in Tokens : session'[t] # None => account'[session[t].user] # None
    PROVE  TablesAgree' /\ OneUnspentPerLogin'
<1>1. AccountsTypeOK /\ TablesAgree /\ OneUnspentPerLogin
    BY DEF AccountsIndInv
<1>2. OneUnspentPerLogin'
    BY <1>1, FadingKeepsTokens
<1>3. SessionsAnchored'
    BY <1>1, FadingKeepsAnchors DEF TablesAgree
<1> QED
    BY <1>2, <1>3 DEF TablesAgree

(* No row changes its name, and a new row has a number no row ever had.    *)
NamesKept ==
    /\ created' \in Nat /\ created <= created'
    /\ \A i \in Ids : i <= created /\ account'[i] # None =>
          account[i] # None /\ account'[i].name = account[i].name

LEMMA LoginsKept ==
    ASSUME AccountsTypeOK, LoginsFound, NamesKept,
           \A g \in Handlers : handler'[g] \in {handler[g], None}
    PROVE  LoginsFound'
<1> SUFFICES ASSUME NEW g \in Handlers, handler'[g] # None, handler'[g].op = "login",
                    handler'[g].row # None
             PROVE  /\ handler'[g].id \in Ids /\ handler'[g].id <= created'
                    /\ account'[handler'[g].id] # None =>
                         account'[handler'[g].id].name = handler'[g].row.name
    BY DEF LoginsFound, Exists
<1>1. handler'[g] = handler[g]
    OBVIOUS
<1>2. /\ handler[g].id \in Ids /\ handler[g].id <= created
      /\ account[handler[g].id] # None => account[handler[g].id].name = handler[g].row.name
    BY <1>1 DEF LoginsFound, Exists
<1>3. created \in Nat /\ created' \in Nat /\ Ids \subseteq Nat
    BY AccountsAssumption DEF AccountsTypeOK, Ids, NamesKept
<1>4. handler[g].id <= created'
    BY <1>2, <1>3 DEF NamesKept
<1> QED
    BY <1>1, <1>2, <1>4 DEF NamesKept

LEMMA NamesUntouched ==
    ASSUME AccountsTypeOK, UNCHANGED <<account, created>>
    PROVE  NamesKept
BY AccountsAssumption DEF NamesKept, AccountsTypeOK

LEMMA RowRewritten ==
    ASSUME AccountsTypeOK, NEW id, NEW row, account[id] # None, row.name = account[id].name,
           account' = [account EXCEPT ![id] = row], created' = created
    PROVE  NamesKept
BY AccountsAssumption DEF NamesKept, AccountsTypeOK

(* RevokeSessions ends sessions and brings none back. *)
LEMMA RevokedAccount ==
    ASSUME AccountsIndInv, NEW id, RevokeSessions(id)
    PROVE  SessionsFade
BY RevokingFades DEF RevokeSessions, AccountsIndInv

LEMMA NamesAtUpdate ==
    ASSUME AccountsTypeOK, NEW id \in Ids, NEW data \in AccountChange,
           UpdateByAdministrator(id, data), created' = created
    PROVE  NamesKept
<1>1. CASE UNCHANGED <<account, session>>
    BY <1>1, NamesUntouched
<1>2. CASE ~UNCHANGED <<account, session>>
    <2>1. Exists(id) /\ account' = [account EXCEPT ![id] = Projected(account[id], data)]
        BY <1>2, UpdateEffect
    <2>2. account[id] \in Account
        BY <2>1 DEF Exists, AccountsTypeOK
    <2>3. Projected(account[id], data).name = account[id].name
        BY <2>2 DEF Projected, Account
    <2> QED
        BY <2>1, <2>3, RowRewritten DEF Exists
<1> QED
    BY <1>1, <1>2

LEMMA NamesAtInsert ==
    ASSUME AccountsTypeOK, NEW n, NEW p, NEW r, Insert(n, p, r)
    PROVE  NamesKept
<1>1. /\ created \in Nat /\ created' = created + 1
      /\ account' = [account EXCEPT ![created + 1] = NewAccount(n, p, r)]
    BY AccountsAssumption DEF Insert, AccountsTypeOK
<1>2. \A i \in Ids : i <= created => account'[i] = account[i]
    BY <1>1, AccountsAssumption DEF Ids, AccountsTypeOK
<1> QED
    BY <1>1, <1>2 DEF NamesKept

LEMMA UpdateKeeps ==
    ASSUME AccountsIndInv, NEW id \in Ids, NEW data \in AccountChange,
           UpdateByAdministrator(id, data), UNCHANGED <<created, issued>>, LoginsFound'
    PROVE  TablesAgree' /\ OneUnspentPerLogin'
<1>1. AccountsTypeOK /\ RowsNumbered /\ SessionsAnchored
    BY DEF AccountsIndInv, TablesAgree
<1>2. CASE UNCHANGED <<account, session>>
    BY <1>2, TablesUntouched
<1>3. CASE ~UNCHANGED <<account, session>>
    <2>1. /\ account' = [account EXCEPT ![id] = Projected(account[id], data)]
          /\ Exists(id) /\ Projected(account[id], data) \in Account
          /\ RevokeSessions(id)
        BY <1>1, <1>3, UpdateEffect
    <2>2. Projected(account[id], data) # None
        BY <2>1, NoneIsNoRow
    <2>3. \A i \in Ids : account'[i] # None <=> account[i] # None
        BY <1>1, <2>1, <2>2 DEF Exists, AccountsTypeOK
    <2>4. RowsNumbered'
        BY <1>1, <2>3 DEF RowsNumbered
    <2>5. \A t \in Tokens : session[t] # None => session[t].user \in Ids
        BY <1>1 DEF AccountsTypeOK, Session
    <2>6. \A t \in Tokens : session'[t] # None => account'[session[t].user] # None
        BY <1>1, <2>1, <2>3, <2>5, RevokedAccount DEF SessionsAnchored, SessionsFade
    <2> QED
        BY <2>1, <2>4, <2>6, RevokedAccount, SessionsEnd
<1> QED
    BY <1>2, <1>3

LEMMA InsertKeeps ==
    ASSUME AccountsIndInv, NEW n \in Names, NEW p \in Passwords, NEW r \in Roles, Insert(n, p, r),
           UNCHANGED <<session, issued>>, LoginsFound'
    PROVE  TablesAgree' /\ OneUnspentPerLogin'
<1>1. AccountsTypeOK /\ RowsNumbered /\ SessionsAnchored
    BY DEF AccountsIndInv, TablesAgree
<1>2. /\ created \in Nat /\ created' = created + 1 /\ created + 1 \in Ids
      /\ account' = [account EXCEPT ![created + 1] = NewAccount(n, p, r)]
    BY <1>1, AccountsAssumption DEF Insert, AccountsTypeOK
<1>3. NewAccount(n, p, r) # None
    BY NewAccountTyped, NoneIsNoRow
<1>4. \A i \in Ids : account'[i] = IF i = created + 1 THEN NewAccount(n, p, r) ELSE account[i]
    BY <1>1, <1>2 DEF AccountsTypeOK
<1>5. RowsNumbered'
    BY <1>1, <1>2, <1>4 DEF RowsNumbered
<1>6. \A t \in Tokens : session[t] # None => session[t].user \in Ids
    BY <1>1 DEF AccountsTypeOK, Session
<1>7. \A t \in Tokens : session'[t] # None => account'[session[t].user] # None
    BY <1>1, <1>3, <1>4, <1>6 DEF SessionsAnchored
<1>8. SessionsFade
    BY DEF SessionsFade, AccountsIndInv, TablesAgree
<1> QED
    BY <1>5, <1>7, <1>8, SessionsEnd

(* The rows before a token of `login' is issued: none of its refresh tokens is good. *)
RevokedFor(login, S) ==
    \A t \in Tokens : S[t] # None =>
        /\ session[t] # None
        /\ S[t].user = session[t].user /\ S[t].kind = session[t].kind
        /\ S[t].login = session[t].login
        /\ session[t].revoked => S[t].revoked
        /\ S[t].kind = "refresh" /\ S[t].login = login => S[t].revoked

(* Two new rows after all old ones: the refresh token is the only one of its login. *)
LEMMA IssueKeeps ==
    ASSUME AccountsIndInv, LoginsFound', UNCHANGED <<created>>,
           NEW id \in Ids, NEW role \in Roles, NEW login \in 1..(issued + 1),
           NEW S \in [Tokens -> Session \cup {None}],
           RevokedFor(login, S),
           \A i \in Ids : account[i] # None <=> account'[i] # None,
           account[id] # None,
           IssueTokens(id, role, login, S)
    PROVE  TablesAgree' /\ OneUnspentPerLogin'
<1>1. /\ AccountsTypeOK /\ RowsNumbered /\ SessionsAnchored
      /\ OneUnspentPerLogin
    BY DEF AccountsIndInv, TablesAgree
<1>2. clock \in Nat /\ issued \in Nat /\ login \in Nat
    BY <1>1, AccountsAssumption DEF AccountsTypeOK
<1>3. issued' = issued + 2 /\ TwoNewRows(id, login, S)
    BY <1>2, IssueRows
<1>4. \A t \in Tokens :
        \/ t = issued + 1 /\ session'[t].kind = "access"
              /\ session'[t].user = id /\ session'[t].login = login
        \/ t = issued + 2 /\ session'[t].kind = "refresh"
              /\ session'[t].user = id /\ session'[t].login = login
        \/ t \notin {issued + 1, issued + 2} /\ session'[t] \in {S[t], None}
    BY <1>3 DEF TwoNewRows
<1>5. \A t \in Tokens : session[t] # None =>
        session[t].user \in Ids /\ session[t].login \in 1..issued /\ t <= issued
    BY <1>1 DEF AccountsTypeOK, Session, SessionsAnchored
<1> USE DEF RevokedFor
<1>6. RowsNumbered'
    BY <1>1 DEF RowsNumbered
<1>7. SessionsAnchored'
    <2> SUFFICES ASSUME NEW t \in Tokens, session'[t] # None
                 PROVE  t <= issued' /\ account'[session'[t].user] # None /\ session'[t].login \in 1..issued'
        BY DEF SessionsAnchored
    <2>1. CASE t \in {issued + 1, issued + 2}
        BY <1>2, <1>3, <1>4, <2>1
    <2>2. CASE t \notin {issued + 1, issued + 2}
        BY <1>1, <1>2, <1>3, <1>4, <1>5, <2>2 DEF SessionsAnchored
    <2> QED
        BY <2>1, <2>2
<1>10. ASSUME NEW t \in Tokens, Unspent(t)'
       PROVE  \/ t = issued + 2 /\ session'[t].login = login
              \/ Unspent(t) /\ session'[t].login = session[t].login /\ session'[t].login # login
    BY <1>4, <1>10 DEF Unspent
<1>11. OneUnspentPerLogin'
    <2> SUFFICES ASSUME NEW t \in Tokens, NEW u \in Tokens, Unspent(t)', Unspent(u)',
                        session'[t].login = session'[u].login
                 PROVE  t = u
        BY DEF OneUnspentPerLogin
    <2> QED
        BY <1>1, <1>10 DEF OneUnspentPerLogin
<1> QED
    BY <1>6, <1>7, <1>11 DEF TablesAgree

-----------------------------------------------------------------------------
(* Every step keeps them.                                                  *)
AccountsAgree == TablesAgree /\ OneUnspentPerLogin

LEMMA AgreeAtLogin ==
    ASSUME AccountsIndInv, NEW h \in Handlers, LoginEnds(h)
    PROVE  AccountsAgree'
<1> DEFINE id == handler[h].id
           row == handler[h].row
<1>1. AccountsTypeOK /\ RowsNumbered /\ SessionsAnchored /\ LoginsFound
    BY DEF AccountsIndInv, TablesAgree
<1>2. /\ handler[h] # None /\ handler[h].op = "login"
      /\ LoginFails(h) \/ LoginSucceeds(h)
      /\ handler' = [handler EXCEPT ![h] = None]
      /\ UNCHANGED <<created>>
    BY DEF LoginEnds
<1>4. \A i \in Ids : account[i] # None => account[i] \in Account
    BY <1>1 DEF AccountsTypeOK
<1>3. LoginsFound'
    <2>1. \/ UNCHANGED account
          \/ Exists(id) /\ account' = [account EXCEPT ![id] = Failed(account[id])]
          \/ Exists(id) /\ account' = [account EXCEPT ![id] = Cleared(account[id])]
        BY <1>2 DEF LoginFails, LoginSucceeds
    <2>2. id \in Ids /\ Exists(id) =>
            Failed(account[id]).name = account[id].name /\ Cleared(account[id]).name = account[id].name
        BY <1>4 DEF Exists, Failed, Cleared, Account
    <2>3. CASE id \in Ids
        BY <1>1, <1>2, <2>1, <2>2, <2>3, NamesUntouched, RowRewritten, LoginsKept DEF Exists
    <2>4. CASE id \notin Ids
        <3>1. \A i \in Ids : i # id
            BY <2>4
        <3>2. \A i \in Ids : account'[i] = account[i]
            BY <1>1, <2>1, <3>1 DEF AccountsTypeOK
        <3>4. created \in Nat /\ created' = created
            BY <1>1, <1>2, AccountsAssumption DEF AccountsTypeOK
        <3>3. NamesKept
            BY <3>2, <3>4 DEF NamesKept
        <3> HIDE DEF id
        <3> QED
            BY <1>1, <1>2, <3>3, LoginsKept
    <2> QED
        BY <2>3, <2>4
<1>5. CASE LoginFails(h)
    <2>1. UNCHANGED <<session, issued>>
        BY <1>5 DEF LoginFails
    <2>2. account' = account \/ (account' = [account EXCEPT ![id] = Failed(account[id])] /\ Exists(id))
        BY <1>5 DEF LoginFails
    <2>3. \A i \in Ids : account[i] # None <=> account'[i] # None
        <3>1. CASE account' = account
            BY <3>1
        <3>2. CASE account' = [account EXCEPT ![id] = Failed(account[id])] /\ Exists(id)
            <4>1. id \in Ids => Failed(account[id]) # None
                BY <1>1, <1>4, <3>2, FailedTyped, NoneIsNoRow, AccountsAssumption DEF Exists, AccountsTypeOK
            <4> QED
                BY <1>1, <3>2, <4>1 DEF Exists, AccountsTypeOK
        <3> QED
            BY <2>2, <3>1, <3>2
    <2>4. RowsNumbered'
        BY <1>1, <1>2, <2>3 DEF RowsNumbered
    <2>5. \A t \in Tokens : session[t] # None => session[t].user \in Ids
        BY <1>1 DEF AccountsTypeOK, Session
    <2>6. \A t \in Tokens : session'[t] # None => account'[session[t].user] # None
        BY <1>1, <2>1, <2>3, <2>5 DEF SessionsAnchored
    <2>7. SessionsFade
        BY <2>1 DEF SessionsFade
    <2> QED
        BY <1>1, <1>2, <1>3, <2>1, <2>4, <2>6, <2>7, SessionsEnd DEF AccountsAgree
<1>6. CASE LoginSucceeds(h)
    <2>1. CASE ~Exists(id)
        <3>1. UNCHANGED <<account, created, session, issued>>
            BY <1>2, <1>6, <2>1 DEF LoginSucceeds
        <3> QED
            BY <1>3, <3>1, TablesUntouched DEF AccountsAgree
    <2>2. CASE Exists(id)
        <3>1. /\ account' = [account EXCEPT ![id] = Cleared(account[id])]
              /\ IssueTokens(id, row.role, issued + 1, session)
              /\ row # None
            BY <1>6, <2>2 DEF LoginSucceeds, Accepted
        <3>2. id \in Ids /\ row \in Account
            BY <1>1, <1>2, <3>1, RequestTyped DEF LoginsFound
        <3>3. row.role \in Roles /\ account[id] # None
            BY <2>2, <3>2 DEF Account, Exists
        <3>4. Cleared(account[id]) # None
            BY <1>4, <3>2, <3>3, ClearedTyped, NoneIsNoRow
        <3>5. \A i \in Ids : account[i] # None <=> account'[i] # None
            BY <1>1, <3>1, <3>2, <3>3, <3>4 DEF AccountsTypeOK
        <3>6. issued \in Nat /\ issued + 1 \in 1..(issued + 1)
            BY <1>1, AccountsAssumption DEF AccountsTypeOK
        <3>7. \A t \in Tokens : session[t] # None => session[t].login # issued + 1
            BY <1>1, <3>6 DEF SessionsAnchored
        <3>8. session \in [Tokens -> Session \cup {None}]
            BY <1>1 DEF AccountsTypeOK
        <3>9. RevokedFor(issued + 1, session)
            BY <3>7 DEF RevokedFor
        <3> HIDE DEF id, row
        <3> QED
            BY <1>2, <1>3, <3>1, <3>2, <3>3, <3>5, <3>6, <3>8, <3>9, IssueKeeps DEF AccountsAgree
    <2> QED
        BY <2>1, <2>2
<1> QED
    BY <1>2, <1>5, <1>6

LEMMA AgreeAtTokens ==
    ASSUME AccountsIndInv, NEW t \in Tokens
    PROVE  /\ Refresh(t) => AccountsAgree'
           /\ \A T : Logout(T) => AccountsAgree'
           /\ \A id \in Ids : DeleteByAdministrator(t, id) => AccountsAgree'
<1>1. /\ AccountsTypeOK /\ RowsNumbered /\ SessionsAnchored /\ LoginsFound
      /\ OneUnspentPerLogin
    BY DEF AccountsIndInv, TablesAgree
<1>2. session \in [Tokens -> Session \cup {None}] /\ account \in [Ids -> Account \cup {None}]
    BY <1>1 DEF AccountsTypeOK
<1>3. \A u \in Tokens : session[u] # None => session[u].user \in Ids /\ session[u].login \in 1..issued
    BY <1>1, <1>2 DEF Session, SessionsAnchored
<1>4. handler' = handler /\ NamesKept => LoginsFound'
    BY <1>1, LoginsKept
<1>8. UNCHANGED <<account, created>> => NamesKept
    BY <1>1, NamesUntouched
<1>5. ASSUME Refresh(t) PROVE AccountsAgree'
    <2> DEFINE id == session[t].user
               S == Revoke({t})
    <2>1. /\ session[t] # None /\ session[t].kind = "refresh" /\ ~session[t].revoked
          /\ IssueTokens(id, account[id].role, session[t].login, S)
          /\ UNCHANGED <<account, created, handler>>
        BY <1>5 DEF Refresh, Live
    <2>2. id \in Ids /\ account[id] # None /\ session[t].login \in 1..issued
        BY <1>1, <1>3, <2>1 DEF SessionsAnchored
    <2>3. account[id].role \in Roles
        BY <1>2, <2>2 DEF Account
    <2>4. session[t].login \in 1..(issued + 1)
        BY <1>1, <2>2, AccountsAssumption DEF AccountsTypeOK
    <2>5. S \in [Tokens -> Session \cup {None}]
        BY <1>2, RevokeRows
    <2>6. RevokedFor(session[t].login, S)
        <3> SUFFICES ASSUME NEW u \in Tokens, S[u] # None
                     PROVE  /\ session[u] # None
                            /\ S[u].user = session[u].user /\ S[u].kind = session[u].kind
                            /\ S[u].login = session[u].login
                            /\ session[u].revoked => S[u].revoked
                            /\ S[u].kind = "refresh" /\ S[u].login = session[t].login => S[u].revoked
            BY DEF RevokedFor
        <3>1. /\ session[u] # None
              /\ S[u].user = session[u].user /\ S[u].kind = session[u].kind
              /\ S[u].login = session[u].login
              /\ session[u].revoked => S[u].revoked
            BY <1>2, RevokeRows
        <3>2. CASE u = t
            BY <1>2, <3>1, <3>2, RevokeRows
        <3>3. CASE u # t
            BY <1>1, <2>1, <3>1, <3>3 DEF OneUnspentPerLogin, Unspent
        <3> QED
            BY <3>1, <3>2, <3>3
    <2> HIDE DEF id, S
    <2> QED
        BY <1>4, <1>8, <2>1, <2>2, <2>3, <2>4, <2>5, <2>6, IssueKeeps DEF AccountsAgree
<1>6. ASSUME NEW T, Logout(T) PROVE AccountsAgree'
    <2>1. session' = Revoke(T) /\ UNCHANGED <<account, created, issued, handler>>
        BY <1>6 DEF Logout
    <2>2. SessionsFade
        BY <1>1, <2>1, RevokingFades
    <2>3. RowsNumbered' /\ (\A u \in Tokens : session'[u] # None => account'[session[u].user] # None)
        BY <1>1, <2>1, <2>2 DEF RowsNumbered, SessionsAnchored, SessionsFade
    <2> QED
        BY <1>1, <1>4, <1>8, <2>1, <2>2, <2>3, SessionsEnd DEF AccountsAgree
<1>7. ASSUME NEW id \in Ids, DeleteByAdministrator(t, id) PROVE AccountsAgree'
    <2>1. /\ account' = [account EXCEPT ![id] = None]
          /\ session' = [u \in Tokens |-> IF session[u] # None /\ session[u].user = id THEN None
                                          ELSE session[u]]
          /\ UNCHANGED <<created, issued, handler>>
        BY <1>7 DEF DeleteByAdministrator
    <2>2. SessionsFade
        BY <2>1 DEF SessionsFade
    <2>3. RowsNumbered'
        BY <1>1, <1>2, <2>1 DEF RowsNumbered
    <2>4. \A u \in Tokens : session'[u] # None => account'[session[u].user] # None
        BY <1>1, <1>2, <1>3, <2>1 DEF SessionsAnchored
    <2>5. NamesKept
        BY <1>1, <1>2, <2>1, AccountsAssumption DEF NamesKept, AccountsTypeOK
    <2> QED
        BY <1>1, <1>4, <2>1, <2>2, <2>3, <2>4, <2>5, SessionsEnd DEF AccountsAgree
<1> QED
    BY <1>5, <1>6, <1>7

LEMMA AgreeAtAdministration ==
    ASSUME AccountsIndInv, NEW t \in Tokens
    PROVE  /\ \A id \in Ids, r \in Roles : PutRole(t, id, r) => AccountsAgree'
           /\ \A id \in Ids : Unlock(t, id) => AccountsAgree'
           /\ \A h \in Handlers, n \in Names, p \in Passwords, r \in Roles :
                 CreateBegins(h, t, n, p, r) => AccountsAgree'
           /\ \A h \in Handlers, id \in Ids, p \in Passwords, r \in Roles \cup {None} :
                 UpdateBegins(h, t, id, p, r) => AccountsAgree'
<1>0. AccountsTypeOK /\ LoginsFound
    BY DEF AccountsIndInv, TablesAgree
<1>1. \A id \in Ids, data \in AccountChange :
        UpdateByAdministrator(id, data) /\ UNCHANGED <<created, handler>> => LoginsFound'
    BY <1>0, NamesAtUpdate, LoginsKept
<1>2. ASSUME NEW id \in Ids, NEW r \in Roles, PutRole(t, id, r) PROVE AccountsAgree'
    <2>1. [NoChange EXCEPT !.role = r] \in AccountChange
        BY DEF NoChange, AccountChange
    <2>2. UpdateByAdministrator(id, [NoChange EXCEPT !.role = r]) /\ UNCHANGED <<created, issued, handler>>
        BY <1>2 DEF PutRole
    <2> QED
        BY <1>1, <2>1, <2>2, UpdateKeeps DEF AccountsAgree
<1>3. ASSUME NEW id \in Ids, Unlock(t, id) PROVE AccountsAgree'
    <2>1. [NoChange EXCEPT !.unlock = TRUE] \in AccountChange
        BY DEF NoChange, AccountChange
    <2>2. UpdateByAdministrator(id, [NoChange EXCEPT !.unlock = TRUE])
          /\ UNCHANGED <<created, issued, handler>>
        BY <1>3 DEF Unlock
    <2> QED
        BY <1>1, <2>1, <2>2, UpdateKeeps DEF AccountsAgree
<1>4. ASSUME NEW h \in Handlers, NEW n \in Names, NEW p \in Passwords, NEW r \in Roles,
             CreateBegins(h, t, n, p, r)
      PROVE  AccountsAgree'
    <2>1. LoginsFound'
        BY <1>0, <1>4 DEF CreateBegins, LoginsFound, Exists, AccountsTypeOK
    <2> QED
        BY <1>4, <2>1, TablesUntouched DEF CreateBegins, AccountsAgree
<1>5. ASSUME NEW h \in Handlers, NEW id \in Ids, NEW p \in Passwords, NEW r \in Roles \cup {None},
             UpdateBegins(h, t, id, p, r)
      PROVE  AccountsAgree'
    <2>1. LoginsFound'
        BY <1>0, <1>5 DEF UpdateBegins, LoginsFound, Exists, AccountsTypeOK
    <2> QED
        BY <1>5, <2>1, TablesUntouched DEF UpdateBegins, AccountsAgree
<1> QED
    BY <1>2, <1>3, <1>4, <1>5

LEMMA AgreeAtHashed ==
    ASSUME AccountsIndInv, NEW h \in Handlers
    PROVE  /\ \A n \in Names, p \in Passwords, i \in Ips : LoginBegins(h, n, p, i) => AccountsAgree'
           /\ CreateEnds(h) => AccountsAgree'
           /\ UpdateEnds(h) => AccountsAgree'
<1>0. AccountsTypeOK /\ LoginsFound /\ RowsNumbered
    BY DEF AccountsIndInv, TablesAgree
<1>1. ASSUME NEW n \in Names, NEW p \in Passwords, NEW i \in Ips, LoginBegins(h, n, p, i)
      PROVE  AccountsAgree'
    <2> DEFINE row == IF Named(n) = {} THEN None ELSE CHOOSE j \in Named(n) : TRUE
               r == [op |-> "login", id |-> row, tried |-> p,
                     row |-> IF row = None THEN None ELSE account[row]]
    <2>1. r.row # None => r.id \in Ids /\ r.id <= created /\ r.row = account[r.id]
        BY <1>0 DEF Named, Registered, RowsNumbered
    <2>2. handler' = handler \/ handler' = [handler EXCEPT ![h] = r]
        BY <1>1 DEF LoginBegins
    <2> HIDE DEF r
    <2>3. LoginsFound'
        BY <1>0, <1>1, <2>1, <2>2 DEF LoginBegins, LoginsFound, Exists, AccountsTypeOK
    <2> QED
        BY <1>1, <2>3, TablesUntouched DEF LoginBegins, AccountsAgree
<1>2. ASSUME CreateEnds(h) PROVE AccountsAgree'
    <2>1. NamesKept
        BY <1>0, <1>2, NamesAtInsert, NamesUntouched DEF CreateEnds
    <2>5. LoginsFound'
        BY <1>0, <1>2, <2>1, LoginsKept DEF CreateEnds
    <2>2. handler[h].name \in Names /\ handler[h].password \in Passwords /\ handler[h].role \in Roles
        BY <1>0, <1>2, RequestTyped DEF CreateEnds
    <2>3. CASE UNCHANGED <<account, created>>
        BY <1>2, <2>5, <2>3, TablesUntouched DEF CreateEnds, AccountsAgree
    <2>4. CASE Insert(handler[h].name, handler[h].password, handler[h].role)
        BY <1>2, <2>5, <2>2, <2>4, InsertKeeps DEF CreateEnds, AccountsAgree
    <2> QED
        BY <1>2, <2>3, <2>4 DEF CreateEnds
<1>3. ASSUME UpdateEnds(h) PROVE AccountsAgree'
    <2>2. handler[h].id \in Ids /\ handler[h].data \in AccountChange
        BY <1>0, <1>3, RequestTyped DEF UpdateEnds
    <2>3. UpdateByAdministrator(handler[h].id, handler[h].data) /\ UNCHANGED <<created, issued>>
        BY <1>3 DEF UpdateEnds
    <2>1. LoginsFound'
        BY <1>0, <1>3, <2>2, <2>3, NamesAtUpdate, LoginsKept DEF UpdateEnds
    <2> QED
        BY <2>1, <2>2, <2>3, UpdateKeeps DEF AccountsAgree
<1> QED
    BY <1>1, <1>2, <1>3

LEMMA AgreeAtBoot ==
    ASSUME AccountsIndInv, NEW b \in Boots
    PROVE  /\ \A env \in Environments, force \in BOOLEAN : BootBegins(b, env, force) => AccountsAgree'
           /\ BootEnds(b) => AccountsAgree'
<1>0. AccountsTypeOK /\ LoginsFound /\ RowsNumbered /\ SessionsAnchored
    BY DEF AccountsIndInv, TablesAgree
<1>1. handler' = handler /\ NamesKept => LoginsFound'
    BY <1>0, LoginsKept
<1>4. UNCHANGED <<account, created>> => NamesKept
    BY <1>0, NamesUntouched
<1>2. ASSUME NEW env \in Environments, NEW force \in BOOLEAN, BootBegins(b, env, force)
      PROVE  AccountsAgree'
    BY <1>1, <1>2, <1>4, TablesUntouched DEF BootBegins, AccountsAgree
<1>3. ASSUME BootEnds(b) PROVE AccountsAgree'
    <2>1. boot[b] # None /\ UNCHANGED <<issued, handler>>
        BY <1>3 DEF BootEnds
    <2>2. boot[b].name \in Names /\ boot[b].password \in Passwords
        BY <1>0, <2>1, BootTyped
    <2>3. CASE Overtaken(b)
        BY <1>1, <1>3, <1>4, <2>1, <2>3, TablesUntouched DEF BootEnds, AccountsAgree
    <2>4. CASE ~Overtaken(b) /\ Named(boot[b].name) = {}
        <3>1. Insert(boot[b].name, boot[b].password, "super_admin") /\ UNCHANGED session
            BY <1>3, <2>4 DEF BootEnds
        <3> QED
            BY <1>0, <1>1, <2>1, <2>2, <3>1, NamesAtInsert, InsertKeeps DEF AccountsAgree
    <2>5. CASE ~Overtaken(b) /\ Named(boot[b].name) # {}
        <3> DEFINE id == CHOOSE i \in Named(boot[b].name) : TRUE
                   row == NewAccount(boot[b].name, boot[b].password, "super_admin")
        <3>1. Recover(b)
            BY <1>3, <2>5 DEF BootEnds
        <3>2. id \in Ids /\ account[id] # None
            BY <2>5 DEF Named, Registered, Exists
        <3>3. row # None /\ row.name = account[id].name
            BY <2>2, <2>5, NewAccountTyped, NoneIsNoRow DEF NewAccount, Named
        <3>4. account' = [account EXCEPT ![id] = row] /\ RevokeSessions(id) /\ UNCHANGED created
            BY <3>1 DEF Recover
        <3> HIDE DEF id, row
        <3>5. \A i \in Ids : account[i] # None <=> account'[i] # None
            BY <1>0, <3>2, <3>3, <3>4 DEF AccountsTypeOK
        <3>6. RowsNumbered'
            BY <1>0, <3>4, <3>5 DEF RowsNumbered
        <3>7. \A t \in Tokens : session[t] # None => session[t].user \in Ids
            BY <1>0 DEF AccountsTypeOK, Session
        <3>8. \A t \in Tokens : session'[t] # None => account'[session[t].user] # None
            BY <1>0, <3>4, <3>5, <3>7, RevokedAccount DEF SessionsAnchored, SessionsFade
        <3>9. NamesKept
            BY <1>0, <3>2, <3>3, <3>4, RowRewritten
        <3> QED
            BY <1>1, <2>1, <3>4, <3>6, <3>8, <3>9, RevokedAccount, SessionsEnd DEF AccountsAgree
    <2> QED
        BY <2>3, <2>4, <2>5
<1> QED
    BY <1>2, <1>3

LEMMA AccountsInductive ==
    ASSUME AccountsIndInv, [AccountsNext]_accountVars
    PROVE  AccountsIndInv'
<1>1. AccountsTypeOK /\ TablesAgree /\ LoginsFound
    BY DEF AccountsIndInv, TablesAgree
<1>2. AccountsTypeOK'
    BY <1>1, TypesKept
<1>3. ASSUME NEW h \in Handlers, HandlerStep(h) PROVE AccountsAgree'
    BY <1>3, AgreeAtLogin, AgreeAtAdministration, AgreeAtHashed DEF HandlerStep
<1>4. ASSUME NEW t \in Tokens, TokenStep(t) PROVE AccountsAgree'
    BY <1>4, AgreeAtTokens, AgreeAtAdministration DEF TokenStep
<1>5. ASSUME NEW b \in Boots, BootStep(b) PROVE AccountsAgree'
    BY <1>5, AgreeAtBoot DEF BootStep
<1>6. ASSUME Restart PROVE AccountsAgree'
    BY <1>1, <1>6, TablesUntouched DEF Restart, LoginsFound, Exists, AccountsAgree
<1>7. ASSUME ClockTicks PROVE AccountsAgree'
    BY <1>1, <1>7, TablesUntouched DEF ClockTicks, LoginsFound, Exists, AccountsAgree
<1>8. ASSUME UNCHANGED accountVars PROVE AccountsAgree'
    BY <1>1, <1>8, TablesUntouched DEF accountVars, LoginsFound, Exists, AccountsAgree
<1>9. AccountsAgree'
    BY <1>3, <1>4, <1>5, <1>6, <1>7, <1>8 DEF AccountsNext
<1> QED
    BY <1>2, <1>9 DEF AccountsAgree, AccountsIndInv

LEMMA AccountsStart == AccountsInit => AccountsIndInv
<1> SUFFICES ASSUME AccountsInit PROVE AccountsIndInv
    OBVIOUS
<1>1. AccountsTypeOK
    BY AccountsAssumption DEF AccountsInit, AccountsTypeOK
<1>2. TablesAgree
    BY DEF AccountsInit, TablesAgree, RowsNumbered, SessionsAnchored, LoginsFound
<1>3. OneUnspentPerLogin
    BY DEF AccountsInit, OneUnspentPerLogin, Unspent
<1> QED
    BY <1>1, <1>2, <1>3 DEF AccountsIndInv

(***************************************************************************)
(* The tables agree and keep their types in every reachable state.         *)
(***************************************************************************)
THEOREM AccountsInvariant == AccountsSpec => []AccountsIndInv
<1>1. AccountsInit => AccountsIndInv
    BY AccountsStart
<1>2. AccountsIndInv /\ [AccountsNext]_accountVars => AccountsIndInv'
    BY AccountsInductive
<1> QED
    BY <1>1, <1>2, PTL DEF AccountsSpec

(***************************************************************************)
(* The tokens of a login are for the account whose row it read, however    *)
(* many accounts were deleted and created while it hashed                  *)
(* (auth/index.ts:279-304): a number is never given twice.                 *)
(***************************************************************************)
THEOREM LoginStaysWithItsAccount == AccountsSpec => LoginIsOfItsAccount
<1>1. ASSUME AccountsIndInv, [AccountsNext]_accountVars
      PROVE  [\A h \in Handlers : LogsIn(h) =>
                Exists(handler[h].id) /\ account[handler[h].id].name = handler[h].row.name]_accountVars
    <2> SUFFICES ASSUME AccountsNext, NEW h \in Handlers, LogsIn(h)
                 PROVE  Exists(handler[h].id) /\ account[handler[h].id].name = handler[h].row.name
        BY <1>1 DEF accountVars, LogsIn
    <2>1. AccountsTypeOK /\ LoginsFound /\ handler[h] # None /\ handler[h].op = "login"
          /\ handler'[h] = None /\ issued' # issued
        BY <1>1 DEF AccountsIndInv, TablesAgree, LogsIn
    <2>2. \E g \in Handlers : LoginEnds(g)
        <3>1. ASSUME NEW g \in Handlers, HandlerStep(g), ~LoginEnds(g) PROVE issued' = issued
            BY <3>1 DEF HandlerStep, LoginBegins, CreateBegins, UpdateBegins, CreateEnds, UpdateEnds
        <3>2. ASSUME NEW t \in Tokens, TokenStep(t) PROVE handler' = handler
            BY <3>2 DEF TokenStep, Refresh, Logout, PutRole, Unlock, DeleteByAdministrator
        <3>3. ASSUME NEW b \in Boots, BootStep(b) PROVE issued' = issued
            BY <3>3 DEF BootStep, BootBegins, BootEnds
        <3>4. Restart \/ ClockTicks => issued' = issued
            BY DEF Restart, ClockTicks
        <3> QED
            BY <2>1, <3>1, <3>2, <3>3, <3>4 DEF AccountsNext
    <2>3. PICK g \in Handlers : LoginEnds(g)
        BY <2>2
    <2>4. g = h /\ LoginSucceeds(h)
        BY <2>1, <2>3 DEF LoginEnds, LoginFails, AccountsTypeOK
    <2>5. handler[h].row # None /\ Exists(handler[h].id)
        BY <2>1, <2>4 DEF LoginSucceeds, Accepted
    <2> QED
        BY <2>1, <2>5 DEF LoginsFound
<1> QED
    BY <1>1, AccountsInvariant, PTL DEF AccountsSpec, LoginIsOfItsAccount

(***************************************************************************)
(* Of all tokens that descend from one login, one refresh token is good    *)
(* (auth/index.ts:313): the invariant is about unspent ones, expired or    *)
(* not, since a purge may remove either first.                             *)
(***************************************************************************)
THEOREM OneRefresh == AccountsSpec => []OneRefreshPerLogin
<1>1. AccountsIndInv => OneRefreshPerLogin
    BY DEF AccountsIndInv, OneUnspentPerLogin, OneRefreshPerLogin, Unspent, Live
<1> QED
    BY <1>1, AccountsInvariant, PTL

-----------------------------------------------------------------------------
(* The last usable super administrator.                                    *)
OnlyLockedOut ==
    UsableSuperAdmins # {} /\ UsableSuperAdmins' = {} => \E i \in UsableSuperAdmins : LockedOut(i)

(* A row that a step leaves usable stands in the way of an empty table. *)
LEMMA Survivor ==
    ASSUME NEW j \in Ids, account'[j] # None, account'[j].role = "super_admin",
           account'[j].password # None, ~(clock' < account'[j].locked)
    PROVE  UsableSuperAdmins' # {}
BY DEF UsableSuperAdmins, UsableSuperAdmin, Locked, Registered, Exists

LEMMA Usable ==
    ASSUME NEW j
    PROVE  j \in UsableSuperAdmins <=>
             /\ j \in Ids /\ account[j] # None /\ account[j].role = "super_admin"
             /\ account[j].password # None /\ ~(clock < account[j].locked)
BY DEF UsableSuperAdmins, UsableSuperAdmin, Locked, Registered, Exists

(* A step that writes one row at most strands nobody but that row's owner. *)
LEMMA OneRowWritten ==
    ASSUME AccountsTypeOK, NEW id, NEW row, clock' = clock, account' = [account EXCEPT ![id] = row],
           UsableSuperAdmins' = {}
    PROVE  \A j \in UsableSuperAdmins : j = id
<1> SUFFICES ASSUME NEW j \in UsableSuperAdmins, j # id PROVE FALSE
    OBVIOUS
<1>1. account'[j] = account[j]
    BY Usable DEF AccountsTypeOK
<1> QED
    BY <1>1, Usable, Survivor

LEMMA StandsUnwritten ==
    ASSUME UNCHANGED <<clock, account>>
    PROVE  OnlyLockedOut
BY DEF OnlyLockedOut, UsableSuperAdmins, UsableSuperAdmin, Locked, Registered, Exists

LEMMA StandsAtLogin ==
    ASSUME AccountsIndInv, NEW h \in Handlers, LoginEnds(h)
    PROVE  OnlyLockedOut
<1> DEFINE id == handler[h].id
<1> SUFFICES ASSUME NEW j \in UsableSuperAdmins, UsableSuperAdmins' = {}
             PROVE  LockedOut(j)
    BY DEF OnlyLockedOut
<1>1. AccountsTypeOK /\ clock' = clock /\ (LoginFails(h) \/ LoginSucceeds(h)) /\ clock \in Nat
    BY AccountsAssumption DEF AccountsIndInv, LoginEnds, AccountsTypeOK
<1>2. /\ j \in Ids /\ account[j] \in Account /\ account[j].role = "super_admin"
      /\ account[j].password # None /\ ~(clock < account[j].locked)
    BY <1>1, Usable DEF AccountsTypeOK
<1>3. CASE account' = account
    BY <1>1, <1>3, Usable, Survivor
<1>4. CASE account' # account /\ LoginFails(h)
    <2>1. account' = [account EXCEPT ![id] = Failed(account[id])]
        BY <1>4 DEF LoginFails
    <2>2. j = id
        BY <1>1, <2>1, OneRowWritten
    <2>3. account'[j] = Failed(account[j])
        BY <1>1, <1>2, <2>1, <2>2 DEF AccountsTypeOK
    <2>4. Failed(account[j]) \in Account
        BY <1>1, <1>2, FailedTyped
    <2>5. /\ Failed(account[j]).role = account[j].role /\ Failed(account[j]).password = account[j].password
          /\ Failed(account[j]).locked =
                IF account[j].attempts + 1 >= MaxAttempts THEN clock + LockTtl ELSE account[j].locked
        BY <1>2 DEF Failed, Account
    <2>6. account[j].attempts + 1 >= MaxAttempts
        BY <1>1, <1>2, <2>3, <2>4, <2>5, NoneIsNoRow, Survivor
    <2>7. Min({account[j].attempts + 1, MaxAttempts}) = MaxAttempts
        BY <1>2, <2>6, MinOfTwo, AccountsAssumption DEF Account
    <2> QED
        BY <2>3, <2>6, <2>7 DEF Failed, LockedOut
<1>5. CASE account' # account /\ LoginSucceeds(h)
    <2>1. account' = [account EXCEPT ![id] = Cleared(account[id])]
        BY <1>5 DEF LoginSucceeds
    <2>2. j = id
        BY <1>1, <2>1, OneRowWritten
    <2>3. account'[j] = Cleared(account[j]) /\ Cleared(account[j]) \in Account
        BY <1>1, <1>2, <2>1, <2>2, ClearedTyped DEF AccountsTypeOK
    <2>4. /\ Cleared(account[j]).role = account[j].role /\ Cleared(account[j]).password = account[j].password
          /\ Cleared(account[j]).locked = 0
        BY <1>2 DEF Cleared, Account
    <2> QED
        BY <1>1, <1>2, <2>3, <2>4, NoneIsNoRow, Survivor
<1> QED
    BY <1>1, <1>3, <1>4, <1>5

LEMMA StandsAtUpdate ==
    ASSUME AccountsIndInv, NEW id \in Ids, NEW data \in AccountChange,
           UpdateByAdministrator(id, data), clock' = clock
    PROVE  OnlyLockedOut
<1>1. AccountsTypeOK
    BY DEF AccountsIndInv
<1>2. CASE UNCHANGED account
    BY <1>2, StandsUnwritten
<1>3. CASE ~UNCHANGED account
    <2> DEFINE row == Projected(account[id], data)
    <2>1. account' = [account EXCEPT ![id] = row] /\ ~StrandsAdministration(id, row) /\ row \in Account
        BY <1>1, <1>3, UpdateEffect
    <2> HIDE DEF row
    <2> SUFFICES ASSUME UsableSuperAdmins # {}, UsableSuperAdmins' = {} PROVE FALSE
        BY DEF OnlyLockedOut
    <2>2. \A j \in UsableSuperAdmins : j = id
        BY <1>1, <2>1, OneRowWritten
    <2>3. UsableSuperAdmins \subseteq {id} /\ UsableSuperAdmin(account[id])
        BY <2>2 DEF UsableSuperAdmins
    <2>4. UsableSuperAdmin(row) /\ account'[id] = row /\ row # None
        BY <1>1, <2>1, <2>3, NoneIsNoRow DEF StrandsAdministration, AccountsTypeOK
    <2> QED
        BY <2>4, Survivor DEF UsableSuperAdmin, Locked
<1> QED
    BY <1>2, <1>3

LEMMA StandsAtInsert ==
    ASSUME AccountsIndInv, NEW n, NEW p, NEW r, Insert(n, p, r), clock' = clock
    PROVE  OnlyLockedOut
<1> SUFFICES ASSUME NEW j \in UsableSuperAdmins, UsableSuperAdmins' = {} PROVE FALSE
    BY DEF OnlyLockedOut
<1>1. AccountsTypeOK /\ RowsNumbered
    BY DEF AccountsIndInv, TablesAgree
<1>2. j = created + 1
    BY <1>1, OneRowWritten DEF Insert
<1>3. j <= created /\ created \in Nat
    BY <1>1, Usable, AccountsAssumption DEF RowsNumbered, AccountsTypeOK
<1> QED
    BY <1>2, <1>3

LEMMA StandsAtBoot ==
    ASSUME AccountsIndInv, NEW b \in Boots, BootEnds(b)
    PROVE  OnlyLockedOut
<1>1. clock' = clock
    BY DEF BootEnds
<1>2. CASE Overtaken(b)
    BY <1>1, <1>2, StandsUnwritten DEF BootEnds
<1>3. CASE ~Overtaken(b)
    BY <1>3 DEF Overtaken, OnlyLockedOut, UsableSuperAdmins
<1> QED
    BY <1>2, <1>3

LEMMA OnlyLoginsStrand ==
    ASSUME AccountsIndInv, [AccountsNext]_accountVars
    PROVE  OnlyLockedOut
<1>1. AccountsTypeOK
    BY DEF AccountsIndInv
<1>2. ASSUME NEW h \in Handlers, HandlerStep(h) PROVE OnlyLockedOut
    <2>1. CASE LoginEnds(h)
        BY <2>1, StandsAtLogin
    <2>2. CASE CreateEnds(h)
        BY <2>2, StandsUnwritten, StandsAtInsert DEF CreateEnds
    <2>3. CASE UpdateEnds(h)
        BY <1>1, <2>3, RequestTyped, StandsAtUpdate DEF UpdateEnds
    <2>4. CASE \E n \in Names, p \in Passwords, i \in Ips : LoginBegins(h, n, p, i)
        BY <2>4, StandsUnwritten DEF LoginBegins
    <2>5. CASE \E t \in Tokens, n \in Names, p \in Passwords, r \in Roles : CreateBegins(h, t, n, p, r)
        BY <2>5, StandsUnwritten DEF CreateBegins
    <2>6. CASE \E t \in Tokens, i \in Ids, p \in Passwords, r \in Roles \cup {None} :
                  UpdateBegins(h, t, i, p, r)
        BY <2>6, StandsUnwritten DEF UpdateBegins
    <2> QED
        BY <1>2, <2>1, <2>2, <2>3, <2>4, <2>5, <2>6 DEF HandlerStep
<1>3. ASSUME NEW t \in Tokens, TokenStep(t) PROVE OnlyLockedOut
    <2>1. CASE Refresh(t)
        BY <2>1, StandsUnwritten DEF Refresh
    <2>2. CASE \E u \in Tokens : Logout({t, u})
        BY <2>2, StandsUnwritten DEF Logout
    <2>3. ASSUME NEW i \in Ids, NEW r \in Roles, PutRole(t, i, r) PROVE OnlyLockedOut
        <3>1. [NoChange EXCEPT !.role = r] \in AccountChange
            BY DEF NoChange, AccountChange
        <3> QED
            BY <2>3, <3>1, StandsAtUpdate DEF PutRole
    <2>4. ASSUME NEW i \in Ids, Unlock(t, i) PROVE OnlyLockedOut
        <3>1. [NoChange EXCEPT !.unlock = TRUE] \in AccountChange
            BY DEF NoChange, AccountChange
        <3> QED
            BY <2>4, <3>1, StandsAtUpdate DEF Unlock
    <2>5. ASSUME NEW i \in Ids, DeleteByAdministrator(t, i) PROVE OnlyLockedOut
        <3> SUFFICES ASSUME UsableSuperAdmins # {}, UsableSuperAdmins' = {} PROVE FALSE
            BY DEF OnlyLockedOut
        <3>1. /\ account' = [account EXCEPT ![i] = None] /\ clock' = clock
              /\ ~(UsableSuperAdmin(account[i]) /\ UsableSuperAdmins = {i})
            BY <2>5 DEF DeleteByAdministrator
        <3>2. \A j \in UsableSuperAdmins : j = i
            BY <1>1, <3>1, OneRowWritten
        <3> QED
            BY <3>1, <3>2 DEF UsableSuperAdmins
    <2> QED
        BY <1>3, <2>1, <2>2, <2>3, <2>4, <2>5 DEF TokenStep
<1>4. ASSUME NEW b \in Boots, BootStep(b) PROVE OnlyLockedOut
    BY <1>4, StandsAtBoot, StandsUnwritten DEF BootStep, BootBegins
<1>5. ASSUME Restart PROVE OnlyLockedOut
    BY <1>5, StandsUnwritten DEF Restart
<1>6. ASSUME ClockTicks PROVE OnlyLockedOut
    <2> SUFFICES ASSUME NEW j \in UsableSuperAdmins, UsableSuperAdmins' = {} PROVE FALSE
        BY DEF OnlyLockedOut
    <2>1. clock \in Nat /\ clock' = clock + 1 /\ account' = account
        BY <1>1, <1>6, AccountsAssumption DEF ClockTicks, AccountsTypeOK
    <2>2. account[j] \in Account /\ account[j].locked \in Nat
        BY <1>1, Usable DEF AccountsTypeOK, Account
    <2> QED
        BY <2>1, <2>2, Usable, Survivor
<1>7. ASSUME UNCHANGED accountVars PROVE OnlyLockedOut
    BY <1>7, StandsUnwritten DEF accountVars
<1> QED
    BY <1>2, <1>3, <1>4, <1>5, <1>6, <1>7 DEF AccountsNext

(***************************************************************************)
(* No administrator, boot or restart, in whatever order their requests     *)
(* hash and write, takes the last usable super administrator away: that    *)
(* takes a failed login that locks the row (user.ts:196-210, 248-255).     *)
(***************************************************************************)
THEOREM LastAdministrator == AccountsSpec => LastAdminStands
<1>1. AccountsIndInv /\ [AccountsNext]_accountVars => OnlyLockedOut
    BY OnlyLoginsStrand
<1>2. AccountsIndInv /\ [AccountsNext]_accountVars => [OnlyLockedOut]_accountVars
    BY <1>1
<1> QED
    BY <1>2, AccountsInvariant, PTL DEF AccountsSpec, LastAdminStands, OnlyLockedOut
=============================================================================
