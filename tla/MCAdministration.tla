--------------------------- MODULE MCAdministration ---------------------------
(***************************************************************************)
(* Small instances of what administrators and boots do to an installation: *)
(* accounts and sessions, the configuration, an older configuration file   *)
(* and the self-update.  A behaviour is of one scene, chosen at its start; *)
(* what the scene does not concern stands still.                           *)
(***************************************************************************)
EXTENDS Accounts, Configuration, SelfUpdate, LegacyConfig, Sequences, TLC

CONSTANTS other, third, p1, p2, h1, h2, b1, b2,
          g1, good, slow, bad, f1, k1, mask, n1, s1,
          fa, fb, d1, plain, token, proto

VARIABLE scene

administrationVars == <<accountVars, configVars, updateVars, legacyVars, scene>>

-----------------------------------------------------------------------------
(* Accounts.  "admins": two super administrators with a token each, who    *)
(* change, unlock, demote and delete accounts while the first logs in, or  *)
(* fails to, and refreshes.  "logins": one account, whose tokens are       *)
(* refreshed and revoked.  "bootstrap": an empty table, two boots, and     *)
(* what the first administrator does.  "turnover": an account is deleted   *)
(* and another created while the deleted one logs in.                      *)
MCEnvironments == {None, [name |-> AdminName, password |-> p2]}

AccessToken(i) == [user |-> i, kind |-> "access", role |-> "super_admin", expires |-> 9,
                   revoked |-> FALSE, login |-> i]

TwoAdministrators ==
    /\ created = 2 /\ issued = 2
    /\ account = [i \in Ids |-> CASE i = 1 -> NewAccount(AdminName, p1, "super_admin")
                                  [] i = 2 -> NewAccount(other, p1, "super_admin")
                                  [] OTHER -> None]
    /\ session = [t \in Tokens |-> IF t <= 2 THEN AccessToken(t) ELSE None]

OneAccount ==
    /\ created = 1 /\ issued = 0
    /\ account = [i \in Ids |-> IF i = 1 THEN NewAccount(AdminName, p1, "super_admin") ELSE None]
    /\ session = [t \in Tokens |-> None]

NoAccount ==
    /\ created = 0 /\ issued = 0
    /\ account = [i \in Ids |-> None] /\ session = [t \in Tokens |-> None]

AccountsStart ==
    /\ CASE scene \in {"admins", "turnover"} -> TwoAdministrators
         [] scene = "logins" -> OneAccount
         [] OTHER            -> NoAccount
    /\ clock = 0 /\ file = None
    /\ bucket = [k \in BucketKeys |-> [attempts |-> 0, resetAt |-> 0]]
    /\ handler = [h \in Handlers |-> None] /\ boot = [b \in Boots |-> None]

(* The operation a request has in flight after the step. *)
Op(h) == IF handler'[h] = None THEN "none" ELSE handler'[h].op

Administrators ==
    /\ created' = 2 /\ boot' = boot /\ clock' <= 1 /\ issued' <= 4
    /\ Op(h1) \in {"none", "login", "update"} /\ Op(h2) \in {"none", "update"}
    /\ Op(h1) = "login" => handler'[h1].id = 1 /\ handler'[h1].tried = p2
    /\ \A h \in Handlers :
          Op(h) = "update" => handler'[h].data.password = p2 /\ handler'[h].data.role = "viewer"
    /\ bucket'[<<"account", other>>] = bucket[<<"account", other>>]

Logins ==
    /\ created' = 1 /\ boot' = boot /\ account'[1].role = account[1].role
    /\ \A h \in Handlers : Op(h) \in {"none", "login"}
    /\ bucket'[<<"account", other>>] = bucket[<<"account", other>>]

Bootstraps ==
    /\ issued' <= 2 /\ created' <= 2
    /\ Op(h1) \in {"none", "login", "create"} /\ Op(h2) \in {"none", "create"}
    /\ \A h \in Handlers : Op(h) = "create" =>
          /\ handler'[h].role = "viewer" /\ handler'[h].password = p1
          /\ boot = [b \in Boots |-> None]
    /\ Op(h1) = "login" => handler'[h1].id # None
    /\ clock' = clock \/ handler[h1] = None
    /\ issued' = issued /\ session' # session => account' # account

(* The second administrator logs in and is deleted, a third one is created. *)
Turnover ==
    /\ boot' = boot /\ clock' = clock /\ issued' <= 4
    /\ Op(h1) \in {"none", "login"} /\ Op(h2) \in {"none", "create"}
    /\ Op(h1) = "login" => handler'[h1].id = 2 /\ handler'[h1].tried = p1
    /\ Op(h2) = "create" => handler'[h2].name = third /\ handler'[h2].password = p1
    /\ bucket'[<<"account", AdminName>>] = bucket[<<"account", AdminName>>]

NoThird ==
    /\ bucket'[<<"account", third>>] = bucket[<<"account", third>>]
    /\ \A h \in Handlers : Op(h) = "create" => handler'[h].name # third

AccountsScene ==
    \/ scene = "admins" /\ Administrators /\ NoThird
    \/ scene = "logins" /\ Logins /\ NoThird
    \/ scene = "bootstrap" /\ Bootstraps /\ NoThird
    \/ scene = "turnover" /\ Turnover

-----------------------------------------------------------------------------
(* Configuration: bodies that are valid, ill typed, that name a pattern    *)
(* the structural check or the worker rejects, that pin a feed or do not,  *)
(* and that carry a key or the mask in its place.                          *)
MCBodies ==
    {[self |-> s1, risk |-> FALSE], [risk |-> FALSE], [risk |-> Bad],
     [key |-> mask, risk |-> TRUE], [key |-> k1],
     [mode |-> "enforce"], [feeds |-> {f1}, pins |-> {f1}], [feeds |-> {}],
     [groups |-> g1 :> [patterns |-> {slow}]], [groups |-> g1 :> [patterns |-> {good}]],
     [groups |-> g1 :> [patterns |-> {bad}, start |-> "07:00"]]}

MCGroupBodies ==
    {[start |-> "07:00"], [end |-> "23:00"], [patterns |-> {good}, risk |-> FALSE],
     [patterns |-> {slow}]}

(* Older files: every combination of what the conversion looks at, with an *)
(* unknown field, or one beside a harmless one.                            *)
MCLegacy ==
    {s \in [wrapped : BOOLEAN, version : Version, flag : {"absent", "true", "'true'", "junk"},
            retired : {{}, {"threshold"}}, action : {Missing, "off", "bogus"},
            detectors : {Missing, [d \in {d1} |-> TRUE], [d \in {d1} |-> Missing]},
            detectorActions : {Missing, [d \in {d1} |-> "kick"]},
            unknown : {{}, {<<"group", token>>}, {<<"wrapper", plain>>},
                       {<<"group", plain>>, <<"group", proto>>},
                       {<<"group", plain>>, <<"wrapper", plain>>}},
            extensions : {{}}] : s.version # "older" \/ s.flag # "absent"}

SomeFile == content = CHOOSE s \in Legacy : TRUE

(* Releases: attested, not attested, a failed attestation, and an archive  *)
(* whose entries overlap.                                                  *)
EntryOf(f, start, size) ==
    [name |-> f, local |-> f, start |-> start, size |-> size, sound |-> TRUE]
ReleaseArchive(v, attestation, second) ==
    [release |-> v, attested |-> attestation, directory |-> 4,
     entries |-> <<EntryOf(fa, 0, 2), EntryOf(fb, second, 2)>>]

MCArchives ==
    {ReleaseArchive(1, "verified", 2), ReleaseArchive(2, "none", 2),
     ReleaseArchive(1, "mismatch", 2), ReleaseArchive(1, "none", 1)}

OneRelease ==
    published = [v \in Versions |->
        LET a == IF v = 1 THEN ReleaseArchive(1, "verified", 2) ELSE Nil
        IN  [archive |-> a, checksum |-> a]]

-----------------------------------------------------------------------------
AdministrationInit ==
    /\ scene \in {"admins", "logins", "bootstrap", "turnover", "configuration", "update", "legacy"}
    /\ scene # "update" => OneRelease
    /\ scene # "legacy" => SomeFile
    /\ AccountsStart /\ ConfigInit /\ UpdateInit /\ LegacyInit

AdministrationNext ==
    \/ AccountsNext /\ AccountsScene /\ UNCHANGED <<configVars, updateVars, legacyVars, scene>>
    \/ scene = "configuration" /\ ConfigNext /\ UNCHANGED <<accountVars, updateVars, legacyVars, scene>>
    \/ scene = "update" /\ UpdateNext /\ UNCHANGED <<accountVars, configVars, legacyVars, scene>>
    \/ scene = "legacy" /\ LegacyNext /\ UNCHANGED <<accountVars, configVars, updateVars, scene>>

AdministrationSpec == AdministrationInit /\ [][AdministrationNext]_administrationVars
=============================================================================
