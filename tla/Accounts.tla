------------------------------ MODULE Accounts ------------------------------
(***************************************************************************)
(* The auth module's records: users, roles and their permissions, API      *)
(* keys, refresh tokens, and the seed that every deployment runs first.    *)
(*                                                                         *)
(* Taken apart are the seed (one statement after another, it may die and   *)
(* is run again), the replacement of a role's permissions (a delete, then  *)
(* an insert) and the rotation of a refresh token (a query, then a         *)
(* transaction).  Hashes, signatures and the guards are left out.          *)
(***************************************************************************)
EXTENDS Integers

CONSTANTS
    Users, Roles, Admin,    \* Admin: the role called DEFAULT_ADMIN_ROLE_NAME
    DefaultPermissions, ApiKeys, Tokens,
    AccountCalls,           \* calls under way at a time
    MaxAccountEdits         \* bound: requests

ASSUME AdminAssumption == Admin \in Roles

VARIABLES
    user,               \* the rows of users: is each active?
    role,               \* the rows of roles
    permission,         \* the rows of permissions
    granted,            \* role_permissions
    assigned,           \* user_roles
    apiKey,             \* api_keys with their api_key_permissions
    token,              \* refresh_tokens
    accountCall,        \* calls under way
    replaced,           \* ghost: the admin role's permissions were replaced
    seeded,             \* ghost: a seed has finished
    accountEdits

accountVars == <<user, role, permission, granted, assigned, apiKey, token, accountCall,
                 replaced, seeded, accountEdits>>

NoUser == "none"
NoKey == [at |-> "none"]
KeyRow == [at : {"live", "revoked"}, owner : Users, scope : SUBSET DefaultPermissions]
NoToken == [at |-> "none"]
TokenRow == [at : {"live", "revoked", "expired"}, owner : Users,
             replacedBy : Tokens \cup {"none"}]

IdleAccountCall == [at |-> "idle"]

AccountsInit ==
    /\ user = [u \in Users |-> NoUser]
    /\ role = {} /\ permission = {} /\ granted = {} /\ assigned = {}
    /\ apiKey = [k \in ApiKeys |-> NoKey]
    /\ token = [t \in Tokens |-> NoToken]
    /\ accountCall = [c \in AccountCalls |-> IdleAccountCall]
    /\ replaced = FALSE /\ seeded = FALSE
    /\ accountEdits = 0

roleVars == <<role, permission, granted, assigned>>
ghostVars == <<replaced, seeded>>

AccountEdit ==
    /\ accountEdits < MaxAccountEdits
    /\ accountEdits' = accountEdits + 1

StartAccount(c, call) ==
    /\ accountCall[c] = IdleAccountCall
    /\ AccountEdit
    /\ accountCall' = [accountCall EXCEPT ![c] = call]

GoAccount(c, call) ==
    /\ accountCall' = [accountCall EXCEPT ![c] = call]
    /\ UNCHANGED accountEdits

-----------------------------------------------------------------------------
(***************************************************************************)
(* seedAuth: the admin role, then each default permission and its link.    *)
(* What exists is left alone, so that it may be run again and again.       *)
(***************************************************************************)
SeedRole(c) ==
    /\ StartAccount(c, [at |-> "seed", todo |-> DefaultPermissions])
    /\ role' = role \cup {Admin}
    /\ UNCHANGED <<user, permission, granted, assigned, apiKey, token, ghostVars>>

\* Wrong on purpose: only a permission that is new is linked.
SeedNewPermission(c) ==
    /\ accountCall[c].at = "seed"
    /\ \E p \in accountCall[c].todo :
           /\ permission' = permission \cup {p}
           /\ GoAccount(c, IF p \in permission THEN [accountCall[c] EXCEPT !.todo = @ \ {p}]
                ELSE [at |-> "link", todo |-> accountCall[c].todo \ {p}, key |-> p])
    /\ UNCHANGED <<user, role, granted, assigned, apiKey, token, ghostVars>>

SeedPermission(c) ==
    /\ accountCall[c].at = "seed"
    /\ \E p \in accountCall[c].todo :
           /\ permission' = permission \cup {p}
           /\ GoAccount(c, [at |-> "link", todo |-> accountCall[c].todo \ {p}, key |-> p])
    /\ UNCHANGED <<user, role, granted, assigned, apiKey, token, ghostVars>>

SeedLink(c) ==
    /\ accountCall[c].at = "link"
    /\ granted' = granted \cup {<<Admin, accountCall[c].key>>}
    /\ GoAccount(c, [at |-> "seed", todo |-> accountCall[c].todo])
    /\ UNCHANGED <<user, role, permission, assigned, apiKey, token, ghostVars>>

\* With an e-mail and a password in the environment, a user becomes admin.
SeedAdminUser(c) ==
    /\ accountCall[c] = [at |-> "seed", todo |-> {}]
    /\ \/ UNCHANGED <<user, assigned>>
       \/ \E u \in Users :
              /\ user' = IF user[u] = NoUser THEN [user EXCEPT ![u] = "active"] ELSE user
              /\ assigned' = assigned \cup {<<u, Admin>>}
    /\ seeded' = TRUE
    /\ GoAccount(c, IdleAccountCall)
    /\ UNCHANGED <<role, permission, granted, apiKey, token, replaced>>

-----------------------------------------------------------------------------
(***************************************************************************)
(* Users and roles.                                                        *)
(***************************************************************************)
Record == AccountEdit /\ UNCHANGED <<accountCall, ghostVars>>

CreateUser(u) ==
    /\ user[u] = NoUser
    /\ Record
    /\ \E at \in {"active", "inactive"} : user' = [user EXCEPT ![u] = at]
    /\ UNCHANGED <<roleVars, apiKey, token>>

UpdateUser(u) ==
    /\ user[u] # NoUser
    /\ Record
    /\ \E at \in {"active", "inactive"} : user' = [user EXCEPT ![u] = at]
    /\ UNCHANGED <<roleVars, apiKey, token>>

\* The foreign keys cascade to roles, keys and tokens of the user.
RemoveUser(u) ==
    /\ user[u] # NoUser
    /\ Record
    /\ user' = [user EXCEPT ![u] = NoUser]
    /\ assigned' = {a \in assigned : a[1] # u}
    /\ apiKey' = [k \in ApiKeys |->
           IF apiKey[k] # NoKey /\ apiKey[k].owner = u THEN NoKey ELSE apiKey[k]]
    /\ token' = [t \in Tokens |->
           IF token[t] # NoToken /\ token[t].owner = u THEN NoToken ELSE token[t]]
    /\ UNCHANGED <<role, permission, granted>>

\* create and update save the role, then replace its permissions.  The role that is
\* called admin keeps its name; no other may take it.
SaveRole(c, r) ==
    /\ r # Admin \/ r \in role
    /\ \E keys \in SUBSET permission :
           StartAccount(c, [at |-> "revoke", id |-> r, keys |-> keys])
    /\ role' = role \cup {r}
    /\ UNCHANGED <<user, permission, granted, assigned, apiKey, token, ghostVars>>

RevokeGrants(c) ==
    /\ accountCall[c].at = "revoke"
    /\ LET r == accountCall[c].id
       IN  /\ granted' = {g \in granted : g[1] # r}
           /\ replaced' = (replaced \/ r = Admin)
    /\ GoAccount(c, [accountCall[c] EXCEPT !.at = "grant"])
    /\ UNCHANGED <<user, role, permission, assigned, apiKey, token, seeded>>

\* The insert fails when the role is gone.
InsertGrants(c) ==
    /\ accountCall[c].at = "grant"
    /\ LET r == accountCall[c].id
       IN  granted' = IF r \in role THEN granted \cup ({r} \X accountCall[c].keys) ELSE granted
    /\ GoAccount(c, IdleAccountCall)
    /\ UNCHANGED <<user, role, permission, assigned, apiKey, token, ghostVars>>

RemoveRole(r) ==
    /\ r \in role \ {Admin}
    /\ Record
    /\ role' = role \ {r}
    /\ granted' = {g \in granted : g[1] # r}
    /\ assigned' = {a \in assigned : a[2] # r}
    /\ UNCHANGED <<user, permission, apiKey, token>>

AssignRole(u, r) ==
    /\ user[u] # NoUser
    /\ r \in role
    /\ Record
    /\ assigned' = assigned \cup {<<u, r>>}
    /\ UNCHANGED <<user, role, permission, granted, apiKey, token>>

UnassignRole(u, r) ==
    /\ <<u, r>> \in assigned
    /\ Record
    /\ assigned' = assigned \ {<<u, r>>}
    /\ UNCHANGED <<user, role, permission, granted, apiKey, token>>

KeysForUser(u) == {p \in permission : \E r \in role : <<u, r>> \in assigned /\ <<r, p>> \in granted}

-----------------------------------------------------------------------------
(***************************************************************************)
(* API keys: what the owner may do at that time, at most.  The scope is    *)
(* inserted after the key; dying in between leaves a key without any.      *)
(***************************************************************************)
CreateApiKey(k, u) ==
    /\ apiKey[k] = NoKey
    /\ user[u] = "active"
    /\ Record
    /\ \E scope \in SUBSET KeysForUser(u) :
           apiKey' = [apiKey EXCEPT ![k] = [at |-> "live", owner |-> u, scope |-> scope]]
    /\ UNCHANGED <<user, roleVars, token>>

RevokeApiKey(k) ==
    /\ apiKey[k].at = "live"
    /\ Record
    /\ apiKey' = [apiKey EXCEPT ![k].at = "revoked"]
    /\ UNCHANGED <<user, roleVars, token>>

-----------------------------------------------------------------------------
(***************************************************************************)
(* Sessions: login issues a refresh token, refresh exchanges it for the    *)
(* next, logout ends it.                                                   *)
(***************************************************************************)
LiveTokens(u) == {t \in Tokens : token[t].at = "live" /\ token[t].owner = u}

Login(t, u) ==
    /\ user[u] = "active"
    /\ token[t] = NoToken
    /\ Record
    /\ token' = [token EXCEPT ![t] = [at |-> "live", owner |-> u, replacedBy |-> "none"]]
    /\ UNCHANGED <<user, roleVars, apiKey>>

Expire(t) ==
    /\ token[t].at = "live"
    /\ Record
    /\ token' = [token EXCEPT ![t].at = "expired"]
    /\ UNCHANGED <<user, roleVars, apiKey>>

Logout(t) ==
    /\ token[t].at = "live"
    /\ Record
    /\ token' = [token EXCEPT ![t].at = "revoked"]
    /\ UNCHANGED <<user, roleVars, apiKey>>

\* rotate looks the token up: one that was revoked ends all of the user's sessions.
RotateRead(c, t) ==
    /\ token[t].at \in {"live", "revoked"}
    /\ IF token[t].at = "live"
       THEN /\ StartAccount(c, [at |-> "rotate", id |-> t])
            /\ UNCHANGED token
       ELSE /\ AccountEdit
            /\ token' = [s \in Tokens |-> IF s \in LiveTokens(token[t].owner)
                                          THEN [token[s] EXCEPT !.at = "revoked"] ELSE token[s]]
            /\ UNCHANGED accountCall
    /\ UNCHANGED <<user, roleVars, apiKey, ghostVars>>

\* The transaction; it does not look at the old token again.
RotateSave(c) ==
    /\ accountCall[c].at = "rotate"
    /\ LET old == accountCall[c].id
       IN  \E t \in Tokens :
               /\ token[old] # NoToken
               /\ token[t] = NoToken
               /\ token' = [token EXCEPT
                      ![t] = [at |-> "live", owner |-> token[old].owner, replacedBy |-> "none"],
                      ![old].at = "revoked", ![old].replacedBy = t]
    /\ GoAccount(c, IdleAccountCall)
    /\ UNCHANGED <<user, roleVars, apiKey, ghostVars>>

AccountCallDies(c) ==
    /\ accountCall[c] # IdleAccountCall
    /\ GoAccount(c, IdleAccountCall)
    /\ UNCHANGED <<user, roleVars, apiKey, token, ghostVars>>

RoleRequest(r) ==
    \/ RemoveRole(r)
    \/ \E c \in AccountCalls : SaveRole(c, r)
    \/ \E u \in Users : AssignRole(u, r) \/ UnassignRole(u, r)

UserRequest(u) ==
    \/ CreateUser(u) \/ UpdateUser(u) \/ RemoveUser(u)
    \/ \E k \in ApiKeys : CreateApiKey(k, u)
    \/ \E t \in Tokens : Login(t, u)

TokenRequest(t) ==
    \/ Expire(t) \/ Logout(t) \/ \E c \in AccountCalls : RotateRead(c, t)

AccountStep(c) ==
    \/ SeedRole(c) \/ SeedPermission(c) \/ SeedLink(c) \/ SeedAdminUser(c)
    \/ RevokeGrants(c) \/ InsertGrants(c) \/ RotateSave(c) \/ AccountCallDies(c)

AccountsNext ==
    \/ \E r \in Roles : RoleRequest(r)
    \/ \E u \in Users : UserRequest(u)
    \/ \E k \in ApiKeys : RevokeApiKey(k)
    \/ \E t \in Tokens : TokenRequest(t)
    \/ \E c \in AccountCalls : AccountStep(c)

AccountsSpec == AccountsInit /\ [][AccountsNext]_accountVars

-----------------------------------------------------------------------------
(***************************************************************************)
(* Once a seed has finished, and unless the administrators replaced the    *)
(* admin role's permissions, that role has every default permission: also  *)
(* when an earlier seed died halfway, or two ran at once (seed-auth.ts     *)
(* calls itself idempotent).                                               *)
(***************************************************************************)
SeedLeavesTheDefaults ==
    seeded /\ ~replaced => ({Admin} \X DefaultPermissions) \subseteq granted
=============================================================================
