------------------------------ MODULE AuthService ------------------------------
(***************************************************************************)
(* auth-service: merchants with their client credentials, dashboard users,  *)
(* access tokens (signed, with an expiry), refresh tokens (rows that rotate *)
(* at each use), logout by a denylist in Redis, and the admin operations.   *)
(* A handler that awaits the database runs in several steps.                *)
(***************************************************************************)
EXTENDS Integers, Sequences, FiniteSets

CONSTANTS
    MerchantIds, SeedMerchants,     \* SeedMerchants: the ones onModuleInit writes
    Emails,
    Production,         \* NODE_ENV = production: no seeds
    EnvKeys,            \* JWT_PRIVATE_KEY and JWT_PUBLIC_KEY are set
    AccessTtl, RefreshTtl,
    Requests,           \* bound: the requests ever made, positive numbers
    Secrets,            \* bound: the secrets and passwords tried: the request that made them, or 0
    Asks(_),            \* bound: the operations a request may be
    MaxNow,             \* bound: the clock
    MaxAuthFaults       \* bound: failed calls and restarts

ASSUME AuthAssumption == AccessTtl \in Nat /\ RefreshTtl \in Nat /\ MaxNow \in Nat /\ MaxAuthFaults \in Nat

VARIABLES
    merchants,          \* [deleted, active, admin, secret, apiKey] or NoRow
    apiKeysRevoked,     \* merchants whose rows in api_keys are revoked
    users,              \* [email -> row or NoRow]
    auditLog,           \* merchants with a MERCHANT_PURGE row
    refreshTokens,      \* rows of refresh_tokens
    denylist,           \* [jti -> the second the key expires]
    accessTokens,       \* access tokens handed out
    signingKey,         \* the key pair of KeyManager: its generation
    request,            \* each request: its step, what it read and its answer
    clock, authFaults,
    doubled,            \* grants with two refreshes of one token at once (history)
    reset,              \* merchants whose secret two rotations, or a seed, wrote (history)
    latest              \* the rotation of each merchant answered last (history)

authVars == <<merchants, apiKeysRevoked, users, auditLog, refreshTokens, denylist, accessTokens, signingKey,
              request, clock, authFaults, doubled, reset, latest>>
accounts == <<merchants, apiKeysRevoked, users, auditLog>>
tokens == <<refreshTokens, denylist, accessTokens>>
world == <<signingKey, clock, authFaults>>
history == <<doubled, reset, latest>>

NoRow == [none |-> TRUE]
Nobody == "nobody"
Unsent == [step |-> "unsent", op |-> "none", who |-> Nobody, token |-> 0, seen |-> {}, answer |-> "none"]

Exists(m) == merchants[m] # NoRow /\ ~merchants[m].deleted
NewMerchant(admin, secret) ==
    [deleted |-> FALSE, active |-> TRUE, admin |-> admin, secret |-> secret, apiKey |-> 0]

AuthInit ==
    /\ merchants = [m \in MerchantIds |-> IF m \in SeedMerchants THEN NewMerchant(TRUE, 0) ELSE NoRow]
    /\ apiKeysRevoked = {} /\ users = [e \in Emails |-> NoRow] /\ auditLog = {}
    /\ refreshTokens = {} /\ denylist = <<>> /\ accessTokens = {} /\ signingKey = 0
    /\ request = [r \in Requests |-> Unsent]
    /\ clock = 0 /\ authFaults = 0 /\ doubled = {} /\ reset = {}
    /\ latest = [m \in MerchantIds |-> 0]

\* A request that arrives, one that goes on and one that is answered.
Arrive(r, op, who, token) ==
    /\ request[r].step = "unsent" /\ op \in Asks(r)
    /\ request' = [request EXCEPT ![r] = [Unsent EXCEPT !.step = "first", !.op = op, !.who = who, !.token = token]]
    /\ UNCHANGED <<accounts, tokens, world, history>>
At(r, op, step) == request[r].op = op /\ request[r].step = step
GoOn(r, step, seen) == request' = [request EXCEPT ![r].step = step, ![r].seen = seen]
Reply(r, status) == request' = [request EXCEPT ![r].step = "answered", ![r].answer = status]
Who(r) == request[r].who

-----------------------------------------------------------------------------
(* Tokens *)

\* RS256 with the key of the kid; a restart without keys in the environment makes a new pair.
verifyAccessToken(token) == token.key = signingKey /\ clock < token.exp

SignedToken(r, owner, admin) ==
    [jti |-> r, owner |-> owner, admin |-> admin, exp |-> clock + AccessTtl, key |-> signingKey]
\* grant: the login a row descends from
TokenRow(r, owner, grant) ==
    [id |-> r, owner |-> owner, grant |-> grant, expiresAt |-> clock + RefreshTtl, revoked |-> FALSE]

IsValidToken(row) == ~row.revoked /\ row.expiresAt >= clock
Revoked(rows, id) == {IF row.id = id THEN [row EXCEPT !.revoked = TRUE] ELSE row : row \in rows}

\* The access token is signed before the row is saved; both are in the answer.
IssueTokens(r, owner, admin, grant) ==
    /\ accessTokens' = accessTokens \union {SignedToken(r, owner, admin)}
    /\ refreshTokens' = refreshTokens \union {TokenRow(r, owner, grant)}
    /\ Reply(r, "200")
    /\ UNCHANGED <<denylist, accounts, world, history>>

\* validateCredentials and issueToken; who: the merchant, seen: its row's secret.
ValidateCredentials(r) ==
    /\ At(r, "token", "first")
    /\ IF Exists(Who(r)) /\ merchants[Who(r)].active /\ merchants[Who(r)].secret = request[r].token
         THEN GoOn(r, "issue", {merchants[Who(r)]}) ELSE Reply(r, "401")
    /\ UNCHANGED <<accounts, tokens, world, history>>
issueToken(r) ==
    /\ At(r, "token", "issue")
    /\ \E row \in request[r].seen : IssueTokens(r, Who(r), row.admin, r)

\* loginWithPassword; outside production the two users of the code follow a refusal.
LoginWithPassword(r) ==
    /\ At(r, "login", "first")
    /\ IF users[Who(r)] # NoRow /\ users[Who(r)].password = request[r].token
         THEN GoOn(r, "issue", {users[Who(r)]})
         ELSE IF ~Production THEN GoOn(r, "issue", {[admin |-> TRUE]}) \/ Reply(r, "401")
         ELSE Reply(r, "401")
    /\ UNCHANGED <<accounts, tokens, world, history>>
issueTokenForUser(r) ==
    /\ At(r, "login", "issue")
    /\ \E row \in request[r].seen : IssueTokens(r, Who(r), row.admin, r)

\* refreshAccessToken: find the row, revoke it, look the owner up among the merchants, save a new row.
FindRefreshToken(r) ==
    /\ At(r, "refresh", "first")
    /\ LET rows == {row \in refreshTokens : row.id = request[r].token}
       IN  IF \E row \in rows : IsValidToken(row) THEN GoOn(r, "revoke", rows) ELSE Reply(r, "401")
    /\ UNCHANGED <<accounts, tokens, world, history>>

SkipRevoke(rows, id) == rows
RevokeById(rows, id) == Revoked(rows, id)

\* The result of the UPDATE is not looked at: a row another refresh revoked in between does.
RevokeRefreshToken(r) ==
    /\ At(r, "refresh", "revoke")
    /\ refreshTokens' = RevokeById(refreshTokens, request[r].token)
    /\ doubled' = doubled \union
           {row.grant : row \in {x \in request[r].seen :
               \E other \in Requests \ {r} : /\ request[other].op = "refresh" /\ request[other].answer # "500"
                                              /\ x \in request[other].seen}}
    /\ GoOn(r, "lookup", request[r].seen)
    /\ UNCHANGED <<accounts, denylist, accessTokens, world, reset, latest>>

\* The owner of a password login is no merchant: its refresh ends here, with its row revoked.
LookUpOwner(r) ==
    /\ At(r, "refresh", "lookup")
    /\ IF \E row \in request[r].seen : row.owner \in MerchantIds /\ Exists(row.owner)
         THEN GoOn(r, "save", request[r].seen) ELSE Reply(r, "401")
    /\ UNCHANGED <<accounts, tokens, world, history>>
SaveRefreshToken(r) ==
    /\ At(r, "refresh", "save")
    /\ \E row \in request[r].seen : IssueTokens(r, row.owner, merchants[row.owner].admin, row.grant)

\* revokeToken answers 200 for an unknown token too.
revokeToken(r) ==
    /\ At(r, "revoke", "first")
    /\ refreshTokens' = Revoked(refreshTokens, request[r].token)
    /\ Reply(r, "200")
    /\ UNCHANGED <<accounts, denylist, accessTokens, world, history>>

\* introspectToken: an access token by its signature, a refresh token by its row.
introspectToken(r) ==
    /\ At(r, "introspect", "first")
    /\ Reply(r, IF \/ \E t \in accessTokens : t.jti = request[r].token /\ verifyAccessToken(t)
                   \/ \E row \in refreshTokens : row.id = request[r].token /\ IsValidToken(row)
                  THEN "active" ELSE "inactive")
    /\ UNCHANGED <<accounts, tokens, world, history>>

purgeExpired ==
    /\ refreshTokens' = {row \in refreshTokens : row.expiresAt >= clock}
    /\ refreshTokens' # refreshTokens
    /\ UNCHANGED <<accounts, denylist, accessTokens, world, request, history>>

\* logout: verify, then SET jwt:revoked:<jti> for the rest of the token's life.
Presented(r) == {t \in accessTokens : t.jti = request[r].token}
VerifyForLogout(r) ==
    /\ At(r, "logout", "first")
    /\ IF \E t \in Presented(r) : verifyAccessToken(t) THEN GoOn(r, "deny", {}) ELSE Reply(r, "401")
    /\ UNCHANGED <<accounts, tokens, world, history>>

ShortTtl(exp) == exp - clock - 1
TtlLeft(exp) == exp - clock
logout(r) ==
    /\ At(r, "logout", "deny")
    /\ \E t \in Presented(r) :
         denylist' = IF TtlLeft(t.exp) > 0
                       THEN [j \in DOMAIN denylist \union {t.jti} |->
                                IF j = t.jti THEN clock + TtlLeft(t.exp) ELSE denylist[j]]
                       ELSE denylist
    /\ Reply(r, "200")
    /\ UNCHANGED <<accounts, refreshTokens, accessTokens, world, history>>

\* AdminGuard: the signature and the role, then the denylist; no answer of Redis is a 503.
IsDenied(jti) == jti \in DOMAIN denylist /\ clock < denylist[jti]
VerifyForAdmin(r) ==
    /\ At(r, "admin", "first")
    /\ IF \E t \in Presented(r) : verifyAccessToken(t) /\ t.admin THEN GoOn(r, "denylist", {}) ELSE Reply(r, "401")
    /\ UNCHANGED <<accounts, tokens, world, history>>
AdminGuard(r) ==
    /\ At(r, "admin", "denylist")
    /\ \/ Reply(r, IF IsDenied(request[r].token) THEN "401" ELSE "200") /\ UNCHANGED authFaults
       \/ authFaults < MaxAuthFaults /\ authFaults' = authFaults + 1 /\ Reply(r, "503")
    /\ UNCHANGED <<accounts, tokens, signingKey, clock, history>>

TokenStep(r) ==
    \/ ValidateCredentials(r) \/ issueToken(r) \/ LoginWithPassword(r) \/ issueTokenForUser(r)
    \/ FindRefreshToken(r) \/ RevokeRefreshToken(r) \/ LookUpOwner(r) \/ SaveRefreshToken(r)
    \/ revokeToken(r) \/ introspectToken(r) \/ VerifyForLogout(r) \/ logout(r)
    \/ VerifyForAdmin(r) \/ AdminGuard(r)

-----------------------------------------------------------------------------
(* Merchants and users *)

createMerchant(r) ==
    /\ At(r, "create", "first")
    /\ IF merchants[Who(r)] = NoRow
         THEN merchants' = [merchants EXCEPT ![Who(r)] = NewMerchant(FALSE, r)] /\ Reply(r, "201")
         ELSE Reply(r, "500") /\ UNCHANGED merchants
    /\ UNCHANGED <<apiKeysRevoked, users, auditLog, tokens, world, history>>

\* rotateSecret, rotateApiKey, updateMerchant, deleteMerchant: find the row, then UPDATE it.
FindMerchant(r) ==
    /\ request[r].op \in {"rotateSecret", "rotateApiKey", "update", "delete"} /\ request[r].step = "first"
    /\ IF Exists(Who(r)) THEN GoOn(r, "write", {merchants[Who(r)]}) ELSE Reply(r, "404")
    /\ UNCHANGED <<accounts, tokens, world, history>>

\* The only UPDATE without "deleted_at IS NULL".  The new secret is in the answer.
OtherSecret(row, secret) == [row EXCEPT !.apiKey = secret]
WithSecret(row, secret) == [row EXCEPT !.secret = secret]
rotateSecret(r) ==
    /\ At(r, "rotateSecret", "write")
    /\ merchants' = [merchants EXCEPT ![Who(r)] = WithSecret(@, r)]
    /\ reset' = IF \E other \in Requests \ {r} : At(other, "rotateSecret", "write") /\ Who(other) = Who(r)
                  THEN reset \union {Who(r)} ELSE reset
    /\ latest' = [latest EXCEPT ![Who(r)] = r]
    /\ Reply(r, "200")
    /\ UNCHANGED <<apiKeysRevoked, users, auditLog, tokens, world, doubled>>

\* A row deleted since the read is not found by the UPDATE.
WriteMerchant(r, op, row) ==
    /\ At(r, op, "write")
    /\ IF Exists(Who(r)) THEN merchants' = [merchants EXCEPT ![Who(r)] = row] ELSE UNCHANGED merchants
    /\ Reply(r, IF Exists(Who(r)) \/ op = "delete" THEN "200" ELSE "404")
    /\ UNCHANGED <<apiKeysRevoked, users, auditLog, tokens, world, history>>
rotateApiKey(r) == WriteMerchant(r, "rotateApiKey", [merchants[Who(r)] EXCEPT !.apiKey = r])
updateMerchant(r) == WriteMerchant(r, "update", [merchants[Who(r)] EXCEPT !.active = request[r].token = 1])
deleteMerchant(r) == WriteMerchant(r, "delete", [merchants[Who(r)] EXCEPT !.deleted = TRUE])

\* MerchantsService.activate and deactivate: one UPDATE.
setActive(r) ==
    /\ At(r, "activate", "first")
    /\ IF Exists(Who(r))
         THEN merchants' = [merchants EXCEPT ![Who(r)].active = request[r].token = 1] /\ Reply(r, "200")
         ELSE UNCHANGED merchants /\ Reply(r, "404")
    /\ UNCHANGED <<apiKeysRevoked, users, auditLog, tokens, world, history>>

\* purgeMerchant: four statements of one connection without a transaction.
CheckPurge(r) ==
    /\ At(r, "purge", "first")
    /\ IF Exists(Who(r)) THEN GoOn(r, "mark", {}) ELSE Reply(r, "404")
    /\ UNCHANGED <<accounts, tokens, world, history>>
MarkDeleted(r) ==
    /\ At(r, "purge", "mark")
    /\ merchants' = [merchants EXCEPT ![Who(r)].deleted = TRUE]
    /\ GoOn(r, "keys", {})
    /\ UNCHANGED <<apiKeysRevoked, users, auditLog, tokens, world, history>>
RevokeApiKeys(r) ==
    /\ At(r, "purge", "keys")
    /\ apiKeysRevoked' = apiKeysRevoked \union {Who(r)}
    /\ GoOn(r, "audit", {})
    /\ UNCHANGED <<merchants, users, auditLog, tokens, world, history>>
purgeMerchant(r) ==
    /\ At(r, "purge", "audit")
    /\ auditLog' = auditLog \union {Who(r)}
    /\ Reply(r, "204")
    /\ UNCHANGED <<merchants, apiKeysRevoked, users, tokens, world, history>>

\* invite: a look for the email, then the INSERT, which the unique index may refuse.
CheckInvite(r) ==
    /\ At(r, "invite", "first")
    /\ IF users[Who(r)] = NoRow THEN GoOn(r, "insert", {}) ELSE Reply(r, "409")
    /\ UNCHANGED <<accounts, tokens, world, history>>
invite(r) ==
    /\ At(r, "invite", "insert")
    /\ IF users[Who(r)] = NoRow
         THEN users' = [users EXCEPT ![Who(r)] = [admin |-> FALSE, password |-> r]] /\ Reply(r, "201")
         ELSE UNCHANGED users /\ Reply(r, "500")
    /\ UNCHANGED <<merchants, apiKeysRevoked, auditLog, tokens, world, history>>
setPassword(r) ==
    /\ At(r, "setPassword", "first")
    /\ IF users[Who(r)] # NoRow
         THEN users' = [users EXCEPT ![Who(r)].password = r] /\ Reply(r, "200")
         ELSE UNCHANGED users /\ Reply(r, "404")
    /\ UNCHANGED <<merchants, apiKeysRevoked, auditLog, tokens, world, history>>
deactivateUser(r) ==
    /\ At(r, "deactivateUser", "first")
    /\ users' = [users EXCEPT ![Who(r)] = NoRow] /\ Reply(r, "204")
    /\ UNCHANGED <<merchants, apiKeysRevoked, auditLog, tokens, world, history>>

AccountStep(r) ==
    \/ createMerchant(r) \/ FindMerchant(r) \/ rotateSecret(r) \/ rotateApiKey(r) \/ updateMerchant(r)
    \/ deleteMerchant(r) \/ setActive(r) \/ CheckPurge(r) \/ MarkDeleted(r) \/ RevokeApiKeys(r)
    \/ purgeMerchant(r) \/ CheckInvite(r) \/ invite(r) \/ setPassword(r) \/ deactivateUser(r)

-----------------------------------------------------------------------------

\* A statement that fails, without effect, ends its request with a 500, wherever it stands.
StatementFails(r) ==
    /\ authFaults < MaxAuthFaults /\ authFaults' = authFaults + 1
    /\ request[r].step \notin {"unsent", "answered"} /\ request[r].op # "admin"
    /\ Reply(r, "500")
    /\ UNCHANGED <<accounts, tokens, signingKey, clock, history>>

\* Requests are cut off; KeyManager.loadKeys and MerchantsService.onModuleInit run again.
loadKeys == signingKey' = IF EnvKeys THEN signingKey ELSE signingKey + 1
SeedAgain ==
    /\ merchants' = [m \in MerchantIds |->
           IF m \in SeedMerchants /\ ~Production THEN [merchants[m] EXCEPT !.secret = 0, !.active = TRUE]
                                                 ELSE merchants[m]]
    /\ reset' = IF Production THEN reset ELSE reset \union SeedMerchants
RestartAuth ==
    /\ authFaults < MaxAuthFaults /\ authFaults' = authFaults + 1
    /\ loadKeys /\ SeedAgain
    /\ request' = [r \in Requests |->
           IF request[r].step \in {"unsent", "answered"} THEN request[r]
                                                         ELSE [request[r] EXCEPT !.step = "answered", !.answer = "500"]]
    /\ UNCHANGED <<apiKeysRevoked, users, auditLog, tokens, clock, doubled, latest>>

AuthTick ==
    /\ clock < MaxNow /\ clock' = clock + 1
    /\ UNCHANGED <<accounts, tokens, signingKey, authFaults, request, history>>

\* The requests a client can make: who and token are the arguments.
Arrivals(r) ==
    \/ \E m \in MerchantIds :
         \/ \E s \in Secrets : Arrive(r, "token", m, s)
         \/ \E op \in {"create", "rotateSecret", "rotateApiKey", "delete", "purge"} : Arrive(r, op, m, 0)
         \/ \E op \in {"update", "activate"}, b \in {0, 1} : Arrive(r, op, m, b)
    \/ \E e \in Emails :
         \/ \E s \in Secrets : Arrive(r, "login", e, s)
         \/ \E op \in {"invite", "setPassword", "deactivateUser"} : Arrive(r, op, e, 0)
    \/ \E t \in accessTokens, op \in {"refresh", "revoke", "introspect", "logout", "admin"} :
         Arrive(r, op, t.owner, t.jti)

AuthNext ==
    \/ AuthTick \/ RestartAuth \/ purgeExpired
    \/ \E r \in Requests : Arrivals(r) \/ TokenStep(r) \/ AccountStep(r) \/ StatementFails(r)

AuthSpec == AuthInit /\ [][AuthNext]_authVars

AuthTypeOK ==
    /\ apiKeysRevoked \subseteq MerchantIds /\ auditLog \subseteq apiKeysRevoked
    /\ \A r \in Requests : request[r].step = "answered" <=> request[r].answer # "none"
    /\ \A row \in refreshTokens : row.id \in Requests /\ row.grant \in Requests
    /\ \A row, other \in refreshTokens : row.id = other.id => row = other
    /\ clock \in 0..MaxNow /\ authFaults \in 0..MaxAuthFaults

\* A login and the refreshes that descend from it leave at most one refresh
\* token to use, unless two refreshes of one token ran at once.
OneLiveTokenPerGrant ==
    \A row, other \in refreshTokens :
        row.grant = other.grant /\ ~row.revoked /\ ~other.revoked /\ row.grant \notin doubled => row = other

\* An admin request whose denylist check follows the answer to a logout of
\* its token is refused, however close the token is to its expiry.
LoggedOut(jti) == \E r \in Requests : request[r].op = "logout" /\ request[r].answer = "200" /\ request[r].token = jti
LoggedOutStaysOut ==
    [][\A r \in Requests : request[r].step = "denylist" /\ LoggedOut(request[r].token)
           /\ (\E t \in Presented(r) : clock < t.exp) => request'[r].answer # "200"]_authVars

\* The secret of the last rotation that was answered, and nothing older, is
\* the one the merchant logs in with, unless rotations overlapped or the
\* seeds were written again.
RotatedSecretIsTheOne ==
    \A m \in MerchantIds \ reset : latest[m] # 0 => merchants[m].secret = latest[m]

\* A token that was logged out is refused, a refresh token that was
\* exchanged is dead, and a rotated secret replaces every older one.
CredentialsEnd == LoggedOutStaysOut /\ []OneLiveTokenPerGrant /\ []RotatedSecretIsTheOne
=============================================================================
