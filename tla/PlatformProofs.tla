----------------------------- MODULE PlatformProofs -----------------------------
(***************************************************************************)
(* Safety of the tokens and secrets for any merchants, users, requests,     *)
(* lifetimes, faults and restarts; of the rules' weights for any rules,     *)
(* chargebacks, tasks, faults and crashes; of the rule set for any          *)
(* versions, flags, loads and restarts; and of the limits for any rates,    *)
(* bursts, requests and lags.                                               *)
(***************************************************************************)
EXTENDS AuthService, RuleWeights, RuleReload, RateLimit, Backpressure, TLAPS

RequestFields == {"step", "op", "who", "token", "seen", "answer"}

\* The requests: each is a record, and answered exactly when it has an answer.
Asked ==
    /\ request = [r \in Requests |-> request[r]]
    /\ \A r \in Requests : DOMAIN request[r] = RequestFields
    /\ \A r \in Requests : request[r].step = "answered" <=> request[r].answer # "none"

-----------------------------------------------------------------------------
(* What a step does to the requests *)

Others(r) ==
    /\ request' = [q \in Requests |-> request'[q]] /\ DOMAIN request'[r] = RequestFields
    /\ \A q \in Requests \ {r} : request'[q] = request[q]
Same(r) ==
    /\ request'[r].op = request[r].op /\ request'[r].who = request[r].who
    /\ request'[r].token = request[r].token

LEMMA GoOnEffect ==
  ASSUME Asked, NEW r \in Requests, NEW step, NEW seen, GoOn(r, step, seen)
  PROVE  /\ Others(r) /\ Same(r)
         /\ request'[r].step = step /\ request'[r].seen = seen /\ request'[r].answer = request[r].answer
  BY DEF Asked, GoOn, Others, Same, RequestFields

LEMMA ReplyEffect ==
  ASSUME Asked, NEW r \in Requests, NEW status, Reply(r, status)
  PROVE  /\ Others(r) /\ Same(r)
         /\ request'[r].step = "answered" /\ request'[r].seen = request[r].seen /\ request'[r].answer = status
  BY DEF Asked, Reply, Others, Same, RequestFields

LEMMA ArriveEffect ==
  ASSUME Asked, NEW r \in Requests, NEW op, NEW who, NEW token, Arrive(r, op, who, token)
  PROVE  /\ Others(r) /\ request[r].step = "unsent"
         /\ request'[r].step = "first" /\ request'[r].op = op /\ request'[r].who = who
         /\ request'[r].token = token /\ request'[r].answer = "none" /\ request'[r].seen = {}
         /\ UNCHANGED <<accounts, tokens, world, history>>
  <1>1. /\ request' = [request EXCEPT ![r] = [Unsent EXCEPT !.step = "first", !.op = op, !.who = who, !.token = token]]
        /\ request[r].step = "unsent"
    BY DEF Arrive
  <1>2. DOMAIN Unsent = RequestFields /\ Unsent.answer = "none" /\ Unsent.seen = {}
    BY DEF Unsent, RequestFields
  <1>3. UNCHANGED <<accounts, tokens, world, history>>
    BY DEF Arrive
  <1>4. PICK u : u = Unsent
    OBVIOUS
  <1>5. request' = [request EXCEPT ![r] = [u EXCEPT !.step = "first", !.op = op, !.who = who, !.token = token]]
    BY <1>1, <1>4
  <1> HIDE DEF Unsent
  <1>6. DOMAIN u = RequestFields /\ u.answer = "none" /\ u.seen = {}
    BY <1>2, <1>4
  <1>7. DOMAIN request = Requests
    BY DEF Asked
  <1>8. request'[r] = [u EXCEPT !.step = "first", !.op = op, !.who = who, !.token = token]
    BY <1>5, <1>7
  <1>9. /\ request'[r].step = "first" /\ request'[r].op = op /\ request'[r].who = who
        /\ request'[r].token = token /\ request'[r].answer = u.answer /\ request'[r].seen = u.seen
    BY <1>6, <1>8 DEF RequestFields
  <1>10. Others(r)
    BY <1>5, <1>6, <1>7, <1>8 DEF Others
  <1> QED BY <1>1, <1>3, <1>6, <1>9, <1>10
MerchantOps == {"token", "create", "rotateSecret", "rotateApiKey", "delete", "purge", "update", "activate"}
TokenOps == {"refresh", "revoke", "introspect", "logout", "admin"}

LEMMA ArrivalsEffect ==
  ASSUME Asked, NEW r \in Requests, Arrivals(r)
  PROVE  /\ Others(r) /\ request[r].step = "unsent"
         /\ request'[r].step = "first" /\ request'[r].answer = "none" /\ request'[r].seen = {}
         /\ request'[r].op \in MerchantOps => request'[r].who \in MerchantIds
         /\ request'[r].op \in TokenOps => \E t \in accessTokens : t.jti = request'[r].token
         /\ UNCHANGED <<accounts, tokens, world, history>>
  <1> DEFINE Sound(op, who, token) == /\ op \in MerchantOps => who \in MerchantIds
                                      /\ op \in TokenOps => \E t \in accessTokens : t.jti = token
  <1>1. \E op, who, token : Arrive(r, op, who, token) /\ Sound(op, who, token)
    <2>1. ASSUME NEW m \in MerchantIds, NEW op \in MerchantOps, NEW s, Arrive(r, op, m, s) PROVE <1>1
      <3>1. Sound(op, m, s)
        BY DEF MerchantOps, TokenOps
      <3> QED BY <2>1, <3>1
    <2>2. ASSUME NEW e \in Emails, NEW op \in {"login", "invite", "setPassword", "deactivateUser"}, NEW s,
                 Arrive(r, op, e, s)
          PROVE  <1>1
      <3>1. Sound(op, e, s)
        BY DEF MerchantOps, TokenOps
      <3> QED BY <2>2, <3>1
    <2>3. ASSUME NEW t \in accessTokens, NEW op \in TokenOps, Arrive(r, op, t.owner, t.jti) PROVE <1>1
      <3>1. Sound(op, t.owner, t.jti)
        BY DEF MerchantOps, TokenOps
      <3> QED BY <2>3, <3>1
    <2> HIDE DEF Sound
    <2> QED BY <2>1, <2>2, <2>3 DEF Arrivals, MerchantOps, TokenOps
  <1>2. PICK op, who, token : Arrive(r, op, who, token) /\ Sound(op, who, token)
    BY <1>1
  <1> QED BY <1>2, ArriveEffect

\* A step of a request under way: the request goes on or is answered.
GoesOn(r, steps) == \E step \in steps, seen \in {request'[r].seen} : GoOn(r, step, seen)
Ends(r) == \E status \in {request'[r].answer} \ {"none"} : Reply(r, status)

LEMMA GoesOnEffect ==
  ASSUME Asked, NEW r \in Requests, NEW steps, GoesOn(r, steps)
  PROVE  Others(r) /\ Same(r) /\ request'[r].step \in steps /\ request'[r].answer = request[r].answer
  BY GoOnEffect DEF GoesOn

LEMMA EndsEffect ==
  ASSUME Asked, NEW r \in Requests, Ends(r)
  PROVE  Others(r) /\ Same(r) /\ request'[r].step = "answered" /\ request'[r].answer # "none"
         /\ request'[r].seen = request[r].seen
  BY ReplyEffect DEF Ends

LEMMA GoOnGoesOn ==
  ASSUME Asked, NEW r \in Requests, NEW step, NEW seen, GoOn(r, step, seen)
  PROVE  GoesOn(r, {step})
  BY GoOnEffect DEF GoesOn

LEMMA ReplyEnds ==
  ASSUME Asked, NEW r \in Requests, NEW status, status # "none", Reply(r, status)
  PROVE  Ends(r)
  BY ReplyEffect DEF Ends
LEMMA StepEffect ==
  ASSUME Asked, NEW r \in Requests, TokenStep(r) \/ AccountStep(r) \/ StatementFails(r)
  PROVE  /\ Others(r) /\ Same(r)
         /\ request[r].step \notin {"unsent", "answered"} /\ request'[r].step # "unsent"
         /\ request'[r].step = "answered" <=> request'[r].answer # "none"
         /\ request'[r].step = "denylist" => VerifyForAdmin(r)
         /\ request[r].op = "purge" /\ request'[r].step = "audit" => RevokeApiKeys(r)
         /\ request[r].op = "refresh" =>
               FindRefreshToken(r) \/ RevokeRefreshToken(r) \/ LookUpOwner(r) \/ request'[r].step = "answered"
         /\ UNCHANGED clock
  <1> DEFINE From(op, step, steps) == At(r, op, step) /\ (GoesOn(r, steps) \/ Ends(r))
  <1> USE GoOnGoesOn, ReplyEnds
  <1>1. ValidateCredentials(r) => From("token", "first", {"issue"})
    BY DEF ValidateCredentials
  <1>2. LoginWithPassword(r) => From("login", "first", {"issue"})
    BY DEF LoginWithPassword
  <1>3. issueToken(r) => From("token", "issue", {})
    BY DEF issueToken, IssueTokens
  <1>4. issueTokenForUser(r) => From("login", "issue", {})
    BY DEF issueTokenForUser, IssueTokens
  <1>5. FindRefreshToken(r) => From("refresh", "first", {"revoke"})
    BY DEF FindRefreshToken
  <1>6. RevokeRefreshToken(r) => From("refresh", "revoke", {"lookup"})
    BY DEF RevokeRefreshToken
  <1>7. LookUpOwner(r) => From("refresh", "lookup", {"save"})
    BY DEF LookUpOwner
  <1>8. SaveRefreshToken(r) => From("refresh", "save", {})
    BY DEF SaveRefreshToken, IssueTokens
  <1>9. revokeToken(r) => From("revoke", "first", {})
    BY DEF revokeToken
  <1>10. introspectToken(r) => From("introspect", "first", {})
    BY DEF introspectToken
  <1>11. VerifyForLogout(r) => From("logout", "first", {"deny"})
    BY DEF VerifyForLogout
  <1>12. logout(r) => From("logout", "deny", {})
    BY DEF logout
  <1>13. VerifyForAdmin(r) => From("admin", "first", {"denylist"})
    BY DEF VerifyForAdmin
  <1>14. AdminGuard(r) => From("admin", "denylist", {})
    BY DEF AdminGuard
  <1>15. createMerchant(r) => From("create", "first", {})
    BY DEF createMerchant
  <1>16. FindMerchant(r) => \E op \in {"rotateSecret", "rotateApiKey", "update", "delete"} : From(op, "first", {"write"})
    BY DEF FindMerchant, At
  <1>17. rotateSecret(r) => From("rotateSecret", "write", {})
    BY DEF rotateSecret
  <1>18. rotateApiKey(r) => From("rotateApiKey", "write", {})
    BY DEF rotateApiKey, WriteMerchant
  <1>19. updateMerchant(r) => From("update", "write", {})
    BY DEF updateMerchant, WriteMerchant
  <1>20. deleteMerchant(r) => From("delete", "write", {})
    BY DEF deleteMerchant, WriteMerchant
  <1>21. setActive(r) => From("activate", "first", {})
    BY DEF setActive
  <1>22. CheckPurge(r) => From("purge", "first", {"mark"})
    BY DEF CheckPurge
  <1>23. MarkDeleted(r) => From("purge", "mark", {"keys"})
    BY DEF MarkDeleted
  <1>24. RevokeApiKeys(r) => From("purge", "keys", {"audit"})
    BY DEF RevokeApiKeys
  <1>25. purgeMerchant(r) => From("purge", "audit", {})
    BY DEF purgeMerchant
  <1>26. CheckInvite(r) => From("invite", "first", {"insert"})
    BY DEF CheckInvite
  <1>27. invite(r) => From("invite", "insert", {})
    BY DEF invite
  <1>28. setPassword(r) => From("setPassword", "first", {})
    BY DEF setPassword
  <1>29. deactivateUser(r) => From("deactivateUser", "first", {})
    BY DEF deactivateUser
  <1>30. StatementFails(r) => request[r].step \notin {"unsent", "answered"} /\ Ends(r)
    BY DEF StatementFails
  <1>31. UNCHANGED clock
    BY DEF TokenStep, AccountStep, StatementFails, ValidateCredentials, issueToken, LoginWithPassword,
       issueTokenForUser, FindRefreshToken, RevokeRefreshToken, LookUpOwner, SaveRefreshToken, revokeToken,
       introspectToken, VerifyForLogout, logout, VerifyForAdmin, AdminGuard, createMerchant, FindMerchant,
       rotateSecret, rotateApiKey, updateMerchant, deleteMerchant, WriteMerchant, setActive, CheckPurge,
       MarkDeleted, RevokeApiKeys, purgeMerchant, CheckInvite, invite, setPassword, deactivateUser,
       IssueTokens, world
  <1>40. \A op, step, steps : From(op, step, steps) =>
             /\ Others(r) /\ Same(r) /\ request[r].op = op /\ request[r].step = step
             /\ \/ request'[r].step \in steps /\ request'[r].answer = request[r].answer
                \/ request'[r].step = "answered" /\ request'[r].answer # "none"
    BY GoesOnEffect, EndsEffect DEF At
  <1>41. Ends(r) => Others(r) /\ Same(r) /\ request'[r].step = "answered" /\ request'[r].answer # "none"
    BY EndsEffect
  <1> HIDE DEF From
  <1>42. request[r].step = "answered" <=> request[r].answer # "none"
    BY DEF Asked
  <1>43. CASE TokenStep(r)
    BY <1>43, <1>1, <1>2, <1>3, <1>4, <1>5, <1>6, <1>7, <1>8, <1>9, <1>10, <1>11, <1>12, <1>13, <1>14,
       <1>31, <1>40, <1>42 DEF TokenStep
  <1>44. CASE AccountStep(r)
    BY <1>44, <1>15, <1>16, <1>17, <1>18, <1>19, <1>20, <1>21, <1>22, <1>23, <1>24, <1>25, <1>26, <1>27,
       <1>28, <1>29, <1>31, <1>40, <1>42 DEF AccountStep
  <1>45. CASE StatementFails(r)
    BY <1>45, <1>30, <1>31, <1>41
  <1> QED BY <1>43, <1>44, <1>45
\* A restart cuts off what is under way.
LEMMA RestartEffect ==
  ASSUME Asked, RestartAuth, NEW r \in Requests
  PROVE  /\ request' = [q \in Requests |-> request'[q]] /\ DOMAIN request'[r] = RequestFields
         /\ Same(r) /\ request'[r].seen = request[r].seen
         /\ \/ request'[r] = request[r] /\ request[r].step \in {"unsent", "answered"}
            \/ request'[r].step = "answered" /\ request'[r].answer = "500" /\ request[r].step # "answered"
         /\ UNCHANGED <<tokens, clock, doubled, latest, apiKeysRevoked, auditLog>>
  <1>1. request' = [q \in Requests |->
           IF request[q].step \in {"unsent", "answered"} THEN request[q]
                                                         ELSE [request[q] EXCEPT !.step = "answered", !.answer = "500"]]
    BY DEF RestartAuth
  <1>2. UNCHANGED <<tokens, clock, doubled, latest, apiKeysRevoked, auditLog>>
    BY DEF RestartAuth
  <1>3. CASE request[r].step \in {"unsent", "answered"}
    BY <1>1, <1>2, <1>3 DEF Asked, Same
  <1>4. CASE request[r].step \notin {"unsent", "answered"}
    BY <1>1, <1>2, <1>4 DEF Asked, Same, RequestFields
  <1> QED BY <1>3, <1>4

\* The steps that leave every request as it is.
Quiet == AuthTick \/ purgeExpired \/ UNCHANGED authVars

Answered(j) == j \in Requests /\ request[j].step = "answered"

LEMMA NextAsked ==
  ASSUME Asked, [AuthNext]_authVars
  PROVE  Asked' /\ \A j : Answered(j) => request'[j] = request[j]
  <1>1. CASE Quiet
    BY <1>1 DEF Quiet, AuthTick, purgeExpired, authVars, Asked
  <1>2. CASE RestartAuth
    <2>1. request' = [r \in Requests |-> request'[r]]
      BY <1>2 DEF RestartAuth
    <2>2. \A r \in Requests : request[r].step = "answered" => request[r].answer # "none"
      BY DEF Asked
    <2>3. \A r \in Requests : request[r].step = "unsent" => request[r].answer = "none"
      BY DEF Asked
    <2>4. ASSUME NEW r \in Requests
          PROVE  /\ DOMAIN request'[r] = RequestFields
                 /\ request'[r].step = "answered" <=> request'[r].answer # "none"
                 /\ request[r].step = "answered" => request'[r] = request[r]
      BY <1>2, <2>2, <2>3, RestartEffect
    <2> QED BY <2>1, <2>4 DEF Asked, Answered
  <1>3. ASSUME NEW r \in Requests, Arrivals(r)
        PROVE  Asked' /\ \A j : Answered(j) => request'[j] = request[j]
    BY <1>3, ArrivalsEffect DEF Asked, Answered, Others
  <1>4. ASSUME NEW r \in Requests, TokenStep(r) \/ AccountStep(r) \/ StatementFails(r)
        PROVE  Asked' /\ \A j : Answered(j) => request'[j] = request[j]
    BY <1>4, StepEffect DEF Asked, Answered, Others
  <1> QED BY <1>1, <1>2, <1>3, <1>4 DEF AuthNext, Quiet
-----------------------------------------------------------------------------
(* What a step does to the tokens *)

RowFields == {"id", "owner", "grant", "expiresAt", "revoked"}

\* A token and a row are issued, and nothing else: to a login, or to a refresh for its grant.
Issues(r) ==
    /\ \E owner, admin, grant :
         /\ accessTokens' = accessTokens \union {SignedToken(r, owner, admin)}
         /\ refreshTokens' = refreshTokens \union {TokenRow(r, owner, grant)}
         /\ \/ request[r].op # "refresh" /\ grant = r
            \/ SaveRefreshToken(r) /\ \E row \in request[r].seen : grant = row.grant
    /\ request'[r].step = "answered"
    /\ UNCHANGED <<denylist, doubled>>

LEMMA TokenFrame ==
  ASSUME Asked, NEW r \in Requests, TokenStep(r) \/ AccountStep(r) \/ StatementFails(r)
  PROVE  \/ Issues(r) \/ RevokeRefreshToken(r) \/ revokeToken(r) \/ logout(r)
         \/ UNCHANGED <<refreshTokens, accessTokens, denylist, doubled>>
  <1>1. CASE issueToken(r)
    <2>1. PICK row \in request[r].seen : IssueTokens(r, Who(r), row.admin, r)
      BY <1>1 DEF issueToken
    <2>2. request'[r].step = "answered"
      BY <2>1, ReplyEffect DEF IssueTokens
    <2> QED BY <1>1, <2>1, <2>2 DEF IssueTokens, Issues, issueToken, At, history
  <1>2. CASE issueTokenForUser(r)
    <2>1. PICK row \in request[r].seen : IssueTokens(r, Who(r), row.admin, r)
      BY <1>2 DEF issueTokenForUser
    <2>2. request'[r].step = "answered"
      BY <2>1, ReplyEffect DEF IssueTokens
    <2> QED BY <1>2, <2>1, <2>2 DEF IssueTokens, Issues, issueTokenForUser, At, history
  <1>3. CASE SaveRefreshToken(r)
    <2>1. PICK row \in request[r].seen : IssueTokens(r, row.owner, merchants[row.owner].admin, row.grant)
      BY <1>3 DEF SaveRefreshToken
    <2>2. request'[r].step = "answered"
      BY <2>1, ReplyEffect DEF IssueTokens
    <2> QED BY <1>3, <2>1, <2>2 DEF IssueTokens, Issues, history
  <1>4. CASE \/ ValidateCredentials(r) \/ LoginWithPassword(r) \/ FindRefreshToken(r) \/ LookUpOwner(r)
             \/ introspectToken(r) \/ VerifyForLogout(r) \/ VerifyForAdmin(r) \/ AdminGuard(r)
             \/ StatementFails(r)
    BY <1>4 DEF ValidateCredentials, LoginWithPassword, FindRefreshToken, LookUpOwner, introspectToken,
       VerifyForLogout, VerifyForAdmin, AdminGuard, StatementFails, tokens, history
  <1>5. CASE AccountStep(r)
    BY <1>5 DEF AccountStep, createMerchant, FindMerchant, rotateSecret, rotateApiKey, updateMerchant,
       deleteMerchant, WriteMerchant, setActive, CheckPurge, MarkDeleted, RevokeApiKeys, purgeMerchant,
       CheckInvite, invite, setPassword, deactivateUser, tokens, history
  <1> QED BY <1>1, <1>2, <1>3, <1>4, <1>5 DEF TokenStep

LEMMA RevokedRow ==
  ASSUME NEW row, NEW id, DOMAIN row = RowFields, NEW other, other = IF row.id = id THEN [row EXCEPT !.revoked = TRUE] ELSE row
  PROVE  /\ DOMAIN other = RowFields /\ other.id = row.id /\ other.grant = row.grant
         /\ ~other.revoked => other = row /\ row.id # id
  BY DEF RowFields

\* What is left of a set of rows: some of them, some revoked, and no row live that was not.
LEMMA RevokedRows ==
  ASSUME NEW rows, NEW id, \A row \in rows : DOMAIN row = RowFields
  PROVE  /\ \A other \in Revoked(rows, id) : \E row \in rows :
              /\ other = (IF row.id = id THEN [row EXCEPT !.revoked = TRUE] ELSE row)
              /\ DOMAIN other = RowFields /\ other.id = row.id /\ other.grant = row.grant
              /\ ~other.revoked => other = row /\ row.id # id
  BY RevokedRow DEF Revoked
LEMMA RefreshSteps ==
  ASSUME NEW r \in Requests, TokenStep(r) \/ AccountStep(r) \/ StatementFails(r), request[r].op = "refresh"
  PROVE  FindRefreshToken(r) \/ RevokeRefreshToken(r) \/ LookUpOwner(r) \/ SaveRefreshToken(r) \/ StatementFails(r)
  BY DEF TokenStep, AccountStep, At, ValidateCredentials, LoginWithPassword, issueToken, issueTokenForUser,
     introspectToken, VerifyForLogout, VerifyForAdmin, AdminGuard, revokeToken, logout,
     createMerchant, FindMerchant, rotateSecret, rotateApiKey, updateMerchant,
     deleteMerchant, WriteMerchant, setActive, CheckPurge, MarkDeleted, RevokeApiKeys, purgeMerchant,
     CheckInvite, invite, setPassword, deactivateUser
-----------------------------------------------------------------------------
(* What the requests and the tokens are *)

\* A request for a token names one of an answered request.
RequestInv ==
    /\ Asked
    /\ \A r \in Requests :
         /\ request[r].op \in MerchantOps => request[r].who \in MerchantIds
         /\ request[r].op \in TokenOps => Answered(request[r].token)
         /\ request[r].step = "denylist" => request[r].op = "admin"
         /\ request[r].op = "refresh" =>
               \A row \in request[r].seen :
                   DOMAIN row = RowFields /\ row.id = request[r].token /\ Answered(row.grant)

\* What was issued carries the number of the request that issued it.
IssueInv ==
    /\ \A t \in accessTokens : Answered(t.jti) /\ t.exp \in Int
    /\ \A t, u \in accessTokens : t.jti = u.jti => t = u
    /\ \A row \in refreshTokens : DOMAIN row = RowFields /\ Answered(row.id) /\ Answered(row.grant)
    /\ \A row, other \in refreshTokens : row.id = other.id => row = other

ClockInv == clock \in 0 .. MaxNow /\ authFaults \in 0 .. MaxAuthFaults

LEMMA RequestStep ==
  ASSUME RequestInv, IssueInv, [AuthNext]_authVars
  PROVE  RequestInv'
  <1>0. Asked /\ Asked' /\ \A j : Answered(j) => request'[j] = request[j] /\ Answered(j)'
    BY NextAsked DEF RequestInv, Answered
  <1> DEFINE Kept(r) ==
               /\ request'[r].op \in MerchantOps => request'[r].who \in MerchantIds
               /\ request'[r].op \in TokenOps => Answered(request'[r].token)
               /\ request'[r].step = "denylist" => request'[r].op = "admin"
               /\ request'[r].op = "refresh" =>
                     \A row \in request'[r].seen :
                         DOMAIN row = RowFields /\ row.id = request'[r].token /\ Answered(row.grant)
  <1>1. ASSUME NEW r \in Requests, request'[r] = request[r]
        PROVE  Kept(r)
    BY <1>1 DEF RequestInv
  <1>2. ASSUME NEW r \in Requests, Arrivals(r)
        PROVE  Kept(r)
    <2>1. Asked /\ request'[r].step = "first" /\ request'[r].seen = {}
      BY <1>0, <1>2, ArrivalsEffect
    <2>2. request'[r].op \in MerchantOps => request'[r].who \in MerchantIds
      BY <1>0, <1>2, ArrivalsEffect
    <2>3. request'[r].op \in TokenOps => Answered(request'[r].token)
      BY <1>0, <1>2, ArrivalsEffect DEF IssueInv
    <2> QED BY <2>1, <2>2, <2>3
  <1>3. ASSUME NEW r \in Requests, TokenStep(r) \/ AccountStep(r) \/ StatementFails(r)
        PROVE  Kept(r)
    <2>1. Same(r) /\ (request'[r].step = "denylist" => VerifyForAdmin(r))
      BY <1>0, <1>3, StepEffect
    <2>2. request'[r].step = "denylist" => request'[r].op = "admin"
      BY <2>1 DEF VerifyForAdmin, At, Same
    <2>3. ASSUME request'[r].op = "refresh", NEW row \in request'[r].seen
          PROVE  DOMAIN row = RowFields /\ row.id = request'[r].token /\ Answered(row.grant)
      <3>1. \/ request'[r].seen = request[r].seen
            \/ request'[r].seen = {x \in refreshTokens : x.id = request[r].token}
        <4>1. CASE FindRefreshToken(r)
          BY <1>0, <4>1, GoOnEffect, ReplyEffect DEF FindRefreshToken
        <4>2. CASE RevokeRefreshToken(r)
          BY <1>0, <4>2, GoOnEffect DEF RevokeRefreshToken
        <4>3. CASE LookUpOwner(r)
          BY <1>0, <4>3, GoOnEffect, ReplyEffect DEF LookUpOwner
        <4>4. CASE request'[r].step = "answered"
          <5>1. request[r].op = "refresh" /\ request[r].step # "answered"
            BY <1>0, <1>3, <2>1, <2>3, StepEffect DEF Same
          <5>2. CASE SaveRefreshToken(r)
            BY <1>0, <5>2, ReplyEffect DEF SaveRefreshToken, IssueTokens
          <5>3. CASE StatementFails(r)
            BY <1>0, <5>3, ReplyEffect DEF StatementFails
          <5>4. CASE FindRefreshToken(r) \/ RevokeRefreshToken(r) \/ LookUpOwner(r)
            BY <5>4, <4>1, <4>2, <4>3
          <5> QED BY <1>3, <5>1, <5>2, <5>3, <5>4, RefreshSteps
        <4> QED BY <1>0, <1>3, <2>1, <2>3, <4>1, <4>2, <4>3, <4>4, StepEffect DEF Same
      <3>2. request[r].op = "refresh" /\ request'[r].token = request[r].token
        BY <2>1, <2>3 DEF Same
      <3> QED BY <2>3, <3>1, <3>2 DEF RequestInv, IssueInv
    <2> QED BY <2>1, <2>2, <2>3 DEF RequestInv, Same
  <1>4. ASSUME NEW r \in Requests, RestartAuth
        PROVE  Kept(r)
    <2>1. Same(r) /\ request'[r].seen = request[r].seen /\ (request'[r].step = "denylist" => request'[r] = request[r])
      BY <1>0, <1>4, RestartEffect
    <2> QED BY <2>1 DEF RequestInv, Same
  <1>5. ASSUME NEW r \in Requests PROVE Kept(r)
    <2>1. CASE Quiet
      BY <2>1, <1>1 DEF Quiet, AuthTick, purgeExpired, authVars
    <2>2. ASSUME NEW q \in Requests, Arrivals(q) \/ TokenStep(q) \/ AccountStep(q) \/ StatementFails(q) PROVE Kept(r)
      <3>1. CASE r = q
        BY <2>2, <3>1, <1>2, <1>3
      <3>2. CASE r # q
        <4>1. Others(q)
          BY <1>0, <2>2, ArrivalsEffect, StepEffect
        <4> QED BY <3>2, <4>1, <1>1 DEF Others
      <3> QED BY <3>1, <3>2
    <2> HIDE DEF Kept
    <2> QED BY <2>1, <2>2, <1>4 DEF AuthNext, Quiet
  <1> QED BY <1>0, <1>5 DEF RequestInv
LEMMA ClockStep ==
  ASSUME RequestInv, ClockInv, [AuthNext]_authVars
  PROVE  ClockInv' /\ clock' >= clock
  <1>0. Asked /\ MaxNow \in Nat /\ MaxAuthFaults \in Nat
    BY AuthAssumption DEF RequestInv
  <1>1. \/ UNCHANGED clock
        \/ clock < MaxNow /\ clock' = clock + 1
    BY <1>0, ArrivalsEffect, StepEffect DEF AuthNext, AuthTick, RestartAuth, purgeExpired, world, authVars
  <1>2. \/ UNCHANGED authFaults
        \/ authFaults < MaxAuthFaults /\ authFaults' = authFaults + 1
    <2>1. ASSUME NEW r \in Requests, TokenStep(r) \/ AccountStep(r) \/ StatementFails(r)
          PROVE  \/ UNCHANGED authFaults
                 \/ authFaults < MaxAuthFaults /\ authFaults' = authFaults + 1
      BY <2>1 DEF TokenStep, AccountStep, StatementFails, ValidateCredentials, issueToken, LoginWithPassword,
         issueTokenForUser, FindRefreshToken, RevokeRefreshToken, LookUpOwner, SaveRefreshToken, revokeToken,
         introspectToken, VerifyForLogout, logout, VerifyForAdmin, AdminGuard, createMerchant, FindMerchant,
         rotateSecret, rotateApiKey, updateMerchant, deleteMerchant, WriteMerchant, setActive, CheckPurge,
         MarkDeleted, RevokeApiKeys, purgeMerchant, CheckInvite, invite, setPassword, deactivateUser,
         IssueTokens, world
    <2> QED BY <1>0, <2>1, ArrivalsEffect DEF AuthNext, AuthTick, RestartAuth, purgeExpired, world, authVars
  <1> QED BY <1>0, <1>1, <1>2 DEF ClockInv

\* What is issued: a token and a row with the number of a request that had no answer.
LEMMA IssuedRows ==
  ASSUME RequestInv, IssueInv, ClockInv, NEW r \in Requests, Issues(r), request[r].step # "answered"
  PROVE  \E owner, admin, grant :
            /\ accessTokens' = accessTokens \union {SignedToken(r, owner, admin)}
            /\ refreshTokens' = refreshTokens \union {TokenRow(r, owner, grant)}
            /\ SignedToken(r, owner, admin).jti = r /\ SignedToken(r, owner, admin).exp \in Int
            /\ DOMAIN TokenRow(r, owner, grant) = RowFields /\ TokenRow(r, owner, grant).id = r
            /\ TokenRow(r, owner, grant).grant = grant /\ ~TokenRow(r, owner, grant).revoked
            /\ \/ grant = r
               \/ SaveRefreshToken(r) /\ Answered(grant) /\ \E row \in request[r].seen : grant = row.grant
  <1>1. PICK owner, admin, grant :
            /\ accessTokens' = accessTokens \union {SignedToken(r, owner, admin)}
            /\ refreshTokens' = refreshTokens \union {TokenRow(r, owner, grant)}
            /\ \/ request[r].op # "refresh" /\ grant = r
               \/ SaveRefreshToken(r) /\ \E row \in request[r].seen : grant = row.grant
    BY DEF Issues
  <1>2. SignedToken(r, owner, admin).jti = r /\ SignedToken(r, owner, admin).exp = clock + AccessTtl
    BY DEF SignedToken
  <1>3. clock + AccessTtl \in Int
    BY AuthAssumption DEF ClockInv
  <1>4. DOMAIN TokenRow(r, owner, grant) = RowFields /\ TokenRow(r, owner, grant).id = r
        /\ TokenRow(r, owner, grant).grant = grant /\ ~TokenRow(r, owner, grant).revoked
    BY DEF TokenRow, RowFields
  <1>5. SaveRefreshToken(r) => request[r].op = "refresh"
    BY DEF SaveRefreshToken, At
  <1>6. (\E row \in request[r].seen : grant = row.grant) /\ SaveRefreshToken(r) => Answered(grant)
    BY <1>5 DEF RequestInv
  <1> QED BY <1>1, <1>2, <1>3, <1>4, <1>6

LEMMA IssueStep ==
  ASSUME RequestInv, IssueInv, ClockInv, [AuthNext]_authVars
  PROVE  IssueInv'
  <1>0. Asked /\ \A j : Answered(j) => Answered(j)'
    BY NextAsked DEF RequestInv, Answered
  <1>1. ASSUME UNCHANGED accessTokens, refreshTokens' \subseteq refreshTokens
        PROVE  IssueInv'
    BY <1>0, <1>1 DEF IssueInv
  <1>2. ASSUME NEW id, UNCHANGED accessTokens, refreshTokens' = Revoked(refreshTokens, id)
        PROVE  IssueInv'
    <2>1. \A other \in refreshTokens' : \E row \in refreshTokens :
              /\ other = (IF row.id = id THEN [row EXCEPT !.revoked = TRUE] ELSE row)
              /\ DOMAIN other = RowFields /\ other.id = row.id /\ other.grant = row.grant
      BY <1>2, RevokedRows DEF IssueInv
    <2>2. \A row \in refreshTokens' : DOMAIN row = RowFields /\ Answered(row.id) /\ Answered(row.grant)
      BY <2>1 DEF IssueInv
    <2>3. ASSUME NEW x \in refreshTokens', NEW y \in refreshTokens', x.id = y.id
          PROVE  x = y
      <3>1. PICK row \in refreshTokens :
                x = (IF row.id = id THEN [row EXCEPT !.revoked = TRUE] ELSE row) /\ x.id = row.id
        BY <2>1
      <3>2. PICK other \in refreshTokens :
                y = (IF other.id = id THEN [other EXCEPT !.revoked = TRUE] ELSE other) /\ y.id = other.id
        BY <2>1
      <3>3. row = other
        BY <2>3, <3>1, <3>2 DEF IssueInv
      <3> QED BY <3>1, <3>2, <3>3
    <2> QED BY <1>0, <1>2, <2>2, <2>3 DEF IssueInv
  <1>3. ASSUME NEW r \in Requests, Issues(r), request[r].step # "answered"
        PROVE  IssueInv'
    <2>1. PICK owner, admin, grant :
            /\ accessTokens' = accessTokens \union {SignedToken(r, owner, admin)}
            /\ refreshTokens' = refreshTokens \union {TokenRow(r, owner, grant)}
            /\ SignedToken(r, owner, admin).jti = r /\ SignedToken(r, owner, admin).exp \in Int
            /\ DOMAIN TokenRow(r, owner, grant) = RowFields /\ TokenRow(r, owner, grant).id = r
            /\ TokenRow(r, owner, grant).grant = grant
            /\ grant = r \/ Answered(grant)
      BY <1>3, IssuedRows
    <2>2. PICK t : t = SignedToken(r, owner, admin)
      OBVIOUS
    <2>3. PICK new : new = TokenRow(r, owner, grant)
      OBVIOUS
    <2>4. Answered(r)' /\ ~Answered(r)
      BY <1>3 DEF Issues, Answered
    <2>5. \A u \in accessTokens' : Answered(u.jti)' /\ u.exp \in Int
      BY <1>0, <2>1, <2>2, <2>4 DEF IssueInv
    <2>6. \A u, v \in accessTokens' : u.jti = v.jti => u = v
      BY <2>1, <2>2, <2>4 DEF IssueInv
    <2>7. \A row \in refreshTokens' : DOMAIN row = RowFields /\ Answered(row.id)' /\ Answered(row.grant)'
      BY <1>0, <2>1, <2>3, <2>4 DEF IssueInv
    <2>8. \A row, other \in refreshTokens' : row.id = other.id => row = other
      BY <2>1, <2>3, <2>4 DEF IssueInv
    <2> QED BY <2>5, <2>6, <2>7, <2>8 DEF IssueInv
  <1>4. CASE Quiet
    <2>1. UNCHANGED accessTokens /\ refreshTokens' \subseteq refreshTokens
      BY <1>4 DEF Quiet, AuthTick, purgeExpired, authVars, tokens
    <2> QED BY <1>1, <2>1
  <1>5. CASE RestartAuth
    BY <1>1, <1>5 DEF RestartAuth, tokens
  <1>6. ASSUME NEW r \in Requests, Arrivals(r) PROVE IssueInv'
    BY <1>0, <1>1, <1>6, ArrivalsEffect DEF tokens
  <1>7. ASSUME NEW r \in Requests, TokenStep(r) \/ AccountStep(r) \/ StatementFails(r) PROVE IssueInv'
    <2>1. request[r].step # "answered"
      BY <1>0, <1>7, StepEffect
    <2>2. CASE RevokeRefreshToken(r)
      BY <1>2, <2>2 DEF RevokeRefreshToken, RevokeById
    <2>3. CASE revokeToken(r)
      BY <1>2, <2>3 DEF revokeToken
    <2>4. CASE logout(r)
      BY <1>1, <2>4 DEF logout
    <2> QED BY <1>0, <1>1, <1>3, <1>7, <2>1, <2>2, <2>3, <2>4, TokenFrame
  <1> QED BY <1>4, <1>5, <1>6, <1>7 DEF AuthNext, Quiet
-----------------------------------------------------------------------------
(* One live refresh token per grant *)

Live(g) == {row \in refreshTokens : row.grant = g /\ ~row.revoked}
Revokes(r) == request[r].op = "refresh" /\ request[r].step = "revoke"
Exchanges(r) == request[r].op = "refresh" /\ request[r].step \in {"lookup", "save"}
Refreshes(r) == Revokes(r) \/ Exchanges(r)

\* What is live of a grant is what a refresh about to revoke has read; once it
\* has revoked it nothing is live before it saves the next one; and refreshes
\* side by side are all about to revoke the same row.
GrantOf(g) ==
    /\ \A row, other \in Live(g) : row = other
    /\ \A r \in Requests : Revokes(r) =>
          \A row \in request[r].seen : row.grant = g => \A other \in Live(g) : other = row
    /\ \A r \in Requests : Exchanges(r) => \A row \in request[r].seen : row.grant = g => Live(g) = {}
    /\ \A r, q \in Requests : r # q /\ Refreshes(r) /\ Refreshes(q) =>
          \A row \in request[r].seen, other \in request[q].seen :
              row.grant = g /\ other.grant = g => Revokes(r) /\ Revokes(q) /\ row = other

GrantInv == \A g \in Requests \ doubled : GrantOf(g)

\* Nothing new is live, and no refresh begins.
LEMMA NothingBegins ==
  ASSUME NEW g, GrantOf(g), Live(g)' \subseteq Live(g),
         \A r \in Requests : Refreshes(r)' =>
             /\ Refreshes(r) /\ (Revokes(r)' <=> Revokes(r)) /\ request'[r].seen = request[r].seen
  PROVE  GrantOf(g)'
  <1>1. \A r \in Requests : (Revokes(r)' => Refreshes(r)') /\ (Exchanges(r)' => Refreshes(r)')
    BY DEF Refreshes
  <1>2. \A r \in Requests : Exchanges(r)' => Exchanges(r)
    BY <1>1 DEF Refreshes, Revokes, Exchanges
  <1>3. \A row, other \in Live(g)' : row = other
    BY DEF GrantOf
  <1>4. ASSUME NEW r \in Requests, Revokes(r)', NEW row \in request'[r].seen, row.grant = g, NEW other \in Live(g)'
        PROVE  other = row
    BY <1>1, <1>4 DEF GrantOf
  <1>5. ASSUME NEW r \in Requests, Exchanges(r)', NEW row \in request'[r].seen, row.grant = g
        PROVE  Live(g)' = {}
    BY <1>1, <1>2, <1>5 DEF GrantOf
  <1>6. ASSUME NEW r \in Requests, NEW q \in Requests, r # q, Refreshes(r)', Refreshes(q)',
               NEW row \in request'[r].seen, NEW other \in request'[q].seen, row.grant = g, other.grant = g
        PROVE  Revokes(r)' /\ Revokes(q)' /\ row = other
    BY <1>6 DEF GrantOf
  <1> QED BY <1>3, <1>4, <1>5, <1>6 DEF GrantOf

\* A refresh that finds a live row of the grant.
LEMMA FindKeepsGrant ==
  ASSUME RequestInv, IssueInv, NEW r \in Requests, FindRefreshToken(r), NEW g, GrantOf(g)
  PROVE  GrantOf(g)'
  <1>0. Asked /\ At(r, "refresh", "first") /\ Others(r) /\ Same(r)
    <2>1. TokenStep(r)
      BY DEF TokenStep
    <2> QED BY <2>1, StepEffect DEF RequestInv, FindRefreshToken
  <1>1. Live(g)' = Live(g)
    BY DEF FindRefreshToken, Live, tokens
  <1>2. ASSUME NEW q \in Requests, q # r
        PROVE  /\ request'[q] = request[q] /\ (Revokes(q)' <=> Revokes(q))
               /\ (Exchanges(q)' <=> Exchanges(q)) /\ (Refreshes(q)' <=> Refreshes(q))
    BY <1>0, <1>2 DEF Others, Revokes, Exchanges, Refreshes
  <1>3. CASE request'[r].step = "answered"
    <2>1. ~Refreshes(r)'
      BY <1>3 DEF Refreshes, Revokes, Exchanges
    <2> QED BY <1>1, <1>2, <2>1, NothingBegins
  <1>4. CASE request'[r].step # "answered"
    <2> DEFINE rows == {row \in refreshTokens : row.id = request[r].token}
    <2>1. (\E row \in rows : IsValidToken(row)) /\ GoOn(r, "revoke", rows)
      BY <1>0, <1>4, ReplyEffect DEF FindRefreshToken
    <2>2. request'[r].seen = rows /\ Revokes(r)' /\ ~Exchanges(r)'
      BY <1>0, <2>1, GoOnEffect DEF Revokes, Exchanges, Same, At
    <2>3. PICK x \in rows : ~x.revoked
      BY <2>1 DEF IsValidToken
    <2>4. \A row \in rows : row = x
      BY <2>3 DEF IssueInv
    <2>5. CASE x.grant # g
      BY <1>1, <1>2, <2>2, <2>4, <2>5 DEF GrantOf, Refreshes
    <2>6. CASE x.grant = g
      <3>1. x \in Live(g)
        BY <2>3, <2>6 DEF Live
      <3>2. \A row \in Live(g) : row = x
        BY <3>1 DEF GrantOf
      <3>3. \A q \in Requests \ {r} : Refreshes(q) => \A row \in request[q].seen : row.grant = g => Revokes(q) /\ row = x
        BY <3>1 DEF GrantOf, Refreshes
      <3>4. \A row \in request'[r].seen : row = x
        BY <2>2, <2>4
      <3>5. ASSUME NEW q \in Requests, Revokes(q)', NEW row \in request'[q].seen, row.grant = g
            PROVE  \A other \in Live(g)' : other = row
        BY <1>1, <1>2, <3>2, <3>3, <3>4, <3>5 DEF Refreshes
      <3>6. ASSUME NEW q \in Requests, Exchanges(q)', NEW row \in request'[q].seen
            PROVE  row.grant # g
        <4>1. q # r
          BY <2>2, <3>6
        <4>2. Exchanges(q) /\ ~Revokes(q) /\ Refreshes(q) /\ row \in request[q].seen
          BY <1>2, <3>6, <4>1 DEF Exchanges, Revokes, Refreshes
        <4> QED BY <3>3, <4>1, <4>2
      <3>7. ASSUME NEW p \in Requests, NEW q \in Requests, p # q, Refreshes(p)', Refreshes(q)',
                   NEW row \in request'[p].seen, NEW other \in request'[q].seen, row.grant = g, other.grant = g
            PROVE  Revokes(p)' /\ Revokes(q)' /\ row = other
        <4>1. \A z \in Requests : Refreshes(z)' =>
                 \A y \in request'[z].seen : y.grant = g => Revokes(z)' /\ y = x
          BY <1>2, <2>2, <3>3, <3>4
        <4> QED BY <3>7, <4>1
      <3> QED BY <1>1, <3>2, <3>5, <3>6, <3>7 DEF GrantOf
    <2> QED BY <2>5, <2>6
  <1> QED BY <1>3, <1>4
\* A refresh that revokes: another one about to revoke the row puts the grant among the doubled.
LEMMA RevokeKeepsGrant ==
  ASSUME RequestInv, IssueInv, NEW r \in Requests, RevokeRefreshToken(r), NEW g, GrantOf(g), g \notin doubled'
  PROVE  GrantOf(g)'
  <1>0. /\ Asked /\ At(r, "refresh", "revoke") /\ Others(r) /\ Same(r)
        /\ request'[r].step = "lookup" /\ request'[r].seen = request[r].seen
    BY GoOnEffect DEF RequestInv, RevokeRefreshToken
  <1>1. refreshTokens' = Revoked(refreshTokens, request[r].token)
    BY DEF RevokeRefreshToken, RevokeById
  <1>2. \A other \in Live(g)' : other \in Live(g) /\ other.id # request[r].token
    BY <1>1, RevokedRows DEF Live, IssueInv
  <1>3. ASSUME NEW q \in Requests, q # r
        PROVE  /\ request'[q] = request[q] /\ (Revokes(q)' <=> Revokes(q))
               /\ (Exchanges(q)' <=> Exchanges(q)) /\ (Refreshes(q)' <=> Refreshes(q))
    BY <1>0, <1>3 DEF Others, Revokes, Exchanges, Refreshes
  <1>4. Revokes(r) /\ Refreshes(r) /\ Exchanges(r)' /\ ~Revokes(r)'
    BY <1>0 DEF At, Revokes, Exchanges, Refreshes, Same
  <1>5. CASE \A row \in request[r].seen : row.grant # g
    <2>1. \A row, other \in Live(g)' : row = other
      BY <1>2 DEF GrantOf
    <2>2. \A q \in Requests : Revokes(q)' =>
             \A row \in request'[q].seen : row.grant = g => \A other \in Live(g)' : other = row
      BY <1>2, <1>3, <1>4 DEF GrantOf
    <2>3. \A q \in Requests : Exchanges(q)' => \A row \in request'[q].seen : row.grant = g => Live(g)' = {}
      BY <1>0, <1>2, <1>3, <1>5 DEF GrantOf
    <2>4. \A p, q \in Requests : p # q /\ Refreshes(p)' /\ Refreshes(q)' =>
             \A row \in request'[p].seen, other \in request'[q].seen :
                 row.grant = g /\ other.grant = g => Revokes(p)' /\ Revokes(q)' /\ row = other
      BY <1>0, <1>3, <1>5 DEF GrantOf
    <2> QED BY <2>1, <2>2, <2>3, <2>4 DEF GrantOf
  <1>6. ASSUME NEW x \in request[r].seen, x.grant = g
        PROVE  GrantOf(g)'
    <2>1. x.id = request[r].token
      BY <1>0, <1>6 DEF RequestInv, At
    <2>2. \A other \in Live(g) : other = x
      BY <1>4, <1>6 DEF GrantOf
    <2>3. Live(g)' = {}
      BY <1>2, <2>1, <2>2
    <2>4. ASSUME NEW q \in Requests, q # r, Refreshes(q), NEW other \in request[q].seen
          PROVE  other.grant # g
      <3>1. SUFFICES ASSUME other.grant = g PROVE FALSE
        OBVIOUS
      <3>2. Revokes(q) /\ x = other
        BY <1>4, <1>6, <2>4, <3>1 DEF GrantOf
      <3>3. request[q].op = "refresh" /\ request[q].answer # "500"
        BY <1>0, <3>2 DEF Revokes, Asked
      <3>4. x \in {y \in request[r].seen : \E p \in Requests \ {r} : /\ request[p].op = "refresh" /\ request[p].answer # "500"
                                                                   /\ y \in request[p].seen}
        BY <1>6, <2>4, <3>2, <3>3
      <3>5. x.grant \in doubled'
        BY <3>4 DEF RevokeRefreshToken
      <3> QED BY <1>6, <3>5
    <2>5. \A q \in Requests : Refreshes(q)' => \A other \in request'[q].seen : other.grant = g => q = r
      BY <1>3, <2>4
    <2>6. ~Revokes(r)'
      BY <1>4
    <2> QED BY <2>3, <2>5, <2>6 DEF GrantOf, Refreshes
  <1> QED BY <1>5, <1>6

\* A row is saved for a grant of which nothing is live, by its one refresh or its login.
LEMMA IssueKeepsGrant ==
  ASSUME RequestInv, IssueInv, ClockInv, NEW r \in Requests, Issues(r), request[r].step # "answered",
         Others(r), NEW g, GrantOf(g)
  PROVE  GrantOf(g)'
  <1>1. PICK owner, admin, grant :
            /\ refreshTokens' = refreshTokens \union {TokenRow(r, owner, grant)}
            /\ TokenRow(r, owner, grant).grant = grant
            /\ \/ grant = r
               \/ SaveRefreshToken(r) /\ Answered(grant) /\ \E row \in request[r].seen : grant = row.grant
    BY IssuedRows
  <1>2. PICK new : new = TokenRow(r, owner, grant)
    OBVIOUS
  <1>3. ASSUME NEW q \in Requests, Refreshes(q)'
        PROVE  /\ q # r /\ request'[q] = request[q] /\ (Revokes(q)' <=> Revokes(q))
               /\ (Exchanges(q)' <=> Exchanges(q)) /\ Refreshes(q)
    BY <1>3 DEF Others, Revokes, Exchanges, Refreshes, Issues
  <1>4. CASE grant # g
    <2>1. Live(g)' = Live(g)
      BY <1>1, <1>2, <1>4 DEF Live
    <2> QED BY <1>3, <2>1, NothingBegins
  <1>5. CASE grant = g
    <2>1. Live(g) = {} /\ \A q \in Requests : q # r /\ Refreshes(q) => \A row \in request[q].seen : row.grant # g
      <3>1. CASE grant = r
        <4>1. ~Answered(g)
          BY <1>5, <3>1 DEF Answered
        <4>2. \A q \in Requests : Refreshes(q) => request[q].op = "refresh"
          BY DEF Refreshes, Revokes, Exchanges
        <4> QED BY <4>1, <4>2 DEF RequestInv, IssueInv, Live
      <3>2. CASE SaveRefreshToken(r) /\ \E row \in request[r].seen : grant = row.grant
        <4>1. Exchanges(r) /\ ~Revokes(r) /\ Refreshes(r)
          BY <3>2 DEF SaveRefreshToken, At, Exchanges, Revokes, Refreshes
        <4> QED BY <1>5, <3>2, <4>1 DEF GrantOf
      <3> QED BY <1>1, <3>1, <3>2
    <2>2. \A row \in Live(g)' : row = new
      BY <1>1, <1>2, <2>1 DEF Live
    <2>3. \A q \in Requests : Refreshes(q)' => \A row \in request'[q].seen : row.grant # g
      BY <1>3, <2>1
    <2> QED BY <2>2, <2>3 DEF GrantOf, Refreshes
  <1> QED BY <1>4, <1>5

LEMMA GrantStep ==
  ASSUME RequestInv, IssueInv, ClockInv, GrantInv, [AuthNext]_authVars
  PROVE  GrantInv'
  <1>0. Asked
    BY DEF RequestInv
  <1>1. ASSUME NEW g \in Requests, g \notin doubled, refreshTokens' \subseteq refreshTokens, UNCHANGED request
        PROVE  GrantOf(g)'
    <2>1. Live(g)' \subseteq Live(g)
      BY <1>1 DEF Live
    <2>2. GrantOf(g)
      BY <1>1 DEF GrantInv
    <2> QED BY <1>1, <2>1, <2>2, NothingBegins DEF Refreshes, Revokes, Exchanges
  <1>2. CASE Quiet
    BY <1>1, <1>2 DEF Quiet, AuthTick, purgeExpired, authVars, tokens, history, GrantInv
  <1>3. CASE RestartAuth
    <2>1. UNCHANGED <<refreshTokens, doubled>>
      BY <1>3 DEF RestartAuth, tokens
    <2>2. ASSUME NEW r \in Requests, Refreshes(r)' PROVE UNCHANGED request[r]
      BY <1>0, <1>3, <2>2, RestartEffect DEF Refreshes, Revokes, Exchanges
    <2>3. ASSUME NEW g \in Requests, g \notin doubled PROVE GrantOf(g)'
      <3>1. Live(g)' = Live(g)
        BY <2>1 DEF Live
      <3>2. GrantOf(g)
        BY <2>3 DEF GrantInv
      <3> QED BY <2>2, <3>1, <3>2, NothingBegins DEF Refreshes, Revokes, Exchanges
    <2> QED BY <2>1, <2>3 DEF GrantInv
  <1>4. ASSUME NEW r \in Requests, Arrivals(r) PROVE GrantInv'
    <2>1. /\ Others(r) /\ request'[r].step = "first"
          /\ UNCHANGED <<refreshTokens, doubled>>
      BY <1>0, <1>4, ArrivalsEffect DEF tokens, history
    <2>2. ASSUME NEW q \in Requests, Refreshes(q)' PROVE UNCHANGED request[q]
      BY <2>1, <2>2 DEF Others, Refreshes, Revokes, Exchanges
    <2>3. ASSUME NEW g \in Requests, g \notin doubled PROVE GrantOf(g)'
      <3>1. Live(g)' = Live(g)
        BY <2>1 DEF Live
      <3>2. GrantOf(g)
        BY <2>3 DEF GrantInv
      <3> QED BY <2>2, <3>1, <3>2, NothingBegins DEF Refreshes, Revokes, Exchanges
    <2> QED BY <2>1, <2>3 DEF GrantInv
  <1>5. ASSUME NEW r \in Requests, TokenStep(r) \/ AccountStep(r) \/ StatementFails(r) PROVE GrantInv'
    <2>0. Others(r) /\ Same(r) /\ request[r].step # "answered"
      BY <1>0, <1>5, StepEffect
    <2>1. CASE FindRefreshToken(r)
      BY <2>1, FindKeepsGrant DEF GrantInv, FindRefreshToken, history
    <2>2. CASE RevokeRefreshToken(r)
      <3>1. doubled \subseteq doubled'
        BY <2>2 DEF RevokeRefreshToken
      <3> QED BY <2>2, <3>1, RevokeKeepsGrant DEF GrantInv
    <2>3. CASE Issues(r)
      BY <2>0, <2>3, IssueKeepsGrant DEF GrantInv, Issues
    <2>4. CASE ~FindRefreshToken(r) /\ ~RevokeRefreshToken(r) /\ ~Issues(r)
      <3>1. UNCHANGED doubled /\ \A g : Live(g)' \subseteq Live(g)
        <4>1. CASE revokeToken(r)
          <5>1. refreshTokens' = Revoked(refreshTokens, request[r].token) /\ UNCHANGED doubled
            BY <4>1 DEF revokeToken, history
          <5> QED BY <5>1, RevokedRows DEF Live, IssueInv
        <4>2. CASE logout(r)
          BY <4>2 DEF logout, history, Live
        <4> QED BY <1>0, <1>5, <2>4, <4>1, <4>2, TokenFrame DEF Live
      <3>2. ASSUME NEW q \in Requests, Refreshes(q)'
            PROVE  Refreshes(q) /\ (Revokes(q)' <=> Revokes(q)) /\ request'[q].seen = request[q].seen
        <4>1. CASE q # r
          BY <2>0, <3>2, <4>1 DEF Others, Refreshes, Revokes, Exchanges
        <4>2. CASE q = r
          <5>1. LookUpOwner(r)
            BY <1>0, <1>5, <2>0, <2>4, <3>2, <4>2, StepEffect DEF Refreshes, Revokes, Exchanges, Same
          <5>2. request[r].step = "lookup" /\ (request'[r].step = "save" \/ request'[r].step = "answered")
                /\ request'[r].seen = request[r].seen
            BY <1>0, <5>1, GoOnEffect, ReplyEffect DEF LookUpOwner, At
          <5> QED BY <2>0, <3>2, <4>2, <5>2 DEF Refreshes, Revokes, Exchanges, Same
        <4> QED BY <4>1, <4>2
      <3>3. ASSUME NEW g \in Requests, g \notin doubled PROVE GrantOf(g)'
        <4>1. GrantOf(g)
          BY <3>3 DEF GrantInv
        <4> QED BY <3>1, <3>2, <4>1, NothingBegins
      <3> QED BY <3>1, <3>3 DEF GrantInv
    <2> QED BY <2>1, <2>2, <2>3, <2>4
  <1> QED BY <1>2, <1>3, <1>4, <1>5 DEF AuthNext, Quiet
-----------------------------------------------------------------------------
(* The last rotation *)

MerchantFields == {"deleted", "active", "admin", "secret", "apiKey"}
IsMerchant(m) == DOMAIN merchants[m] = MerchantFields

\* A row is never removed, so that what found one still has it when it writes.
SecretInv ==
    /\ merchants = [m \in MerchantIds |-> merchants[m]] /\ latest = [m \in MerchantIds |-> latest[m]]
    /\ \A m \in MerchantIds : merchants[m] = NoRow \/ IsMerchant(m)
    /\ \A m \in SeedMerchants \intersect MerchantIds : IsMerchant(m)
    /\ \A r \in Requests :
          (request[r].op = "rotateSecret" /\ request[r].step = "write")
              \/ (request[r].op = "purge" /\ request[r].step = "mark") => IsMerchant(request[r].who)
    /\ \A m \in MerchantIds : latest[m] # 0 => IsMerchant(m)
    /\ RotatedSecretIsTheOne

LEMMA NoRowIsNoMerchant == DOMAIN NoRow # MerchantFields
  <1>1. "none" \in DOMAIN NoRow
    BY DEF NoRow
  <1> QED BY <1>1 DEF MerchantFields

\* The rows: each stays, or changes in another field than its secret.
SecretsKept ==
    /\ merchants' = [m \in MerchantIds |-> merchants'[m]]
    /\ \A m \in MerchantIds :
          \/ merchants'[m] = merchants[m]
          \/ IsMerchant(m) /\ IsMerchant(m)' /\ merchants'[m].secret = merchants[m].secret

LEMMA OneRowKept ==
  ASSUME SecretInv, NEW m \in MerchantIds, IsMerchant(m), NEW row,
         DOMAIN row = MerchantFields, row.secret = merchants[m].secret,
         merchants' = [merchants EXCEPT ![m] = row]
  PROVE  SecretsKept
  BY DEF SecretInv, SecretsKept, IsMerchant

LEMMA ExistingIsMerchant ==
  ASSUME SecretInv, NEW m \in MerchantIds, Exists(m)
  PROVE  IsMerchant(m)
  BY DEF SecretInv, Exists

LEMMA MerchantFrame ==
  ASSUME RequestInv, SecretInv, NEW r \in Requests, TokenStep(r) \/ AccountStep(r) \/ StatementFails(r)
  PROVE  \/ rotateSecret(r) \/ createMerchant(r)
         \/ SecretsKept /\ UNCHANGED <<latest, reset>>
  <1>0. UNCHANGED merchants => SecretsKept
    BY DEF SecretsKept, SecretInv
  <1>1. CASE TokenStep(r) \/ StatementFails(r)
    <2>1. UNCHANGED <<merchants, latest, reset>>
      BY <1>1 DEF TokenStep, StatementFails, ValidateCredentials, LoginWithPassword, issueToken, issueTokenForUser,
         IssueTokens, FindRefreshToken, RevokeRefreshToken, LookUpOwner, SaveRefreshToken, revokeToken,
         introspectToken, VerifyForLogout, logout, VerifyForAdmin, AdminGuard, accounts, history
    <2> QED BY <1>0, <2>1
  <1>2. CASE \/ FindMerchant(r) \/ CheckPurge(r) \/ RevokeApiKeys(r) \/ purgeMerchant(r)
             \/ CheckInvite(r) \/ invite(r) \/ setPassword(r) \/ deactivateUser(r)
    <2>1. UNCHANGED <<merchants, latest, reset>>
      BY <1>2 DEF FindMerchant, CheckPurge, RevokeApiKeys, purgeMerchant, CheckInvite, invite, setPassword,
         deactivateUser, accounts, history
    <2> QED BY <1>0, <2>1
  <1>3. ASSUME request[r].op \in MerchantOps PROVE Who(r) \in MerchantIds
    BY <1>3 DEF RequestInv, Who
  <1>4. ASSUME NEW op \in {"rotateApiKey", "update", "delete"}, NEW row, WriteMerchant(r, op, row),
               IsMerchant(Who(r)) => DOMAIN row = MerchantFields /\ row.secret = merchants[Who(r)].secret
        PROVE  SecretsKept /\ UNCHANGED <<latest, reset>>
    <2>1. Who(r) \in MerchantIds
      BY <1>3, <1>4 DEF WriteMerchant, At, MerchantOps
    <2>2. UNCHANGED <<latest, reset>>
      BY <1>4 DEF WriteMerchant, history
    <2>3. CASE Exists(Who(r))
      BY <1>4, <2>1, <2>2, <2>3, ExistingIsMerchant, OneRowKept DEF WriteMerchant
    <2>4. CASE ~Exists(Who(r))
      BY <1>0, <1>4, <2>2, <2>4 DEF WriteMerchant
    <2> QED BY <2>3, <2>4
  <1>5. CASE rotateApiKey(r)
    <2>1. IsMerchant(Who(r)) => LET row == [merchants[Who(r)] EXCEPT !.apiKey = r]
                                IN  DOMAIN row = MerchantFields /\ row.secret = merchants[Who(r)].secret
      BY DEF IsMerchant, MerchantFields
    <2> QED BY <1>4, <1>5, <2>1 DEF rotateApiKey
  <1>6. CASE updateMerchant(r)
    <2>1. IsMerchant(Who(r)) => LET row == [merchants[Who(r)] EXCEPT !.active = request[r].token = 1]
                                IN  DOMAIN row = MerchantFields /\ row.secret = merchants[Who(r)].secret
      BY DEF IsMerchant, MerchantFields
    <2> QED BY <1>4, <1>6, <2>1 DEF updateMerchant
  <1>7. CASE deleteMerchant(r)
    <2>1. IsMerchant(Who(r)) => LET row == [merchants[Who(r)] EXCEPT !.deleted = TRUE]
                                IN  DOMAIN row = MerchantFields /\ row.secret = merchants[Who(r)].secret
      BY DEF IsMerchant, MerchantFields
    <2> QED BY <1>4, <1>7, <2>1 DEF deleteMerchant
  <1>8. CASE setActive(r)
    <2>1. Who(r) \in MerchantIds /\ UNCHANGED <<latest, reset>>
      BY <1>3, <1>8 DEF setActive, At, MerchantOps, history
    <2>2. CASE Exists(Who(r))
      <3>1. IsMerchant(Who(r))
        BY <2>1, <2>2, ExistingIsMerchant
      <3>2. PICK row : row = [merchants[Who(r)] EXCEPT !.active = request[r].token = 1]
        OBVIOUS
      <3>3. DOMAIN row = MerchantFields /\ row.secret = merchants[Who(r)].secret
        BY <3>1, <3>2 DEF IsMerchant, MerchantFields
      <3>4. merchants' = [merchants EXCEPT ![Who(r)] = row]
        BY <1>8, <2>2, <3>2 DEF setActive
      <3> QED BY <2>1, <3>1, <3>3, <3>4, OneRowKept
    <2>3. CASE ~Exists(Who(r))
      BY <1>0, <1>8, <2>1, <2>3 DEF setActive
    <2> QED BY <2>2, <2>3
  <1>9. CASE MarkDeleted(r)
    <2>1. Who(r) \in MerchantIds /\ UNCHANGED <<latest, reset>>
      BY <1>3, <1>9 DEF MarkDeleted, At, MerchantOps, history
    <2>2. IsMerchant(Who(r))
      BY <1>9 DEF MarkDeleted, At, Who, SecretInv
    <2>3. PICK row : row = [merchants[Who(r)] EXCEPT !.deleted = TRUE]
      OBVIOUS
    <2>4. DOMAIN row = MerchantFields /\ row.secret = merchants[Who(r)].secret
      BY <2>2, <2>3 DEF IsMerchant, MerchantFields
    <2>5. merchants' = [merchants EXCEPT ![Who(r)] = row]
      BY <1>9, <2>3 DEF MarkDeleted
    <2> QED BY <2>1, <2>2, <2>4, <2>5, OneRowKept
  <1> QED BY <1>1, <1>2, <1>5, <1>6, <1>7, <1>8, <1>9 DEF AccountStep
\* What finds a merchant before it writes.
LEMMA FoundBeforeWrite ==
  ASSUME RequestInv, NEW r \in Requests, TokenStep(r) \/ AccountStep(r) \/ StatementFails(r),
         \/ request'[r].op = "rotateSecret" /\ request'[r].step = "write"
         \/ request'[r].op = "purge" /\ request'[r].step = "mark"
  PROVE  Exists(Who(r)) /\ Who(r) \in MerchantIds
  <1>0. Asked /\ Same(r)
    BY StepEffect DEF RequestInv
  <1>1. Who(r) \in MerchantIds
    BY <1>0 DEF RequestInv, Who, MerchantOps, Same
  <1>2. CASE request[r].op = "rotateSecret"
    <2>1. FindMerchant(r) \/ rotateSecret(r) \/ StatementFails(r)
      BY <1>2 DEF TokenStep, AccountStep, At, ValidateCredentials, LoginWithPassword, issueToken, issueTokenForUser,
         FindRefreshToken, RevokeRefreshToken, LookUpOwner, SaveRefreshToken,
         introspectToken, VerifyForLogout, VerifyForAdmin, AdminGuard, revokeToken, logout,
         createMerchant, rotateApiKey, updateMerchant, deleteMerchant, WriteMerchant, setActive,
         CheckPurge, MarkDeleted, RevokeApiKeys, purgeMerchant, CheckInvite, invite, setPassword, deactivateUser
    <2>2. rotateSecret(r) \/ StatementFails(r) => request'[r].step = "answered"
      BY <1>0, ReplyEffect DEF rotateSecret, StatementFails
    <2>3. FindMerchant(r) => Exists(Who(r)) \/ request'[r].step = "answered"
      BY <1>0, ReplyEffect DEF FindMerchant
    <2> QED BY <1>0, <1>1, <1>2, <2>1, <2>2, <2>3 DEF Same
  <1>3. CASE request[r].op = "purge"
    <2>1. CheckPurge(r) \/ MarkDeleted(r) \/ RevokeApiKeys(r) \/ purgeMerchant(r) \/ StatementFails(r)
      BY <1>3 DEF TokenStep, AccountStep, At, ValidateCredentials, LoginWithPassword, issueToken, issueTokenForUser,
         FindRefreshToken, RevokeRefreshToken, LookUpOwner, SaveRefreshToken,
         introspectToken, VerifyForLogout, VerifyForAdmin, AdminGuard, revokeToken, logout,
         createMerchant, FindMerchant, rotateSecret, rotateApiKey, updateMerchant, deleteMerchant, WriteMerchant,
         setActive, CheckInvite, invite, setPassword, deactivateUser
    <2>2. purgeMerchant(r) \/ StatementFails(r) => request'[r].step = "answered"
      BY <1>0, ReplyEffect DEF purgeMerchant, StatementFails
    <2>3. CheckPurge(r) => Exists(Who(r)) \/ request'[r].step = "answered"
      BY <1>0, ReplyEffect DEF CheckPurge
    <2>4. MarkDeleted(r) => request'[r].step = "keys"
      BY <1>0, GoOnEffect DEF MarkDeleted
    <2>5. RevokeApiKeys(r) => request'[r].step = "audit"
      BY <1>0, GoOnEffect DEF RevokeApiKeys
    <2> QED BY <1>0, <1>1, <1>3, <2>1, <2>2, <2>3, <2>4, <2>5 DEF Same
  <1> QED BY <1>0, <1>2, <1>3 DEF Same

LEMMA SecretStep ==
  ASSUME RequestInv, SecretInv, [AuthNext]_authVars
  PROVE  SecretInv'
  <1>0. Asked
    BY DEF RequestInv
  <1> DEFINE After(m) == DOMAIN merchants'[m] = MerchantFields
             Writes(q) == \/ q.op = "rotateSecret" /\ q.step = "write"
                          \/ q.op = "purge" /\ q.step = "mark"
             Rows == /\ merchants = [m \in MerchantIds |-> merchants[m]] /\ latest = [m \in MerchantIds |-> latest[m]]
                     /\ \A m \in MerchantIds : merchants[m] = NoRow \/ IsMerchant(m)
                     /\ \A m \in SeedMerchants \intersect MerchantIds : IsMerchant(m)
                     /\ \A m \in MerchantIds : latest[m] # 0 => IsMerchant(m)
                     /\ RotatedSecretIsTheOne
  <1>1. SecretInv <=> Rows /\ \A r \in Requests : Writes(request[r]) => IsMerchant(request[r].who)
    BY DEF SecretInv
  <1>2. SecretInv' <=> Rows' /\ \A r \in Requests : Writes(request'[r]) => After(request'[r].who)
    BY DEF SecretInv, IsMerchant
  <1>3. ASSUME SecretsKept, UNCHANGED <<latest, reset>>
        PROVE  Rows' /\ \A m \in MerchantIds : IsMerchant(m) => After(m)
    <2>1. \A m \in MerchantIds : (IsMerchant(m) => After(m)) /\ (IsMerchant(m) => merchants'[m].secret = merchants[m].secret)
      BY <1>3 DEF SecretsKept, IsMerchant
    <2>2. \A m \in MerchantIds : merchants'[m] = NoRow \/ After(m)
      BY <1>1, <1>3 DEF SecretsKept, IsMerchant
    <2>3. RotatedSecretIsTheOne'
      BY <1>1, <1>3, <2>1 DEF RotatedSecretIsTheOne
    <2> QED BY <1>1, <1>3, <2>1, <2>2, <2>3 DEF SecretsKept, IsMerchant
  <1>4. UNCHANGED merchants => SecretsKept
    BY DEF SecretsKept, SecretInv
  <1>5. \A r \in Requests : Writes(request[r]) => request[r].who \in MerchantIds
    BY DEF RequestInv, MerchantOps
  <1>6. CASE Quiet
    <2>1. UNCHANGED <<merchants, latest, reset, request>>
      BY <1>6 DEF Quiet, AuthTick, purgeExpired, authVars, accounts, history
    <2> HIDE DEF Rows, Writes
    <2> QED BY <1>1, <1>2, <1>3, <1>4, <1>5, <2>1
  <1>7. CASE RestartAuth
    <2>1. merchants' = [m \in MerchantIds |->
              IF m \in SeedMerchants /\ ~Production THEN [merchants[m] EXCEPT !.secret = 0, !.active = TRUE]
                                                    ELSE merchants[m]]
      BY <1>7 DEF RestartAuth, SeedAgain
    <2>2. UNCHANGED latest /\ (~Production => reset' = reset \union SeedMerchants) /\ (Production => UNCHANGED reset)
      BY <1>7 DEF RestartAuth, SeedAgain
    <2>3. ASSUME NEW m \in MerchantIds
          PROVE  /\ IsMerchant(m) => After(m)
                 /\ merchants'[m] = NoRow \/ After(m)
                 /\ merchants'[m] = merchants[m] \/ m \in reset'
      <3>1. CASE m \in SeedMerchants /\ ~Production
        <4>1. IsMerchant(m)
          BY <1>1, <3>1
        <4>2. merchants'[m] = [merchants[m] EXCEPT !.secret = 0, !.active = TRUE]
          BY <2>1, <3>1
        <4>3. After(m)
          BY <4>1, <4>2 DEF IsMerchant, MerchantFields
        <4> QED BY <2>2, <3>1, <4>1, <4>3
      <3>2. CASE ~(m \in SeedMerchants /\ ~Production)
        BY <1>1, <2>1, <3>2 DEF IsMerchant
      <3> QED BY <3>1, <3>2
    <2>4. RotatedSecretIsTheOne'
      BY <1>1, <2>2, <2>3 DEF RotatedSecretIsTheOne
    <2>5. Rows'
      BY <1>1, <2>1, <2>2, <2>3, <2>4 DEF IsMerchant
    <2>6. ASSUME NEW r \in Requests, Writes(request'[r]) PROVE After(request'[r].who)
      <3>1. request'[r] = request[r]
        BY <1>0, <1>7, <2>6, RestartEffect
      <3> QED BY <1>1, <1>5, <2>3, <2>6, <3>1
    <2> QED BY <1>2, <2>5, <2>6
  <1>8. ASSUME NEW r \in Requests, Arrivals(r) PROVE SecretInv'
    <2>1. Others(r) /\ request'[r].step = "first" /\ UNCHANGED <<merchants, latest, reset>>
      BY <1>0, <1>8, ArrivalsEffect DEF accounts, history
    <2>2. Rows' /\ \A m \in MerchantIds : IsMerchant(m) => After(m)
      BY <1>3, <1>4, <2>1
    <2>3. ASSUME NEW q \in Requests, Writes(request'[q]) PROVE After(request'[q].who)
      <3>1. request'[q] = request[q]
        BY <2>1, <2>3 DEF Others
      <3> QED BY <1>1, <1>5, <2>2, <2>3, <3>1
    <2> QED BY <1>2, <2>2, <2>3
  <1>9. ASSUME NEW r \in Requests, TokenStep(r) \/ AccountStep(r) \/ StatementFails(r) PROVE SecretInv'
    <2>0. Others(r) /\ Same(r)
      BY <1>0, <1>9, StepEffect
    <2>1. Rows' /\ \A m \in MerchantIds : IsMerchant(m) => After(m)
      <3>1. CASE rotateSecret(r)
        <4>1. /\ merchants' = [merchants EXCEPT ![Who(r)] = WithSecret(@, r)]
              /\ latest' = [latest EXCEPT ![Who(r)] = r]
              /\ reset \subseteq reset'
          BY <3>1 DEF rotateSecret
        <4>2. Who(r) \in MerchantIds /\ IsMerchant(Who(r))
          BY <1>1, <1>5, <3>1 DEF rotateSecret, At, Who
        <4>3. PICK row : row = [merchants[Who(r)] EXCEPT !.secret = r]
          OBVIOUS
        <4>4. DOMAIN row = MerchantFields /\ row.secret = r
          BY <4>2, <4>3 DEF IsMerchant, MerchantFields
        <4>5. merchants' = [merchants EXCEPT ![Who(r)] = row]
          BY <4>1, <4>3 DEF WithSecret
        <4>6. /\ merchants' = [m \in MerchantIds |-> merchants'[m]] /\ latest' = [m \in MerchantIds |-> latest'[m]]
              /\ merchants'[Who(r)] = row /\ latest'[Who(r)] = r
              /\ \A m \in MerchantIds \ {Who(r)} : merchants'[m] = merchants[m] /\ latest'[m] = latest[m]
          BY <1>1, <4>1, <4>2, <4>5
        <4>7. \A m \in MerchantIds : (IsMerchant(m) => After(m)) /\ (merchants'[m] = NoRow \/ After(m))
          BY <1>1, <4>4, <4>6 DEF IsMerchant
        <4>8. RotatedSecretIsTheOne'
          BY <1>1, <4>1, <4>4, <4>6 DEF RotatedSecretIsTheOne
        <4>9. \A m \in MerchantIds : latest'[m] # 0 => After(m)
          BY <1>1, <4>2, <4>6, <4>7
        <4> QED BY <1>1, <4>6, <4>7, <4>8, <4>9 DEF IsMerchant
      <3>2. CASE createMerchant(r)
        <4>1. Who(r) \in MerchantIds /\ UNCHANGED <<latest, reset>>
          BY <3>2 DEF createMerchant, At, RequestInv, MerchantOps, Who, history
        <4>2. CASE merchants[Who(r)] # NoRow
          BY <1>3, <1>4, <3>2, <4>1, <4>2 DEF createMerchant
        <4>3. CASE merchants[Who(r)] = NoRow
          <5>1. PICK row : row = NewMerchant(FALSE, r)
            OBVIOUS
          <5>2. DOMAIN row = MerchantFields
            BY <5>1 DEF NewMerchant, MerchantFields
          <5>3. merchants' = [merchants EXCEPT ![Who(r)] = row]
            BY <3>2, <4>3, <5>1 DEF createMerchant
          <5>4. ~IsMerchant(Who(r))
            BY <4>3, NoRowIsNoMerchant DEF IsMerchant
          <5>5. /\ merchants' = [m \in MerchantIds |-> merchants'[m]]
                /\ merchants'[Who(r)] = row
                /\ \A m \in MerchantIds \ {Who(r)} : merchants'[m] = merchants[m]
            BY <1>1, <4>1, <5>3
          <5>6. \A m \in MerchantIds : (IsMerchant(m) => After(m)) /\ (merchants'[m] = NoRow \/ After(m))
            BY <1>1, <5>2, <5>5 DEF IsMerchant
          <5>7. RotatedSecretIsTheOne'
            BY <1>1, <4>1, <5>4, <5>5 DEF RotatedSecretIsTheOne
          <5> QED BY <1>1, <4>1, <5>5, <5>6, <5>7 DEF IsMerchant
        <4> QED BY <4>2, <4>3
      <3>3. CASE SecretsKept /\ UNCHANGED <<latest, reset>>
        BY <1>3, <3>3
      <3> HIDE DEF Rows
      <3> QED BY <1>9, <3>1, <3>2, <3>3, MerchantFrame
    <2>2. ASSUME NEW q \in Requests, Writes(request'[q]) PROVE After(request'[q].who)
      <3>1. CASE q # r
        <4>1. request'[q] = request[q]
          BY <2>0, <3>1 DEF Others
        <4> QED BY <1>1, <1>5, <2>1, <2>2, <4>1
      <3>2. CASE q = r
        <4>1. Exists(Who(r)) /\ Who(r) \in MerchantIds
          BY <1>9, <2>2, <3>2, FoundBeforeWrite
        <4>2. IsMerchant(Who(r))
          BY <4>1, ExistingIsMerchant
        <4> QED BY <2>0, <2>1, <3>2, <4>1, <4>2 DEF Same, Who
      <3> QED BY <3>1, <3>2
    <2> QED BY <1>2, <2>1, <2>2
  <1> QED BY <1>6, <1>7, <1>8, <1>9 DEF AuthNext, Quiet
-----------------------------------------------------------------------------
(* Logouts and purges *)

\* The key of an answered logout lasts as long as the token.
DeniedInv ==
    \A r \in Requests : request[r].op = "logout" /\ request[r].answer = "200" =>
        \A t \in accessTokens : t.jti = request[r].token /\ clock < t.exp =>
            t.jti \in DOMAIN denylist /\ denylist[t.jti] = t.exp

LEMMA LogoutSteps ==
  ASSUME RequestInv, NEW r \in Requests, TokenStep(r) \/ AccountStep(r) \/ StatementFails(r),
         request[r].op = "logout", request'[r].answer = "200"
  PROVE  logout(r)
  <1>0. Asked /\ request[r].answer = "none"
    <2>1. Asked /\ request[r].step # "answered"
      BY StepEffect DEF RequestInv
    <2> QED BY <2>1 DEF Asked
  <1>1. VerifyForLogout(r) \/ logout(r) \/ StatementFails(r)
    BY DEF TokenStep, AccountStep, At, ValidateCredentials, LoginWithPassword, issueToken, issueTokenForUser,
       FindRefreshToken, RevokeRefreshToken, LookUpOwner, SaveRefreshToken,
       introspectToken, VerifyForAdmin, AdminGuard, revokeToken,
       createMerchant, FindMerchant, rotateSecret, rotateApiKey, updateMerchant, deleteMerchant, WriteMerchant,
       setActive, CheckPurge, MarkDeleted, RevokeApiKeys, purgeMerchant, CheckInvite, invite, setPassword,
       deactivateUser
  <1>2. VerifyForLogout(r) => request'[r].answer # "200"
    BY <1>0, GoOnEffect, ReplyEffect DEF VerifyForLogout
  <1>3. StatementFails(r) => request'[r].answer # "200"
    BY <1>0, ReplyEffect DEF StatementFails
  <1> QED BY <1>1, <1>2, <1>3

LEMMA DeniedStep ==
  ASSUME RequestInv, IssueInv, ClockInv, DeniedInv, [AuthNext]_authVars
  PROVE  DeniedInv'
  <1>0. Asked /\ clock' >= clock /\ clock \in Nat /\ clock' \in Nat
    BY ClockStep, AuthAssumption DEF RequestInv, ClockInv
  <1> DEFINE Holds(r) == \A t \in accessTokens : t.jti = request[r].token /\ clock < t.exp =>
                             t.jti \in DOMAIN denylist /\ denylist[t.jti] = t.exp
             IsOut(r) == request[r].op = "logout" /\ request[r].answer = "200"
  <1>1. \A r \in Requests : IsOut(r) => Holds(r) /\ Answered(request[r].token)
    BY DEF DeniedInv, RequestInv, TokenOps
  <1>2. ASSUME NEW r \in Requests, IsOut(r), UNCHANGED <<accessTokens, denylist>>, request'[r].token = request[r].token
        PROVE  Holds(r)'
    <2>1. ASSUME NEW t \in accessTokens, clock' < t.exp PROVE clock < t.exp
      BY <1>0, <2>1 DEF IssueInv
    <2> QED BY <1>1, <1>2, <2>1
  <1>3. CASE Quiet
    <2>1. UNCHANGED <<accessTokens, denylist, request>>
      BY <1>3 DEF Quiet, AuthTick, purgeExpired, authVars, tokens
    <2> QED BY <1>2, <2>1 DEF DeniedInv
  <1>4. CASE RestartAuth
    <2>1. UNCHANGED <<accessTokens, denylist>>
      BY <1>4 DEF RestartAuth, tokens
    <2>2. ASSUME NEW r \in Requests, IsOut(r)' PROVE IsOut(r) /\ request'[r].token = request[r].token
      BY <1>0, <1>4, <2>2, RestartEffect DEF Same
    <2> QED BY <1>2, <2>1, <2>2 DEF DeniedInv
  <1>5. ASSUME NEW r \in Requests, Arrivals(r) PROVE DeniedInv'
    <2>1. Others(r) /\ request'[r].answer = "none" /\ UNCHANGED <<accessTokens, denylist>>
      BY <1>0, <1>5, ArrivalsEffect DEF tokens
    <2>2. ASSUME NEW q \in Requests, IsOut(q)' PROVE IsOut(q) /\ request'[q].token = request[q].token
      BY <2>1, <2>2 DEF Others
    <2> QED BY <1>2, <2>1, <2>2 DEF DeniedInv
  <1>6. ASSUME NEW r \in Requests, TokenStep(r) \/ AccountStep(r) \/ StatementFails(r) PROVE DeniedInv'
    <2>0. Others(r) /\ Same(r) /\ ~Answered(r)
      BY <1>0, <1>6, StepEffect DEF Answered
    <2>1. ASSUME NEW q \in Requests, IsOut(q)', ~logout(r) PROVE IsOut(q) /\ request'[q].token = request[q].token
      BY <1>6, <2>0, <2>1, LogoutSteps DEF Others, Same
    <2>2. CASE logout(r)
      <3>1. PICK t \in Presented(r) :
                denylist' = IF TtlLeft(t.exp) > 0
                       THEN [j \in DOMAIN denylist \union {t.jti} |->
                                IF j = t.jti THEN clock + TtlLeft(t.exp) ELSE denylist[j]]
                       ELSE denylist
        BY <2>2 DEF logout
      <3>2. UNCHANGED <<accessTokens, clock>>
        BY <2>2 DEF logout, world
      <3>3. t \in accessTokens /\ t.jti = request[r].token /\ t.exp \in Int
        BY <3>1 DEF Presented, IssueInv
      <3>4. clock < t.exp => t.jti \in DOMAIN denylist' /\ denylist'[t.jti] = t.exp
        <4>1. PICK left \in Int : left = TtlLeft(t.exp) /\ clock + left = t.exp /\ (clock < t.exp => left > 0)
          BY <1>0, <3>3 DEF TtlLeft
        <4> QED BY <3>1, <4>1
      <3>5. \A u \in accessTokens : u.jti = t.jti => u = t
        BY <3>3 DEF IssueInv
      <3>6. \A j : j # t.jti /\ j \in DOMAIN denylist => j \in DOMAIN denylist' /\ denylist'[j] = denylist[j]
        BY <3>1
      <3>7. ASSUME NEW q \in Requests, IsOut(q)' PROVE Holds(q)'
        <4>1. CASE q = r
          BY <2>0, <3>2, <3>3, <3>4, <3>5, <4>1 DEF Same
        <4>2. CASE q # r
          <5>1. IsOut(q) /\ request'[q].token = request[q].token
            BY <2>0, <3>7, <4>2 DEF Others
          <5> QED BY <1>1, <3>2, <3>4, <3>5, <3>6, <5>1
        <4> QED BY <4>1, <4>2
      <3> QED BY <3>7 DEF DeniedInv
    <2>3. CASE ~logout(r) /\ UNCHANGED <<accessTokens, denylist>>
      BY <1>2, <2>1, <2>3 DEF DeniedInv
    <2>4. CASE ~logout(r) /\ Issues(r)
      <3>1. PICK owner, admin : accessTokens' = accessTokens \union {SignedToken(r, owner, admin)}
        BY <2>4 DEF Issues
      <3>2. PICK new : new = SignedToken(r, owner, admin)
        OBVIOUS
      <3>3. new.jti = r /\ UNCHANGED denylist
        BY <2>4, <3>2 DEF SignedToken, Issues
      <3>4. ASSUME NEW q \in Requests, IsOut(q)', NEW t \in accessTokens', t.jti = request'[q].token, clock' < t.exp
            PROVE  t.jti \in DOMAIN denylist /\ denylist[t.jti] = t.exp
        <4>1. IsOut(q) /\ request'[q].token = request[q].token
          BY <2>1, <2>4, <3>4
        <4>2. Answered(t.jti)
          BY <1>1, <3>4, <4>1
        <4>3. t \in accessTokens
          BY <2>0, <3>1, <3>2, <3>3, <3>4, <4>2
        <4>4. clock < t.exp
          BY <1>0, <3>4, <4>3 DEF IssueInv
        <4> QED BY <1>1, <3>4, <4>1, <4>3, <4>4
      <3> QED BY <3>3, <3>4 DEF DeniedInv
    <2>5. CASE ~logout(r) /\ (RevokeRefreshToken(r) \/ revokeToken(r))
      <3>1. UNCHANGED <<accessTokens, denylist>>
        BY <2>5 DEF RevokeRefreshToken, revokeToken
      <3> QED BY <2>3, <2>5, <3>1
    <2> QED BY <1>0, <1>6, <2>2, <2>3, <2>4, <2>5, TokenFrame
  <1> QED BY <1>3, <1>4, <1>5, <1>6 DEF AuthNext, Quiet

\* The audit row of a purge follows the revoking of the keys.
PurgeInv ==
    /\ apiKeysRevoked \subseteq MerchantIds /\ auditLog \subseteq apiKeysRevoked
    /\ \A r \in Requests : request[r].op = "purge" /\ request[r].step = "audit" => request[r].who \in apiKeysRevoked

LEMMA PurgeStep ==
  ASSUME RequestInv, PurgeInv, [AuthNext]_authVars
  PROVE  PurgeInv'
  <1>0. Asked
    BY DEF RequestInv
  <1> DEFINE Audits(q) == q.op = "purge" /\ q.step = "audit"
  <1>1. ASSUME UNCHANGED <<apiKeysRevoked, auditLog>>,
               \A r \in Requests : Audits(request'[r]) => Audits(request[r]) /\ request'[r].who = request[r].who
        PROVE  PurgeInv'
    BY <1>1 DEF PurgeInv
  <1>2. CASE Quiet
    <2>1. UNCHANGED <<apiKeysRevoked, auditLog, request>>
      BY <1>2 DEF Quiet, AuthTick, purgeExpired, authVars, accounts
    <2> QED BY <1>1, <2>1
  <1>3. CASE RestartAuth
    <2>1. UNCHANGED <<apiKeysRevoked, auditLog>>
      BY <1>3 DEF RestartAuth
    <2>2. \A r \in Requests : Audits(request'[r]) => request'[r] = request[r]
      BY <1>0, <1>3, RestartEffect
    <2> QED BY <1>1, <2>1, <2>2
  <1>4. ASSUME NEW r \in Requests, Arrivals(r) PROVE PurgeInv'
    <2>1. Others(r) /\ request'[r].step = "first" /\ UNCHANGED <<apiKeysRevoked, auditLog>>
      BY <1>0, <1>4, ArrivalsEffect DEF accounts
    <2> QED BY <1>1, <2>1 DEF Others
  <1>5. ASSUME NEW r \in Requests, TokenStep(r) \/ AccountStep(r) \/ StatementFails(r) PROVE PurgeInv'
    <2>0. Others(r) /\ Same(r) /\ (Audits(request'[r]) => RevokeApiKeys(r))
      BY <1>0, <1>5, StepEffect DEF Same
    <2>1. CASE RevokeApiKeys(r)
      <3>1. request[r].who \in MerchantIds
        BY <2>1 DEF RevokeApiKeys, At, RequestInv, MerchantOps
      <3>2. apiKeysRevoked' = apiKeysRevoked \union {request[r].who} /\ UNCHANGED auditLog
        BY <2>1 DEF RevokeApiKeys, Who
      <3>3. ASSUME NEW q \in Requests, Audits(request'[q]) PROVE request'[q].who \in apiKeysRevoked'
        BY <2>0, <3>2, <3>3 DEF Others, Same, PurgeInv
      <3> QED BY <3>1, <3>2, <3>3 DEF PurgeInv
    <2>2. CASE ~RevokeApiKeys(r)
      <3>1. \A q \in Requests : Audits(request'[q]) => q # r /\ request'[q] = request[q]
        BY <2>0, <2>2 DEF Others
      <3>2. CASE purgeMerchant(r)
        <4>1. auditLog' = auditLog \union {request[r].who} /\ UNCHANGED apiKeysRevoked
          BY <3>2 DEF purgeMerchant, Who
        <4>2. request[r].who \in apiKeysRevoked
          BY <3>2 DEF purgeMerchant, At, PurgeInv
        <4> QED BY <3>1, <4>1, <4>2 DEF PurgeInv
      <3>3. CASE ~purgeMerchant(r)
        <4>1. UNCHANGED <<apiKeysRevoked, auditLog>>
          BY <1>5, <2>2, <3>3 DEF TokenStep, AccountStep, StatementFails, ValidateCredentials, issueToken,
             LoginWithPassword, issueTokenForUser, FindRefreshToken, RevokeRefreshToken, LookUpOwner,
             SaveRefreshToken, revokeToken, introspectToken, VerifyForLogout, logout, VerifyForAdmin, AdminGuard,
             createMerchant, FindMerchant, rotateSecret, rotateApiKey, updateMerchant, deleteMerchant,
             WriteMerchant, setActive, CheckPurge, MarkDeleted, CheckInvite, invite, setPassword, deactivateUser,
             IssueTokens, accounts
        <4> QED BY <1>1, <3>1, <4>1
      <3> QED BY <3>2, <3>3
    <2> QED BY <2>1, <2>2
  <1> QED BY <1>2, <1>3, <1>4, <1>5 DEF AuthNext, Quiet
-----------------------------------------------------------------------------

AuthInv == RequestInv /\ IssueInv /\ ClockInv /\ GrantInv /\ SecretInv /\ DeniedInv /\ PurgeInv

LEMMA Initially == AuthInit => AuthInv
  <1> SUFFICES ASSUME AuthInit PROVE AuthInv
    OBVIOUS
  <1>1. request = [r \in Requests |-> Unsent] /\ refreshTokens = {} /\ accessTokens = {}
    BY DEF AuthInit
  <1>2. /\ DOMAIN Unsent = RequestFields /\ Unsent.step = "unsent" /\ Unsent.op = "none" /\ Unsent.answer = "none"
    BY DEF Unsent, RequestFields
  <1>3. RequestInv
    BY <1>1, <1>2 DEF RequestInv, Asked, MerchantOps, TokenOps
  <1>4. IssueInv
    BY <1>1 DEF IssueInv
  <1>5. ClockInv
    BY AuthAssumption DEF ClockInv, AuthInit
  <1>6. GrantInv
    BY <1>1, <1>2 DEF GrantInv, GrantOf, Live, Refreshes, Revokes, Exchanges
  <1>7. SecretInv
    <2>1. \A m \in MerchantIds : merchants[m] = IF m \in SeedMerchants THEN NewMerchant(TRUE, 0) ELSE NoRow
      BY DEF AuthInit
    <2>2. DOMAIN NewMerchant(TRUE, 0) = MerchantFields
      BY DEF NewMerchant, MerchantFields
    <2>3. merchants = [m \in MerchantIds |-> merchants[m]] /\ latest = [m \in MerchantIds |-> latest[m]]
          /\ \A m \in MerchantIds : latest[m] = 0
      BY DEF AuthInit
    <2>4. \A r \in Requests : request[r].op = "none"
      BY <1>1, <1>2
    <2> QED BY <2>1, <2>2, <2>3, <2>4 DEF SecretInv, IsMerchant, RotatedSecretIsTheOne
  <1>8. DeniedInv
    BY <1>1 DEF DeniedInv
  <1>9. PurgeInv
    BY <1>1, <1>2 DEF PurgeInv, AuthInit
  <1> QED BY <1>3, <1>4, <1>5, <1>6, <1>7, <1>8, <1>9 DEF AuthInv

LEMMA Inductive == AuthInv /\ [AuthNext]_authVars => AuthInv'
  BY RequestStep, IssueStep, ClockStep, GrantStep, SecretStep, DeniedStep, PurgeStep DEF AuthInv

LEMMA Invariance == AuthSpec => []AuthInv
  BY Initially, Inductive, PTL DEF AuthSpec

\* Every request is answered once and for all, every row has a number of its
\* own, and a purge is in the audit log after the keys are revoked.
THEOREM TypeCorrect == AuthSpec => []AuthTypeOK
  <1>1. AuthInv => AuthTypeOK
    BY DEF AuthInv, RequestInv, Asked, IssueInv, ClockInv, PurgeInv, AuthTypeOK, Answered
  <1> QED BY <1>1, Invariance, PTL

\* A login and its refreshes leave one live refresh token at most, however the
\* steps of refreshes, revocations, purges and restarts interleave.
THEOREM OneTokenPerLogin == AuthSpec => []OneLiveTokenPerGrant
  <1>1. AuthInv => OneLiveTokenPerGrant
    BY DEF AuthInv, GrantInv, GrantOf, Live, IssueInv, Answered, OneLiveTokenPerGrant
  <1> QED BY <1>1, Invariance, PTL

\* An admin request checked after the answer to a logout of its token is refused.
THEOREM LogoutIsFinal == AuthSpec => LoggedOutStaysOut
  <1> DEFINE Refused == \A r \in Requests : request[r].step = "denylist" /\ LoggedOut(request[r].token)
           /\ (\E t \in Presented(r) : clock < t.exp) => request'[r].answer # "200"
  <1>1. ASSUME AuthInv, [AuthNext]_authVars, NEW r \in Requests, request[r].step = "denylist",
               LoggedOut(request[r].token), NEW t \in Presented(r), clock < t.exp
        PROVE  request'[r].answer # "200"
    <2>0. Asked /\ request[r].op = "admin" /\ request[r].answer = "none"
      BY <1>1 DEF AuthInv, RequestInv, Asked
    <2>1. IsDenied(request[r].token)
      BY <1>1 DEF AuthInv, DeniedInv, LoggedOut, Presented, IsDenied
    <2>2. CASE Quiet
      BY <2>0, <2>2 DEF Quiet, AuthTick, purgeExpired, authVars
    <2>3. CASE RestartAuth
      BY <1>1, <2>0, <2>3, RestartEffect
    <2>4. ASSUME NEW q \in Requests, q # r, Others(q) PROVE request'[r].answer # "200"
      BY <2>0, <2>4 DEF Others
    <2>5. ASSUME NEW q \in Requests, Arrivals(q) PROVE request'[r].answer # "200"
      BY <2>0, <2>4, <2>5, ArrivalsEffect
    <2>6. ASSUME NEW q \in Requests, TokenStep(q) \/ AccountStep(q) \/ StatementFails(q)
          PROVE  request'[r].answer # "200"
      <3>1. CASE q # r
        BY <2>0, <2>4, <2>6, <3>1, StepEffect
      <3>2. CASE q = r
        <4>1. VerifyForAdmin(r) \/ AdminGuard(r)
          BY <2>0, <2>6, <3>2 DEF TokenStep, AccountStep, StatementFails, At, ValidateCredentials, LoginWithPassword,
             issueToken, issueTokenForUser, FindRefreshToken, RevokeRefreshToken, LookUpOwner, SaveRefreshToken,
             introspectToken, VerifyForLogout, logout, revokeToken,
             createMerchant, FindMerchant, rotateSecret, rotateApiKey, updateMerchant, deleteMerchant, WriteMerchant,
             setActive, CheckPurge, MarkDeleted, RevokeApiKeys, purgeMerchant, CheckInvite, invite, setPassword,
             deactivateUser
        <4>2. AdminGuard(r)
          BY <1>1, <4>1 DEF VerifyForAdmin, At
        <4> QED BY <2>0, <2>1, <4>2, ReplyEffect DEF AdminGuard
      <3> QED BY <3>1, <3>2
    <2> QED BY <1>1, <2>2, <2>3, <2>5, <2>6 DEF AuthNext, Quiet
  <1>2. AuthInv /\ [AuthNext]_authVars => [Refused]_authVars
    BY <1>1
  <1> QED BY <1>2, Invariance, PTL DEF AuthSpec, LoggedOutStaysOut

\* The secret of the rotation answered last is the merchant's.
THEOREM LastRotationHolds == AuthSpec => []RotatedSecretIsTheOne
  <1>1. AuthInv => RotatedSecretIsTheOne
    BY DEF AuthInv, SecretInv
  <1> QED BY <1>1, Invariance, PTL

\* A token that was logged out, a refresh token that was exchanged and a secret
\* that was rotated are of no more use.
THEOREM CredentialsEndInTime == AuthSpec => CredentialsEnd
  BY OneTokenPerLogin, LogoutIsFinal, LastRotationHolds, PTL DEF CredentialsEnd

-----------------------------------------------------------------------------
(* The weights of the rules and their audit rows *)

Weight == MIN_WEIGHT .. MAX_WEIGHT
Row == [ruleId : RuleIds, oldWeight : Weight, newWeight : Weight, timestamp : Nat]
Work == [step : {"idle", "get", "set", "audit"}, event : Chargebacks \union {<<>>}, next : Nat,
         old : Nat, adjustments : Seq(Row)]

\* A task is at a rule of its chargeback until all are done.
WeightInv ==
    /\ WeightTypeOK /\ posts \in Nat /\ faults \in Nat /\ auditClock \in Nat
    /\ topic \in [1 .. TopicLength -> Chargebacks]
    /\ audit \subseteq Row /\ work \in [Tasks -> Work]
    /\ \A t \in Tasks :
          /\ work[t].step = "idle" => work[t].adjustments = <<>>
          /\ work[t].step # "idle" => work[t].event \in Chargebacks
          /\ work[t].step \in {"get", "set"} => RuleAt(t) \in RuleIds
          /\ work[t].step = "set" => work[t].old \in Weight
    /\ work[Consumer].step # "idle" => offset \in 1 .. TopicLength

\* The rows that a task still has to write belong to the trail of its rule.
RowsIn(s) == {s[i] : i \in 1 .. Len(s)}
Unwritten(t) == RowsIn(work[t].adjustments)
Trail(r) == {row \in Row : row.ruleId = r /\ (row \in audit \/ \E t \in Tasks : row \in Unwritten(t))}

\* Who is between the GET and the SET of a rule is alone there and has read
\* the weight the trail ends with.
TrailInv ==
    /\ WeightInv
    /\ \A r \in RuleIds : \A row \in Trail(r) : row.timestamp < auditClock
    /\ \A r \in RuleIds \ unexplained :
          /\ Leads(Trail(r), DEFAULT_WEIGHT, getWeight(weight[r]))
          /\ \A t \in Tasks : IsBetween(t, r) => work[t].old = getWeight(weight[r])
          /\ \A t, u \in Tasks : IsBetween(t, r) /\ IsBetween(u, r) => t = u

LEMMA WeightsAre ==
  /\ Absent = 0 /\ DEFAULT_WEIGHT \in Weight /\ Weight \subseteq Nat /\ Absent \notin Weight
  /\ \A w \in Int : Clamped(w) \in Weight
  /\ \A outcome : Delta(outcome) \in Int
  /\ \A w \in {Absent} \union Weight : getWeight(w) \in Weight /\ (w # Absent => getWeight(w) = w)
  BY DEF Absent, DEFAULT_WEIGHT, Weight, MIN_WEIGHT, MAX_WEIGHT, Clamped, Delta, getWeight

\* A row that begins where the trail ends, later than all of it, continues it.
LEMMA TrailContinues ==
  ASSUME NEW rows, \A row \in rows : row \in Row, NEW from, NEW to, Leads(rows, from, to),
         NEW new \in Row, \A row \in rows : row.timestamp < new.timestamp, new.oldWeight = to
  PROVE  Leads(rows \union {new}, from, new.newWeight)
  <1> DEFINE S == rows \union {new}
  <1>1. \A row \in S : row.timestamp \in Nat /\ row.timestamp <= new.timestamp
    BY DEF Row
  <1>2. ASSUME NEW row \in S, \A other \in S : row.timestamp <= other.timestamp
        PROVE  row.oldWeight = from
    <2>1. CASE row \in rows
      BY <1>2, <2>1 DEF Leads
    <2>2. CASE row \notin rows
      <3>1. row = new
        BY <2>2
      <3>2. rows = {}
        BY <1>1, <1>2, <3>1 DEF Row
      <3> QED BY <3>1, <3>2 DEF Leads
    <2> QED BY <2>1, <2>2
  <1>3. ASSUME NEW row \in S, \A other \in S : other.timestamp <= row.timestamp
        PROVE  row.newWeight = new.newWeight
    <2>1. row \notin rows
      BY <1>1, <1>3
    <2> QED BY <2>1
  <1>4. ASSUME NEW row \in S, NEW other \in S, Follows(row, other, S)
        PROVE  other.oldWeight = row.newWeight
    <2>1. row \in rows
      BY <1>1, <1>4 DEF Follows
    <2>2. CASE other \in rows
      BY <1>4, <2>1, <2>2 DEF Leads, Follows
    <2>3. CASE other \notin rows
      <3>1. other = new
        BY <2>3
      <3>2. \A third \in rows : third.timestamp <= row.timestamp
        BY <1>1, <1>4, <3>1 DEF Follows
      <3> QED BY <2>1, <3>1, <3>2 DEF Leads
    <2> QED BY <2>2, <2>3
  <1> QED BY <1>2, <1>3, <1>4 DEF Leads

-----------------------------------------------------------------------------
\* A step that gives one task new work.
LEMMA WorkFollows ==
  ASSUME WeightInv, NEW t \in Tasks, NEW w \in Work, work' = [work EXCEPT ![t] = w],
         w.step = "idle" => w.adjustments = <<>>, w.step # "idle" => w.event \in Chargebacks,
         w.step \in {"get", "set"} => w.event.firedRuleIds[w.next] \in RuleIds,
         w.step = "set" => w.old \in Weight,
         offset' \in 1 .. (TopicLength + 1), t # Consumer => offset' = offset,
         t = Consumer /\ w.step # "idle" => offset' \in 1 .. TopicLength,
         weight' \in [RuleIds -> {Absent} \union Weight], audit' \subseteq Row, topic' = topic,
         posts' \in 0 .. MaxPosts, faults' \in 0 .. MaxFaults, auditClock' \in Nat, unexplained' \subseteq RuleIds
  PROVE  WeightInv'
  <1>1. /\ work' \in [Tasks -> Work] /\ work'[t] = w /\ \A u \in Tasks \ {t} : work'[u] = work[u]
    BY DEF WeightInv
  <1>2. /\ work'[t].step = "idle" => work'[t].adjustments = <<>>
        /\ work'[t].step # "idle" => work'[t].event \in Chargebacks
        /\ work'[t].step \in {"get", "set"} => RuleAt(t)' \in RuleIds
        /\ work'[t].step = "set" => work'[t].old \in Weight
    BY <1>1 DEF RuleAt
  <1>3. ASSUME NEW u \in Tasks \ {t}
        PROVE  /\ work'[u].step = "idle" => work'[u].adjustments = <<>>
               /\ work'[u].step # "idle" => work'[u].event \in Chargebacks
               /\ work'[u].step \in {"get", "set"} => RuleAt(u)' \in RuleIds
               /\ work'[u].step = "set" => work'[u].old \in Weight
    BY <1>1 DEF RuleAt, WeightInv
  <1>4. work'[Consumer].step # "idle" => offset' \in 1 .. TopicLength
    BY <1>1 DEF WeightInv, Tasks
  <1>5. \A u \in Tasks : work'[u].step \in {"idle", "get", "set", "audit"}
    BY <1>1 DEF Work
  <1>6. posts' \in Nat /\ faults' \in Nat
    BY WeightsAssumption
  <1>7. WeightTypeOK'
    BY <1>5 DEF WeightTypeOK, Weight
  <1>8. \A u \in Tasks :
          /\ work'[u].step = "idle" => work'[u].adjustments = <<>>
          /\ work'[u].step # "idle" => work'[u].event \in Chargebacks
          /\ work'[u].step \in {"get", "set"} => RuleAt(u)' \in RuleIds
          /\ work'[u].step = "set" => work'[u].old \in Weight
    BY <1>2, <1>3
  <1> QED BY <1>1, <1>4, <1>6, <1>7, <1>8 DEF WeightInv

LEMMA WeightFacts ==
  ASSUME WeightInv
  PROVE  /\ work \in [Tasks -> Work] /\ Consumer \in Tasks /\ Idle \in Work
         /\ weight \in [RuleIds -> {Absent} \union Weight] /\ audit \subseteq Row
         /\ offset \in 1 .. (TopicLength + 1) /\ posts \in 0 .. MaxPosts /\ faults \in 0 .. MaxFaults
         /\ auditClock \in Nat /\ unexplained \subseteq RuleIds /\ {TopicLength, MaxPosts, MaxFaults} \subseteq Nat
         /\ topic \in [1 .. TopicLength -> Chargebacks]
         /\ \A t \in Tasks :
               /\ work[t].step = "idle" => work[t].adjustments = <<>>
               /\ work[t].step # "idle" => work[t].event \in Chargebacks
               /\ work[t].step \in {"get", "set"} => RuleAt(t) \in RuleIds
               /\ work[t].step = "set" => work[t].old \in Weight
         /\ work[Consumer].step # "idle" => offset \in 1 .. TopicLength
  <1>1. Idle \in Work
    BY DEF Idle, Work
  <1> QED BY <1>1, WeightsAssumption DEF WeightInv, WeightTypeOK, Weight, Tasks

\* The step after a rule, or before the first, is about a rule there is.
LEMMA NextRule ==
  ASSUME NEW event \in Chargebacks, NEW next \in Nat, StepFor(event, next) = "get"
  PROVE  event.firedRuleIds[next] \in RuleIds
  <1>1. event.firedRuleIds \in Seq(RuleIds) /\ next \in DOMAIN event.firedRuleIds
    BY WeightsAssumption DEF StepFor
  <1> QED BY <1>1

LEMMA WorkIs ==
  ASSUME NEW step \in {"idle", "get", "set", "audit"}, NEW event \in Chargebacks \union {<<>>}, NEW next \in Nat,
         NEW old \in Nat, NEW s \in Seq(Row)
  PROVE  [step |-> step, event |-> event, next |-> next, old |-> old, adjustments |-> s] \in Work
  BY DEF Work

Steps == {"idle", "get", "set", "audit"}
Onward(k, step, next, s) == [k EXCEPT !.step = step, !.next = next, !.adjustments = s]

LEMMA WorkGoesOn ==
  ASSUME NEW k \in Work, NEW step \in Steps, NEW next \in Nat, NEW s \in Seq(Row)
  PROVE  LET w == Onward(k, step, next, s)
         IN  w \in Work /\ w.step = step /\ w.next = next /\ w.adjustments = s /\ w.event = k.event
  <1> DEFINE w == Onward(k, step, next, s)
  <1>1. /\ DOMAIN k = {"step", "event", "next", "old", "adjustments"}
        /\ k.event \in Chargebacks \union {<<>>} /\ k.old \in Nat
    BY DEF Work
  <1>2. DOMAIN w = DOMAIN k
    BY DEF Onward
  <1>3. w.step = step /\ w.next = next /\ w.adjustments = s /\ w.event = k.event /\ w.old = k.old
    BY <1>1 DEF Onward
  <1>4. w = [x \in DOMAIN w |-> w[x]]
    BY DEF Onward
  <1> HIDE DEF w
  <1>5. w = [step |-> w.step, event |-> w.event, next |-> w.next, old |-> w.old, adjustments |-> w.adjustments]
    BY <1>1, <1>2, <1>4
  <1>6. w \in Work
    BY <1>1, <1>3, <1>5, WorkIs DEF Steps
  <1> QED BY <1>3, <1>6 DEF w

LEMMA BegunWork ==
  ASSUME NEW event \in Chargebacks, NEW w, w = [Begun(event) EXCEPT !.step = StepFor(event, 1)]
  PROVE  /\ w \in Work /\ w.step \in {"get", "audit"} /\ w.adjustments = <<>> /\ w.event \in Chargebacks
         /\ w.step = "get" => w.event.firedRuleIds[w.next] \in RuleIds
  <1>1. /\ w = [step |-> StepFor(event, 1), event |-> event, next |-> 1, old |-> 0, adjustments |-> <<>>]
        /\ StepFor(event, 1) \in {"get", "audit"}
    BY DEF Begun, StepFor
  <1>2. w.step = "get" => w.event.firedRuleIds[w.next] \in RuleIds
    BY <1>1, NextRule
  <1>3. <<>> \in Seq(Row)
    OBVIOUS
  <1>4. w \in Work
    <2>1. PICK step : step = StepFor(event, 1)
      OBVIOUS
    <2>2. step \in {"idle", "get", "set", "audit"}
      BY <1>1, <2>1
    <2>3. w = [step |-> step, event |-> event, next |-> 1, old |-> 0, adjustments |-> <<>>]
      BY <1>1, <2>1
    <2>4. event \in Chargebacks \union {<<>>} /\ 1 \in Nat /\ 0 \in Nat
      OBVIOUS
    <2>5. [step |-> step, event |-> event, next |-> 1, old |-> 0, adjustments |-> <<>>] \in Work
      BY <1>3, <2>2, <2>4, WorkIs
    <2> QED BY <2>3, <2>5
  <1>5. w.step = StepFor(event, 1) /\ w.adjustments = <<>> /\ w.event = event
    BY <1>1
  <1> QED BY <1>1, <1>2, <1>4, <1>5

\* What a fault may leave: the task is free and a weight may have been set.
LEMMA DoneTypes ==
  ASSUME WeightInv, NEW t \in Tasks, work[t].step # "idle", Done(t),
         weight' \in [RuleIds -> {Absent} \union Weight], UNCHANGED <<audit, topic, posts, auditClock>>,
         faults' \in 0 .. MaxFaults, unexplained' \subseteq RuleIds
  PROVE  WeightInv'
  <1>1. work' = [work EXCEPT ![t] = Idle] /\ Idle.step = "idle" /\ Idle.adjustments = <<>>
    BY DEF Done, Idle
  <1>2. offset' \in 1 .. (TopicLength + 1) /\ (t # Consumer => offset' = offset)
    BY WeightFacts DEF Done
  <1> QED BY <1>1, <1>2, WeightFacts, WorkFollows

-----------------------------------------------------------------------------
(* Steps *)

\* A step that moves no weight of an explained rule and drops no row of one.
LEMMA TrailKept ==
  ASSUME TrailInv, WeightInv', unexplained \subseteq unexplained', auditClock' = auditClock,
         \A r \in RuleIds : Trail(r)' \subseteq Trail(r),
         \A r \in RuleIds \ unexplained' :
            /\ Trail(r) \subseteq Trail(r)' /\ weight'[r] = weight[r]
            /\ \A t \in Tasks : IsBetween(t, r)' => IsBetween(t, r) /\ work'[t].old = work[t].old
  PROVE  TrailInv'
  <1>1. \A r \in RuleIds : \A row \in Trail(r)' : row.timestamp < auditClock'
    BY DEF TrailInv
  <1>2. ASSUME NEW r \in RuleIds \ unexplained'
        PROVE  /\ Leads(Trail(r)', DEFAULT_WEIGHT, getWeight(weight'[r]))
               /\ \A t \in Tasks : IsBetween(t, r)' => work'[t].old = getWeight(weight'[r])
               /\ \A t, u \in Tasks : IsBetween(t, r)' /\ IsBetween(u, r)' => t = u
    <2>1. Trail(r)' = Trail(r) /\ weight'[r] = weight[r] /\ r \in RuleIds \ unexplained
      BY <1>2
    <2>2. /\ Leads(Trail(r), DEFAULT_WEIGHT, getWeight(weight[r]))
          /\ \A t \in Tasks : IsBetween(t, r) => work[t].old = getWeight(weight[r])
          /\ \A t, u \in Tasks : IsBetween(t, r) /\ IsBetween(u, r) => t = u
      BY <2>1 DEF TrailInv
    <2> QED BY <1>2, <2>1, <2>2
  <1> QED BY <1>1, <1>2 DEF TrailInv

\* The rows a task still has to write, when its work is replaced.
LEMMA TrailOf ==
  ASSUME WeightInv, NEW t \in Tasks, NEW w \in Work, work' = [work EXCEPT ![t] = w], NEW r
  PROVE  \A row : row \in Trail(r)' <=>
                /\ row \in Row /\ row.ruleId = r
                /\ (row \in audit' \/ row \in RowsIn(w.adjustments) \/ \E u \in Tasks \ {t} : row \in Unwritten(u))
  <1>1. work'[t] = w /\ \A u \in Tasks \ {t} : work'[u] = work[u]
    BY DEF WeightInv
  <1>2. Unwritten(t)' = RowsIn(w.adjustments) /\ \A u \in Tasks \ {t} : Unwritten(u)' = Unwritten(u)
    BY <1>1 DEF Unwritten
  <1> QED BY <1>2 DEF Trail

\* A task that loses no row but those of unexplained rules, and begins no SET.
LEMMA TaskMoves ==
  ASSUME TrailInv, WeightInv', NEW t \in Tasks, NEW w \in Work, work' = [work EXCEPT ![t] = w],
         UNCHANGED auditClock, unexplained \subseteq unexplained',
         w.step = "set" => w = work[t],
         \A r \in RuleIds \ unexplained' : weight'[r] = weight[r],
         audit \subseteq audit', audit' \subseteq audit \union Unwritten(t), RowsIn(w.adjustments) \subseteq Unwritten(t),
         \A row \in Unwritten(t) : row \in audit' \/ row \in RowsIn(w.adjustments) \/ row.ruleId \in unexplained'
  PROVE  TrailInv'
  <1>1. WeightInv /\ work'[t] = w /\ \A u \in Tasks \ {t} : work'[u] = work[u]
    BY DEF TrailInv, WeightInv
  <1>2. \A r \in RuleIds : Trail(r)' \subseteq Trail(r)
    <2> SUFFICES ASSUME NEW r \in RuleIds PROVE Trail(r)' \subseteq Trail(r)
      OBVIOUS
    <2>1. \A row : row \in Trail(r)' <=>
                /\ row \in Row /\ row.ruleId = r
                /\ (row \in audit' \/ row \in RowsIn(w.adjustments) \/ \E u \in Tasks \ {t} : row \in Unwritten(u))
      BY <1>1, TrailOf
    <2> QED BY <2>1 DEF Trail
  <1>3. ASSUME NEW r \in RuleIds \ unexplained'
        PROVE  /\ Trail(r) \subseteq Trail(r)'
               /\ \A u \in Tasks : IsBetween(u, r)' => IsBetween(u, r) /\ work'[u].old = work[u].old
    <2>1. \A row : row \in Trail(r)' <=>
                /\ row \in Row /\ row.ruleId = r
                /\ (row \in audit' \/ row \in RowsIn(w.adjustments) \/ \E u \in Tasks \ {t} : row \in Unwritten(u))
      BY <1>1, TrailOf
    <2>2. Trail(r) \subseteq Trail(r)'
      BY <1>3, <2>1 DEF Trail
    <2>3. ASSUME NEW u \in Tasks, IsBetween(u, r)' PROVE IsBetween(u, r) /\ work'[u].old = work[u].old
      <3>1. work'[u] = work[u]
        BY <1>1, <2>3 DEF IsBetween
      <3> QED BY <2>3, <3>1 DEF IsBetween, RuleAt
    <2> QED BY <2>2, <2>3
  <1> QED BY <1>2, <1>3, TrailKept

LEMMA Rows ==
  ASSUME NEW s \in Seq(Row)
  PROVE  /\ RowsIn(s) \subseteq Row
         /\ s = <<>> => RowsIn(s) = {}
         /\ s # <<>> => /\ Head(s) \in Row /\ Tail(s) \in Seq(Row)
                        /\ RowsIn(s) = {Head(s)} \union RowsIn(Tail(s))
  <1>1. CASE s = <<>>
    BY <1>1 DEF RowsIn
  <1>2. CASE s # <<>>
    <2>1. /\ Head(s) = s[1] /\ Tail(s) \in Seq(Row) /\ Len(s) \in Nat /\ Len(s) > 0 /\ Len(Tail(s)) = Len(s) - 1
          /\ \A i \in 1 .. Len(s) - 1 : Tail(s)[i] = s[i + 1]
      BY <1>2
    <2>2. \A i \in 1 .. Len(s) : s[i] = Head(s) \/ \E j \in 1 .. Len(Tail(s)) : s[i] = Tail(s)[j]
      <3> SUFFICES ASSUME NEW i \in 1 .. Len(s), i # 1 PROVE \E j \in 1 .. Len(Tail(s)) : s[i] = Tail(s)[j]
        BY <2>1
      <3>1. i - 1 \in 1 .. Len(Tail(s)) /\ Tail(s)[i - 1] = s[(i - 1) + 1] /\ (i - 1) + 1 = i
        BY <2>1
      <3> QED BY <3>1
    <2>3. \A j \in 1 .. Len(Tail(s)) : \E i \in 1 .. Len(s) : Tail(s)[j] = s[i]
      <3> SUFFICES ASSUME NEW j \in 1 .. Len(Tail(s)) PROVE \E i \in 1 .. Len(s) : Tail(s)[j] = s[i]
        OBVIOUS
      <3>1. j + 1 \in 1 .. Len(s) /\ Tail(s)[j] = s[j + 1]
        BY <2>1
      <3> QED BY <3>1
    <2>4. 1 \in 1 .. Len(s)
      BY <2>1
    <2> QED BY <1>2, <2>1, <2>2, <2>3, <2>4 DEF RowsIn
  <1> QED BY <1>1, <1>2

LEMMA RowAppended ==
  ASSUME NEW s \in Seq(Row), NEW x \in Row
  PROVE  /\ Append(s, x) \in Seq(Row)
         /\ RowsIn(Append(s, x)) = RowsIn(s) \union {x}
  <1>1. /\ Append(s, x) \in Seq(Row) /\ Len(s) \in Nat /\ Len(Append(s, x)) = Len(s) + 1
        /\ \A i \in 1 .. Len(s) : Append(s, x)[i] = s[i]
        /\ Append(s, x)[Len(s) + 1] = x
    OBVIOUS
  <1>2. \A i \in 1 .. Len(s) + 1 : i \in 1 .. Len(s) \/ i = Len(s) + 1
    BY <1>1
  <1> QED BY <1>1, <1>2 DEF RowsIn

-----------------------------------------------------------------------------
LEMMA Begins ==
  ASSUME TrailInv, NEW t \in Tasks, NEW event \in Chargebacks, work[t].step = "idle",
         work' = [work EXCEPT ![t] = [Begun(event) EXCEPT !.step = StepFor(event, 1)]],
         UNCHANGED <<weight, audit, topic, offset, faults, auditClock, unexplained>>, posts' \in 0 .. MaxPosts,
         t = Consumer => offset \in 1 .. TopicLength
  PROVE  TrailInv'
  <1>1. PICK w : w = [Begun(event) EXCEPT !.step = StepFor(event, 1)]
    OBVIOUS
  <1>2. /\ w \in Work /\ w.step \in {"get", "audit"} /\ w.adjustments = <<>> /\ w.event \in Chargebacks
        /\ w.step = "get" => w.event.firedRuleIds[w.next] \in RuleIds
    BY <1>1, BegunWork
  <1>3. WeightInv /\ work' = [work EXCEPT ![t] = w]
    BY <1>1 DEF TrailInv
  <1>4. WeightInv'
    BY <1>2, <1>3, WeightFacts, WorkFollows
  <1>5. RowsIn(w.adjustments) = {} /\ Unwritten(t) = {}
    BY <1>2, <1>3, WeightFacts DEF RowsIn, Unwritten
  <1> QED BY <1>2, <1>3, <1>4, <1>5, TaskMoves

LEMMA Reads ==
  ASSUME TrailInv, NEW t \in Tasks, ReadWeight(t)
  PROVE  TrailInv'
  <1> DEFINE r == RuleAt(t)
             old == getWeight(weight[r])
             w == [work[t] EXCEPT !.step = "set", !.old = old]
  <1>1. /\ work[t].step = "get" /\ work' = [work EXCEPT ![t].step = "set", ![t].old = old]
        /\ unexplained' = unexplained \union {x \in {r} : \E other \in Tasks \ {t} : IsBetween(other, x)}
        /\ UNCHANGED <<weight, audit, topic, offset, posts, faults, auditClock>>
    BY DEF ReadWeight
  <1>2. WeightInv /\ work \in [Tasks -> Work] /\ work[t] \in Work /\ r \in RuleIds /\ old \in Weight
    BY <1>1, WeightFacts, WeightsAre DEF TrailInv
  <1> HIDE DEF old
  <1>3. work' = [work EXCEPT ![t] = w]
    BY <1>1, <1>2 DEF Work
  <1>4. /\ w \in Work /\ w.step = "set" /\ w.old = old /\ w.event = work[t].event /\ w.next = work[t].next
        /\ w.adjustments = work[t].adjustments
    BY <1>2, WeightsAre DEF Work
  <1> HIDE DEF w
  <1>5. unexplained' \subseteq RuleIds
    BY <1>1, <1>2, WeightFacts
  <1>6. WeightInv'
    <2>1. w.event.firedRuleIds[w.next] \in RuleIds /\ w.event \in Chargebacks
      BY <1>1, <1>2, <1>4, WeightFacts DEF RuleAt
    <2> QED BY <1>1, <1>2, <1>3, <1>4, <1>5, <2>1, WeightFacts, WorkFollows
  <1>7. work'[t] = w /\ \A u \in Tasks \ {t} : work'[u] = work[u]
    BY <1>2, <1>3
  <1>8. \A x \in RuleIds : Trail(x)' = Trail(x)
    <2>1. \A u \in Tasks : Unwritten(u)' = Unwritten(u)
      BY <1>4, <1>7 DEF Unwritten
    <2> QED BY <1>1, <2>1 DEF Trail
  <1>9. /\ IsBetween(t, r)' /\ \A x : IsBetween(t, x)' => x = r
        /\ \A u \in Tasks \ {t}, x \in RuleIds : IsBetween(u, x)' <=> IsBetween(u, x)
    BY <1>4, <1>7 DEF IsBetween, RuleAt
  <1>10. ASSUME NEW x \in RuleIds \ unexplained'
         PROVE  /\ Leads(Trail(x)', DEFAULT_WEIGHT, getWeight(weight'[x]))
                /\ \A u \in Tasks : IsBetween(u, x)' => work'[u].old = getWeight(weight'[x])
                /\ \A u, v \in Tasks : IsBetween(u, x)' /\ IsBetween(v, x)' => u = v
    <2>1. x \in RuleIds \ unexplained /\ weight'[x] = weight[x]
      BY <1>1, <1>10
    <2>2. /\ Leads(Trail(x), DEFAULT_WEIGHT, getWeight(weight[x]))
          /\ \A u \in Tasks : IsBetween(u, x) => work[u].old = getWeight(weight[x])
          /\ \A u, v \in Tasks : IsBetween(u, x) /\ IsBetween(v, x) => u = v
      BY <2>1 DEF TrailInv
    <2>3. \A u \in Tasks : IsBetween(u, x)' => work'[u].old = getWeight(weight'[x])
      BY <1>4, <1>7, <1>9, <2>1, <2>2 DEF old
    <2>4. \A u, v \in Tasks : IsBetween(u, x)' /\ IsBetween(v, x)' => u = v
      <3>1. CASE x = r
        <4>1. \A other \in Tasks \ {t} : ~IsBetween(other, x)
          BY <1>1, <1>10, <3>1
        <4> QED BY <1>9, <3>1, <4>1
      <3>2. CASE x # r
        BY <1>9, <2>2, <3>2
      <3> QED BY <3>1, <3>2
    <2> QED BY <1>8, <2>1, <2>2, <2>3, <2>4
  <1>11. \A x \in RuleIds : \A row \in Trail(x)' : row.timestamp < auditClock'
    BY <1>1, <1>8 DEF TrailInv
  <1> QED BY <1>6, <1>10, <1>11 DEF TrailInv

LEMMA Adjusts ==
  ASSUME TrailInv, NEW t \in Tasks, adjustWeight(t)
  PROVE  TrailInv'
  <1> DEFINE r == RuleAt(t)
             new == NewWeight(t)
             row == [ruleId |-> r, oldWeight |-> work[t].old, newWeight |-> new, timestamp |-> auditClock]
             step == StepFor(work[t].event, work[t].next + 1)
             rows == Append(work[t].adjustments, row)
             next == work[t].next + 1
             w == Onward(work[t], step, next, rows)
  <1>1. /\ work[t].step = "set" /\ weight' = [weight EXCEPT ![r] = new] /\ auditClock' = auditClock + 1
        /\ work' = [work EXCEPT ![t].step = step, ![t].next = @ + 1, ![t].adjustments = Append(@, row)]
        /\ UNCHANGED <<audit, topic, offset, posts, faults, unexplained>>
    BY DEF adjustWeight
  <1>2. /\ WeightInv /\ work \in [Tasks -> Work] /\ work[t] \in Work /\ r \in RuleIds
        /\ work[t].old \in Weight /\ auditClock \in Nat /\ work[t].adjustments \in Seq(Row)
        /\ work[t].event \in Chargebacks /\ work[t].next \in Nat
    BY <1>1, WeightFacts DEF TrailInv, Work
  <1>20. work[t].old \in Weight
    BY <1>1, <1>2, WeightFacts
  <1>21. next \in Nat
    BY <1>2
  <1>3. new \in Weight
    <2>1. work[t].old \in Int
      <3>1. Weight \subseteq Int
        BY DEF Weight
      <3> QED BY <1>20, <3>1
    <2>3. Delta(work[t].event.outcome) \in Int
      BY DEF Delta
    <2>2. work[t].old + Delta(work[t].event.outcome) \in Int
      BY <2>1, <2>3
    <2> QED BY <2>2, WeightsAre DEF NewWeight
  <1>4. step \in {"get", "audit"}
    BY DEF StepFor
  <1> HIDE DEF r, new
  <1>5. row \in Row /\ row.timestamp = auditClock /\ row.oldWeight = work[t].old /\ row.newWeight = new /\ row.ruleId = r
    BY <1>2, <1>3, WeightsAre DEF Row
  <1> HIDE DEF row, step
  <1>6. rows \in Seq(Row) /\ RowsIn(rows) = RowsIn(work[t].adjustments) \union {row}
    BY <1>2, <1>5, RowAppended
  <1>7. work' = [work EXCEPT ![t] = w]
    BY <1>1, <1>2 DEF Work, Onward
  <1> HIDE DEF rows
  <1> HIDE DEF next
  <1>8. /\ w \in Work /\ w.step = step /\ w.next = next /\ w.event = work[t].event
        /\ w.adjustments = rows
    <2>1. work[t] \in Work /\ rows \in Seq(Row) /\ step \in Steps
      BY <1>2, <1>4, <1>6 DEF Steps
    <2> DEFINE old == work[t]
    <2>2. old \in Work
      BY <2>1
    <2> HIDE DEF old
    <2>4. step \in Steps
      BY <2>1
    <2>5. rows \in Seq(Row)
      BY <2>1
    <2>3. LET k == Onward(old, step, next, rows)
          IN  k \in Work /\ k.step = step /\ k.next = next /\ k.adjustments = rows /\ k.event = old.event
      BY <1>21, <2>2, <2>4, <2>5, WorkGoesOn
    <2> QED BY <2>3 DEF old
  <1> HIDE DEF w
  <1>9. WeightInv'
    <2>1. w.step = "get" => w.event.firedRuleIds[w.next] \in RuleIds
      BY <1>2, <1>8, <1>21, NextRule DEF step, next
    <2>2. weight' \in [RuleIds -> {Absent} \union Weight]
      BY <1>1, <1>2, <1>3, WeightFacts
    <2>3. w.step # "set" /\ w.step # "idle" /\ w.event \in Chargebacks
      BY <1>2, <1>4, <1>8
    <2>4. t = Consumer => offset \in 1 .. TopicLength
      BY <1>1, <1>2, WeightFacts
    <2>5. /\ offset' \in 1 .. (TopicLength + 1) /\ offset' = offset /\ audit' \subseteq Row /\ topic' = topic
          /\ posts' \in 0 .. MaxPosts /\ faults' \in 0 .. MaxFaults /\ auditClock' \in Nat /\ unexplained' \subseteq RuleIds
      <3>1. /\ offset \in 1 .. (TopicLength + 1) /\ audit \subseteq Row /\ posts \in 0 .. MaxPosts
            /\ faults \in 0 .. MaxFaults /\ auditClock \in Nat /\ unexplained \subseteq RuleIds
        BY <1>2, WeightFacts
      <3> QED BY <1>1, <3>1
    <2> QED BY <1>2, <1>7, <1>8, <2>1, <2>2, <2>3, <2>4, <2>5, WorkFollows
  <1>10. work'[t] = w /\ \A u \in Tasks \ {t} : work'[u] = work[u]
    BY <1>2, <1>7
  <1>11. \A x \in RuleIds : Trail(x)' = IF x = r THEN Trail(x) \union {row} ELSE Trail(x)
    <2>1. Unwritten(t)' = Unwritten(t) \union {row} /\ \A u \in Tasks \ {t} : Unwritten(u)' = Unwritten(u)
      BY <1>6, <1>8, <1>10 DEF Unwritten
    <2> QED BY <1>1, <1>5, <2>1 DEF Trail
  <1>12. \A u \in Tasks, x \in RuleIds : IsBetween(u, x)' <=> u # t /\ IsBetween(u, x)
    BY <1>4, <1>8, <1>10 DEF IsBetween, RuleAt
  <1>13. \A x \in RuleIds : \A y \in Trail(x)' : y.timestamp < auditClock'
    <2> SUFFICES ASSUME NEW x \in RuleIds, NEW y \in Trail(x)' PROVE y.timestamp < auditClock'
      OBVIOUS
    <2>1. CASE y = row
      BY <1>1, <1>2, <1>5, <2>1
    <2>2. CASE y # row
      <3>1. y \in Trail(x)
        BY <1>11, <2>2
      <3>2. y.timestamp < auditClock /\ y.timestamp \in Nat
        BY <3>1 DEF TrailInv, Trail, Row
      <3> QED BY <1>1, <1>2, <3>2
    <2> QED BY <2>1, <2>2
  <1>14. ASSUME NEW x \in RuleIds \ unexplained'
         PROVE  /\ Leads(Trail(x)', DEFAULT_WEIGHT, getWeight(weight'[x]))
                /\ \A u \in Tasks : IsBetween(u, x)' => work'[u].old = getWeight(weight'[x])
                /\ \A u, v \in Tasks : IsBetween(u, x)' /\ IsBetween(v, x)' => u = v
    <2>1. x \in RuleIds /\ x \in RuleIds \ unexplained
      BY <1>1, <1>14
    <2>2. /\ Leads(Trail(x), DEFAULT_WEIGHT, getWeight(weight[x]))
          /\ \A u \in Tasks : IsBetween(u, x) => work[u].old = getWeight(weight[x])
          /\ \A u, v \in Tasks : IsBetween(u, x) /\ IsBetween(v, x) => u = v
          /\ \A y \in Trail(x) : y.timestamp < auditClock
      BY <2>1 DEF TrailInv
    <2>3. CASE x # r
      <3>1. weight'[x] = weight[x]
        BY <1>1, <2>1, <2>3, WeightFacts, <1>2
      <3> QED BY <1>10, <1>11, <1>12, <2>1, <2>2, <2>3, <3>1
    <2>4. CASE x = r
      <3>1. weight'[x] = new
        BY <1>1, <2>1, <2>4, WeightFacts, <1>2
      <3>2. IsBetween(t, x)
        BY <1>1, <2>4 DEF IsBetween, r
      <3>3. row.oldWeight = getWeight(weight[x])
        BY <1>5, <2>2, <3>2
      <3>4. Leads(Trail(x) \union {row}, DEFAULT_WEIGHT, row.newWeight)
        <4>1. \A y \in Trail(x) : y \in Row /\ y.timestamp < row.timestamp
          BY <1>5, <2>2 DEF Trail
        <4> QED BY <1>5, <2>2, <3>3, <4>1, TrailContinues
      <3>5. getWeight(weight'[x]) = row.newWeight
        BY <1>3, <1>5, <3>1, WeightsAre
      <3>6. \A u \in Tasks : ~IsBetween(u, x)'
        BY <1>12, <2>1, <2>2, <3>2
      <3> QED BY <1>11, <2>1, <2>4, <3>4, <3>5, <3>6
    <2> QED BY <2>3, <2>4
  <1> QED BY <1>9, <1>13, <1>14 DEF TrailInv

\* Writing the next row, or losing it.
LEMMA RowLeaves ==
  ASSUME TrailInv, NEW t \in Tasks, work[t].step = "audit", work[t].adjustments # <<>>,
         work' = [work EXCEPT ![t].adjustments = Tail(@)],
         UNCHANGED <<weight, topic, offset, posts, auditClock>>, faults' \in 0 .. MaxFaults,
         \/ audit' = audit \union {Head(work[t].adjustments)} /\ unexplained' = unexplained
         \/ audit' = audit /\ unexplained' = unexplained \union {Head(work[t].adjustments).ruleId}
  PROVE  TrailInv'
  <1> DEFINE s == work[t].adjustments
             w == [work[t] EXCEPT !.adjustments = Tail(s)]
  <1>1. /\ WeightInv /\ work \in [Tasks -> Work] /\ work[t] \in Work /\ s \in Seq(Row)
        /\ work[t].event \in Chargebacks
    BY WeightFacts DEF TrailInv, Work
  <1>2. /\ Head(s) \in Row /\ Tail(s) \in Seq(Row) /\ RowsIn(s) = {Head(s)} \union RowsIn(Tail(s))
    BY <1>1, Rows
  <1>3. work' = [work EXCEPT ![t] = w]
    BY <1>1 DEF Work
  <1>4. w \in Work /\ w.step = "audit" /\ w.event \in Chargebacks /\ w.adjustments = Tail(s)
    BY <1>1, <1>2 DEF Work
  <1>5. audit' \subseteq Row /\ unexplained' \subseteq RuleIds
    BY <1>1, <1>2, WeightFacts DEF Row
  <1> HIDE DEF w
  <1>6. WeightInv'
    <2>1. w.step # "idle" /\ w.step \notin {"get", "set"} /\ w.step # "set"
      BY <1>4
    <2>2. /\ offset' \in 1 .. (TopicLength + 1) /\ offset' = offset /\ topic' = topic
          /\ (t = Consumer => offset' \in 1 .. TopicLength)
          /\ weight' \in [RuleIds -> {Absent} \union Weight]
          /\ posts' \in 0 .. MaxPosts /\ auditClock' \in Nat
      BY <1>1, WeightFacts
    <2> QED BY <1>1, <1>3, <1>4, <1>5, <2>1, <2>2, WorkFollows
  <1>7. RowsIn(w.adjustments) \subseteq Unwritten(t) /\ Head(s) \in Unwritten(t)
    BY <1>2, <1>4 DEF Unwritten
  <1>8. \A row \in Unwritten(t) : row \in audit' \/ row \in RowsIn(w.adjustments) \/ row.ruleId \in unexplained'
    BY <1>2, <1>4 DEF Unwritten
  <1>9. /\ audit \subseteq audit' /\ audit' \subseteq audit \union Unwritten(t) /\ unexplained \subseteq unexplained'
        /\ w.step # "set"
    BY <1>4, <1>7
  <1> QED BY <1>3, <1>4, <1>6, <1>7, <1>8, <1>9, TaskMoves

\* A task that is done, in order or by a failure, is free.
LEMMA TaskEnds ==
  ASSUME TrailInv, NEW t \in Tasks, work[t].step # "idle", Done(t),
         weight' \in [RuleIds -> {Absent} \union Weight], UNCHANGED <<audit, topic, posts, auditClock>>,
         faults' \in 0 .. MaxFaults, unexplained' \subseteq RuleIds, unexplained \subseteq unexplained',
         \A r \in RuleIds \ unexplained' : weight'[r] = weight[r],
         Adjusted(t) \subseteq unexplained'
  PROVE  TrailInv'
  <1>1. WeightInv /\ work[t].adjustments \in Seq(Row)
    BY WeightFacts DEF TrailInv, Work
  <1>2. WeightInv'
    BY <1>1, DoneTypes
  <1>3. work' = [work EXCEPT ![t] = Idle]
    BY DEF Done
  <1>4. Idle \in Work /\ Idle.step # "set" /\ RowsIn(Idle.adjustments) = {}
    BY <1>1, WeightFacts DEF Idle, RowsIn
  <1>5. \A row \in Unwritten(t) : row.ruleId \in unexplained'
    BY <1>1 DEF Unwritten, RowsIn, Adjusted
  <1> QED BY <1>2, <1>3, <1>4, <1>5, TaskMoves

LEMMA ChargebackEnds ==
  ASSUME TrailInv, NEW t \in Tasks, EndChargeback(t)
  PROVE  TrailInv'
  <1>1. /\ work[t].step = "audit" /\ Done(t) /\ Adjusted(t) = {}
        /\ UNCHANGED <<weight, audit, topic, posts, faults, auditClock, unexplained>>
    BY DEF EndChargeback, Adjusted
  <1>2. /\ weight' \in [RuleIds -> {Absent} \union Weight] /\ faults' \in 0 .. MaxFaults
        /\ unexplained' \subseteq RuleIds
    BY <1>1, WeightFacts DEF TrailInv
  <1> QED BY <1>1, <1>2, TaskEnds

LEMMA FaultCounted ==
  ASSUME WeightInv, Fault
  PROVE  faults' \in 0 .. MaxFaults
  BY WeightFacts DEF Fault

LEMMA Fails ==
  ASSUME TrailInv, NEW t \in Tasks, RedisFails(t)
  PROVE  TrailInv'
  <1>1. /\ work[t].step \in {"get", "set"} /\ Done(t) /\ WeightInv
        /\ unexplained' = unexplained \union Adjusted(t) \union {RuleAt(t)}
        /\ UNCHANGED <<audit, topic, posts, auditClock>>
    BY DEF RedisFails, TrailInv
  <1>2. RuleAt(t) \in RuleIds /\ Adjusted(t) \subseteq RuleIds /\ unexplained \subseteq RuleIds
    <2>1. work[t].adjustments \in Seq(Row)
      BY <1>1, WeightFacts DEF Work
    <2>2. Adjusted(t) \subseteq RuleIds
      <3>1. \A i \in DOMAIN work[t].adjustments : work[t].adjustments[i] \in Row
        BY <2>1
      <3> QED BY <3>1 DEF Adjusted, Row
    <2> QED BY <1>1, <2>2, WeightFacts
  <1>3. /\ weight' \in [RuleIds -> {Absent} \union Weight]
        /\ \A r \in RuleIds \ unexplained' : weight'[r] = weight[r]
    <2>1. weight \in [RuleIds -> {Absent} \union Weight]
      BY <1>1, WeightFacts
    <2>2. CASE UNCHANGED weight
      BY <2>1, <2>2
    <2>3. CASE work[t].step = "set" /\ weight' = [weight EXCEPT ![RuleAt(t)] = NewWeight(t)]
      <3>1. NewWeight(t) \in Weight
        <4>1. work[t].old \in Int
          <5>1. work[t].old \in Weight
            BY <1>1, <2>3, WeightFacts
          <5> QED BY <5>1 DEF Weight
        <4>3. Delta(work[t].event.outcome) \in Int
          BY DEF Delta
        <4>4. work[t].old + Delta(work[t].event.outcome) \in Int
          BY <4>1, <4>3
        <4> QED BY <4>4, WeightsAre DEF NewWeight
      <3> QED BY <1>1, <1>2, <2>1, <2>3, <3>1
    <2> QED BY <2>2, <2>3 DEF RedisFails
  <1>4. faults' \in 0 .. MaxFaults
    BY <1>1, FaultCounted DEF RedisFails
  <1>5. /\ unexplained' \subseteq RuleIds /\ unexplained \subseteq unexplained' /\ Adjusted(t) \subseteq unexplained'
        /\ work[t].step # "idle"
    BY <1>1, <1>2
  <1> QED BY <1>1, <1>3, <1>4, <1>5, TaskEnds

LEMMA Crashes ==
  ASSUME TrailInv, CrashWeights
  PROVE  TrailInv'
  <1>1. /\ WeightInv /\ work' = [t \in Tasks |-> Idle]
        /\ unexplained' = unexplained \union UNION {Adjusted(t) : t \in Tasks}
        /\ UNCHANGED <<weight, audit, topic, offset, posts, auditClock>>
    BY DEF CrashWeights, TrailInv
  <1>2. \A t \in Tasks : work[t].adjustments \in Seq(Row)
    BY <1>1, WeightFacts DEF Work
  <1>3. \A t \in Tasks : Adjusted(t) \subseteq RuleIds
    <2> SUFFICES ASSUME NEW t \in Tasks PROVE Adjusted(t) \subseteq RuleIds
      OBVIOUS
    <2>1. \A i \in DOMAIN work[t].adjustments : work[t].adjustments[i] \in Row
      BY <1>2
    <2> QED BY <2>1 DEF Adjusted, Row
  <1>4. \A t \in Tasks : work'[t] = Idle /\ Idle.step = "idle" /\ Idle.adjustments = <<>>
    BY <1>1 DEF Idle
  <1>5. WeightInv'
    <2>1. unexplained' \subseteq RuleIds
      BY <1>1, <1>3, WeightFacts
    <2>2. faults' \in 0 .. MaxFaults /\ faults' \in Nat
      BY <1>1, FaultCounted DEF CrashWeights
    <2>3. work' \in [Tasks -> Work]
      BY <1>1, WeightFacts
    <2>4. /\ weight' \in [RuleIds -> {Absent} \union Weight] /\ offset' \in 1 .. (TopicLength + 1)
          /\ posts' \in 0 .. MaxPosts /\ posts' \in Nat /\ auditClock' \in Nat /\ audit' \subseteq Row
          /\ topic' \in [1 .. TopicLength -> Chargebacks] /\ Consumer \in Tasks
      BY <1>1, WeightFacts
    <2>5. WeightTypeOK'
      BY <1>4, <2>1, <2>2, <2>4 DEF WeightTypeOK, Weight
    <2>6. \A t \in Tasks :
             /\ work'[t].step = "idle" => work'[t].adjustments = <<>>
             /\ work'[t].step # "idle" => work'[t].event \in Chargebacks
             /\ work'[t].step \in {"get", "set"} => RuleAt(t)' \in RuleIds
             /\ work'[t].step = "set" => work'[t].old \in Weight
      BY <1>4
    <2>7. work'[Consumer].step # "idle" => offset' \in 1 .. TopicLength
      BY <1>4, <2>4
    <2> QED BY <2>2, <2>3, <2>4, <2>5, <2>6, <2>7 DEF WeightInv
  <1>6. \A t \in Tasks : Unwritten(t)' = {} /\ \A r : ~IsBetween(t, r)'
    BY <1>4 DEF Unwritten, RowsIn, IsBetween
  <1>7. \A r \in RuleIds : Trail(r)' \subseteq Trail(r)
    BY <1>1, <1>6 DEF Trail
  <1>8. \A r \in RuleIds \ unexplained' : Trail(r) \subseteq Trail(r)'
    <2> SUFFICES ASSUME NEW r \in RuleIds, r \notin unexplained', NEW row \in Trail(r)
                 PROVE  row \in Trail(r)'
      OBVIOUS
    <2>1. ASSUME NEW t \in Tasks PROVE row \notin Unwritten(t)
      <3>1. \A x \in Unwritten(t) : x.ruleId \in Adjusted(t)
        BY <1>2 DEF Unwritten, RowsIn, Adjusted
      <3>2. row.ruleId \notin Adjusted(t)
        BY <1>1 DEF Trail
      <3> QED BY <3>1, <3>2
    <2> QED BY <1>1, <2>1 DEF Trail
  <1> QED BY <1>1, <1>5, <1>6, <1>7, <1>8, TrailKept

-----------------------------------------------------------------------------
LEMMA TrailInit == WeightInit => TrailInv
  <1> SUFFICES ASSUME WeightInit PROVE TrailInv
    OBVIOUS
  <1>1. /\ weight = [r \in RuleIds |-> Absent] /\ audit = {} /\ topic \in [1 .. TopicLength -> Chargebacks]
        /\ offset = 1 /\ work = [t \in Tasks |-> Idle] /\ posts = 0 /\ faults = 0 /\ auditClock = 0 /\ unexplained = {}
    BY DEF WeightInit
  <1>2. \A t \in Tasks : work[t] = Idle /\ Idle.step = "idle" /\ Idle.adjustments = <<>>
    BY <1>1 DEF Idle
  <1>3. Idle \in Work /\ {TopicLength, MaxPosts, MaxFaults} \subseteq Nat /\ Consumer \in Tasks
    BY WeightsAssumption DEF Idle, Work, Tasks
  <1>4. WeightTypeOK
    BY <1>1, <1>2, <1>3 DEF WeightTypeOK
  <1>5. WeightInv
    BY <1>1, <1>2, <1>3, <1>4 DEF WeightInv
  <1>6. \A r : Trail(r) = {} /\ \A t \in Tasks : ~IsBetween(t, r)
    BY <1>1, <1>2 DEF Trail, Unwritten, RowsIn, IsBetween
  <1>7. \A r \in RuleIds : Leads(Trail(r), DEFAULT_WEIGHT, getWeight(weight[r]))
    BY <1>1, <1>6 DEF Leads, getWeight, Absent
  <1> QED BY <1>5, <1>6, <1>7 DEF TrailInv

LEMMA TrailNext == TrailInv /\ [WeightNext]_weightVars => TrailInv'
  <1> SUFFICES ASSUME TrailInv, [WeightNext]_weightVars PROVE TrailInv'
    OBVIOUS
  <1>1. WeightInv
    BY DEF TrailInv
  <1>2. CASE handleMessage
    <2>1. /\ work[Consumer].step = "idle" /\ offset \in 1 .. TopicLength /\ topic[offset] \in Chargebacks
          /\ Consumer \in Tasks
      BY <1>1, <1>2, WeightFacts DEF handleMessage
    <2>2. posts' \in 0 .. MaxPosts
      BY <1>1, <1>2, WeightFacts DEF handleMessage
    <2> QED BY <1>2, <2>1, <2>2, Begins DEF handleMessage
  <1>3. ASSUME NEW t \in Clients, NEW event \in Chargebacks, submitChargeback(t, event)
        PROVE  TrailInv'
    <2>1. t \in Tasks /\ t # Consumer
      BY WeightsAssumption DEF Tasks
    <2>2. posts' \in 0 .. MaxPosts
      BY <1>1, <1>3, WeightFacts DEF submitChargeback
    <2> QED BY <1>3, <2>1, <2>2, Begins DEF submitChargeback
  <1>4. ASSUME NEW t \in Tasks, logAdjustment(t)
        PROVE  TrailInv'
    <2>1. faults' \in 0 .. MaxFaults
      BY <1>1, <1>4, WeightFacts DEF logAdjustment
    <2> QED BY <1>4, <2>1, RowLeaves DEF logAdjustment
  <1>5. ASSUME NEW t \in Tasks, AuditFails(t)
        PROVE  TrailInv'
    <2>1. faults' \in 0 .. MaxFaults
      BY <1>1, <1>5, FaultCounted DEF AuditFails
    <2> QED BY <1>5, <2>1, RowLeaves DEF AuditFails
  <1>6. CASE UNCHANGED weightVars
    <2>1. /\ \A r : Trail(r)' = Trail(r)
          /\ \A t, r : IsBetween(t, r)' <=> IsBetween(t, r)
      BY <1>6 DEF weightVars, Trail, Unwritten, IsBetween, RuleAt
    <2>2. WeightInv'
      BY <1>1, <1>6 DEF weightVars, WeightInv, WeightTypeOK, RuleAt
    <2> QED BY <1>6, <2>1, <2>2, TrailKept DEF weightVars
  <1> QED BY <1>2, <1>3, <1>4, <1>5, <1>6, Reads, Adjusts, ChargebackEnds, Fails, Crashes DEF WeightNext, TaskStep

\* WeightTypeOK: the weights stay within their limits, whatever overlaps or fails.
THEOREM WeightTypeCorrect == WeightSpec => []WeightTypeOK
  <1>1. TrailInv => WeightTypeOK
    BY DEF TrailInv, WeightInv
  <1> QED BY <1>1, TrailInit, TrailNext, PTL DEF WeightSpec

\* AuditExplainsWeight: a rule whose rows are all written has no other trail
\* than its audit rows.
THEOREM AuditExplains == WeightSpec => []AuditExplainsWeight
  <1>1. ASSUME TrailInv PROVE AuditExplainsWeight
    <2> SUFFICES ASSUME NEW r \in RuleIds \ unexplained, \A t \in Tasks : r \notin Adjusted(t)
                 PROVE  Leads(RowsOf(r), DEFAULT_WEIGHT, IF weight[r] = Absent THEN DEFAULT_WEIGHT ELSE weight[r])
      BY DEF AuditExplainsWeight
    <2>1. \A t \in Tasks : work[t].adjustments \in Seq(Row)
      BY <1>1, WeightFacts DEF TrailInv, Work
    <2>2. \A t \in Tasks : \A row \in Unwritten(t) : row.ruleId # r
      BY <2>1 DEF Unwritten, RowsIn, Adjusted
    <2>3. audit \subseteq Row
      BY <1>1, WeightFacts DEF TrailInv
    <2>4. RowsOf(r) = Trail(r)
      BY <2>2, <2>3 DEF RowsOf, Trail
    <2> QED BY <1>1, <2>4 DEF TrailInv, getWeight
  <1> QED BY <1>1, TrailInit, TrailNext, PTL DEF WeightSpec

-----------------------------------------------------------------------------
(* The limits: a bucket's tokens and what it let pass *)

LEMMA TimesNext ==
  ASSUME NEW a \in Int, NEW r \in Int
  PROVE  (a + 1) * r = a * r + r
  OBVIOUS

LEMMA TimesMonotone ==
  ASSUME NEW a \in Int, NEW b \in Int, NEW r \in Nat, a <= b
  PROVE  a * r <= b * r
  <1>1. PICK d \in Nat : b = a + d
    <2>1. b - a \in Nat /\ b = a + (b - a)
      OBVIOUS
    <2> QED BY <2>1
  <1>2. b * r = a * r + d * r /\ d * r >= 0 /\ a * r \in Int /\ d * r \in Int
    BY <1>1
  <1> QED BY <1>2

\* The token bucket of an API key (RateLimit).
Stretch(i) == (ticks - granted[i]) * REFILL_RATE
KeyInv ==
    /\ ticks \in Nat /\ granted \in Seq(Nat)
    /\ bucket # NoBucket =>
          /\ bucket[1].tokens \in Nat /\ bucket[1].lastRefill \in Nat
          /\ bucket[1].lastRefill <= ticks
          /\ bucket[1].expires = bucket[1].lastRefill + BucketExpiry
    /\ \A i \in DOMAIN granted : granted[i] <= ticks

\* What passed since a grant and what may pass now is no more than a full
\* bucket and the refill since.
BucketInv ==
    /\ KeyInv /\ BucketBoundsEveryStretch
    /\ \A i \in DOMAIN granted : Len(granted) - i + 1 + Tokens <= CAPACITY + Stretch(i)

LEMMA Rates ==
  /\ CAPACITY \in Nat /\ REFILL_RATE \in Nat /\ BucketExpiry \in Nat
  /\ CAPACITY >= 1 /\ REFILL_RATE >= 1 /\ CAPACITY <= BucketExpiry * REFILL_RATE
  BY RateAssumption

LEMMA TokensAre ==
  ASSUME KeyInv
  PROVE  Tokens \in 0 .. CAPACITY
  <1>1. CASE Present(bucket)
    <2>1. /\ bucket[1].tokens \in Nat /\ ticks - bucket[1].lastRefill \in Nat
      BY <1>1 DEF Present, KeyInv
    <2>2. (ticks - bucket[1].lastRefill) * REFILL_RATE \in Nat
      BY <2>1, Rates
    <2> QED BY <1>1, <2>1, <2>2, Rates DEF Tokens, Refilled, Least
  <1>2. CASE ~Present(bucket)
    BY <1>2, Rates DEF Tokens
  <1> QED BY <1>1, <1>2

\* A tick adds no more than its refill, also when the key expires with it.
LEMMA TokensGrow ==
  ASSUME KeyInv, RateTick
  PROVE  Tokens' \in Int /\ Tokens' <= Tokens + REFILL_RATE
  <1>1. ticks' = ticks + 1 /\ bucket' = bucket /\ ticks \in Nat
    BY DEF RateTick, KeyInv
  <1>2. CASE ~Present(bucket)
    <2>1. ~Present(bucket)'
      <3>1. CASE bucket = NoBucket
        BY <1>1, <3>1 DEF Present
      <3>2. CASE bucket # NoBucket
        <4>1. bucket[1].expires \in Int /\ ~(ticks < bucket[1].expires)
          BY <1>2, <3>2, Rates DEF Present, KeyInv
        <4>2. ~(ticks + 1 < bucket[1].expires)
          BY <1>1, <4>1
        <4> QED BY <1>1, <4>2 DEF Present
      <3> QED BY <3>1, <3>2
    <2> QED BY <1>2, <2>1, Rates DEF Tokens
  <1>3. CASE Present(bucket)
    <2> DEFINE b == bucket[1]
               gain == (ticks - b.lastRefill) * REFILL_RATE
    <2>1. /\ b.tokens \in Nat /\ b.lastRefill \in Nat /\ b.expires = b.lastRefill + BucketExpiry
          /\ ticks < b.expires /\ bucket # NoBucket
      BY <1>3 DEF Present, KeyInv
    <2>2. gain \in Int /\ (ticks' - b.lastRefill) * REFILL_RATE = gain + REFILL_RATE
      <3>1. ticks' - b.lastRefill = (ticks - b.lastRefill) + 1 /\ ticks - b.lastRefill \in Int
        BY <1>1, <2>1
      <3> QED BY <3>1, Rates, TimesNext
    <2>3. Tokens = Least(CAPACITY, b.tokens + gain)
      BY <1>3 DEF Tokens, Refilled
    <2>4. CASE Present(bucket)'
      <3>1. Tokens' = Least(CAPACITY, b.tokens + (gain + REFILL_RATE))
        BY <1>1, <2>2, <2>4 DEF Tokens, Refilled
      <3> HIDE DEF gain
      <3> QED BY <2>1, <2>2, <2>3, <3>1, Rates DEF Least
    <2>5. CASE ~Present(bucket)'
      <3>1. Tokens' = CAPACITY
        BY <2>5 DEF Tokens
      <3>2. BucketExpiry <= (ticks - b.lastRefill) + 1
        BY <1>1, <2>1, <2>5, Rates DEF Present
      <3>3. CAPACITY <= gain + REFILL_RATE
        <4>1. BucketExpiry * REFILL_RATE <= ((ticks - b.lastRefill) + 1) * REFILL_RATE
          BY <1>1, <2>1, <3>2, Rates, TimesMonotone
        <4>2. ((ticks - b.lastRefill) + 1) * REFILL_RATE = gain + REFILL_RATE
          BY <1>1, <2>1, Rates, TimesNext
        <4>3. BucketExpiry * REFILL_RATE \in Int
          BY Rates
        <4> HIDE DEF gain
        <4> QED BY <2>2, <4>1, <4>2, <4>3, Rates
      <3> HIDE DEF gain
      <3> QED BY <2>1, <2>2, <2>3, <3>1, <3>3, Rates DEF Least
    <2> QED BY <2>4, <2>5
  <1> QED BY <1>2, <1>3

LEMMA StretchGrows ==
  ASSUME KeyInv, NEW i \in DOMAIN granted
  PROVE  /\ Stretch(i) \in Nat
         /\ (ticks + 1 - granted[i]) * REFILL_RATE = Stretch(i) + REFILL_RATE
  <1>1. ticks \in Nat /\ granted[i] \in Nat /\ granted[i] <= ticks
    BY DEF KeyInv
  <1>2. ticks - granted[i] \in Nat /\ ticks + 1 - granted[i] = (ticks - granted[i]) + 1
    BY <1>1
  <1>3. (ticks - granted[i]) * REFILL_RATE \in Nat
    BY <1>2, Rates
  <1>4. ((ticks - granted[i]) + 1) * REFILL_RATE = (ticks - granted[i]) * REFILL_RATE + REFILL_RATE
    <2>1. ticks - granted[i] \in Int /\ REFILL_RATE \in Int
      BY <1>2, Rates
    <2> QED BY <2>1, TimesNext
  <1> QED BY <1>2, <1>3, <1>4 DEF Stretch

LEMMA BucketStep ==
  ASSUME BucketInv, [RateNext]_rateVars
  PROVE  BucketInv'
  <1>1. KeyInv /\ Tokens \in 0 .. CAPACITY /\ granted \in Seq(Nat) /\ ticks \in Nat /\ Len(granted) \in Nat
    BY TokensAre DEF BucketInv, KeyInv
  <1>2. CASE consume
    <2>1. PICK left \in Nat : /\ bucket' = <<[tokens |-> left, lastRefill |-> ticks, expires |-> ticks + BucketExpiry]>>
                              /\ \/ left = Tokens - 1 /\ granted' = Append(granted, ticks)
                                 \/ left = Tokens /\ granted' = granted
                              /\ left <= CAPACITY
      <3>1. CASE Tokens >= 1
        <4>1. Tokens - 1 \in Nat /\ Tokens - 1 <= CAPACITY
          BY <1>1, <3>1, Rates
        <4> QED BY <1>2, <3>1, <4>1 DEF consume, KeyBucket
      <3>2. CASE ~(Tokens >= 1)
        <4>1. Tokens \in Nat /\ Tokens <= CAPACITY
          BY <1>1
        <4> QED BY <1>2, <3>2, <4>1 DEF consume, KeyBucket
      <3> QED BY <3>1, <3>2
    <2>2. ticks' = ticks
      BY <1>2 DEF consume
    <2>3. Tokens' = left
      <3>1. /\ bucket'[1].tokens = left /\ bucket'[1].lastRefill = ticks /\ bucket'[1].expires = ticks + BucketExpiry
            /\ bucket' # NoBucket
        BY <2>1 DEF NoBucket
      <3>2. Present(bucket)'
        BY <1>1, <2>2, <3>1, RateAssumption DEF Present
      <3>3. (ticks' - bucket'[1].lastRefill) * REFILL_RATE = 0
        BY <1>1, <2>2, <3>1, Rates
      <3>4. Tokens' = Least(CAPACITY, left + 0)
        BY <3>1, <3>2, <3>3 DEF Tokens, Refilled
      <3> QED BY <2>1, <3>4, Rates DEF Least
    <2>4. KeyInv'
      <3>1. granted' \in Seq(Nat)
        <4>1. CASE granted' = Append(granted, ticks)
          BY <1>1, <4>1
        <4> QED BY <1>1, <2>1, <4>1
      <3>2. \A i \in DOMAIN granted' : granted'[i] <= ticks'
        <4>1. CASE granted' = Append(granted, ticks)
          <5>1. /\ DOMAIN granted' = 1 .. Len(granted) + 1 /\ DOMAIN granted = 1 .. Len(granted)
                /\ granted'[Len(granted) + 1] = ticks /\ \A i \in 1 .. Len(granted) : granted'[i] = granted[i]
            BY <1>1, <4>1
          <5>2. \A i \in 1 .. Len(granted) : granted[i] <= ticks
            BY <1>1, <5>1 DEF KeyInv
          <5>3. \A i \in 1 .. Len(granted) + 1 : i \in 1 .. Len(granted) \/ i = Len(granted) + 1
            BY <1>1
          <5> QED BY <1>1, <2>2, <5>1, <5>2, <5>3
        <4>2. CASE granted' = granted
          BY <1>1, <2>2, <4>2 DEF KeyInv
        <4> QED BY <2>1, <4>1, <4>2
      <3>3. /\ bucket'[1].tokens \in Nat /\ bucket'[1].lastRefill \in Nat /\ bucket'[1].lastRefill <= ticks'
            /\ bucket'[1].expires = bucket'[1].lastRefill + BucketExpiry
        BY <1>1, <2>1, <2>2
      <3> QED BY <1>1, <2>2, <3>1, <3>2, <3>3 DEF KeyInv
    <2>5. CASE granted' = granted /\ left = Tokens
      BY <2>2, <2>3, <2>4, <2>5 DEF BucketInv, BucketBoundsEveryStretch, Stretch
    <2>6. CASE granted' = Append(granted, ticks) /\ left = Tokens - 1
      <3>1. /\ Len(granted') = Len(granted) + 1 /\ DOMAIN granted' = 1 .. Len(granted) + 1
            /\ DOMAIN granted = 1 .. Len(granted)
            /\ granted'[Len(granted) + 1] = ticks /\ \A i \in 1 .. Len(granted) : granted'[i] = granted[i]
        BY <1>1, <2>6
      <3>2. ASSUME NEW i \in DOMAIN granted'
            PROVE  Len(granted') - i + 1 + Tokens' <= CAPACITY + Stretch(i)' /\ Stretch(i)' \in Int
        <4>1. CASE i \in 1 .. Len(granted)
          <5>1. Len(granted) - i + 1 + Tokens <= CAPACITY + Stretch(i) /\ Stretch(i) \in Nat
            BY <1>1, <3>1, <4>1, StretchGrows DEF BucketInv
          <5>2. Stretch(i)' = Stretch(i)
            BY <2>2, <3>1, <4>1 DEF Stretch
          <5> QED BY <1>1, <2>3, <2>6, <3>1, <4>1, <5>1, <5>2, Rates
        <4>2. CASE i = Len(granted) + 1
          <5>1. Stretch(i)' = 0
            <6>1. ticks' - granted'[i] = 0
              BY <1>1, <2>2, <3>1, <4>2
            <6> QED BY <6>1, Rates DEF Stretch
          <5> QED BY <1>1, <2>3, <2>6, <3>1, <4>2, <5>1, Rates
        <4> QED BY <1>1, <3>1, <4>1, <4>2
      <3>3. BucketBoundsEveryStretch'
        <4> SUFFICES ASSUME NEW i \in DOMAIN granted', NEW j \in DOMAIN granted', i <= j
                     PROVE  j - i + 1 <= CAPACITY + (granted'[j] - granted'[i]) * REFILL_RATE
          BY DEF BucketBoundsEveryStretch
        <4>1. CASE j \in 1 .. Len(granted)
          <5>1. i \in 1 .. Len(granted)
            BY <1>1, <3>1, <4>1
          <5> QED BY <3>1, <4>1, <5>1 DEF BucketInv, BucketBoundsEveryStretch
        <4>2. CASE j = Len(granted) + 1
          <5>1. Stretch(i)' = (granted'[j] - granted'[i]) * REFILL_RATE
            BY <2>2, <3>1, <4>2 DEF Stretch
          <5>2. Tokens' \in Nat
            BY <2>1, <2>3
          <5> QED BY <1>1, <3>1, <3>2, <4>2, <5>1, <5>2, Rates
        <4> QED BY <1>1, <3>1, <4>1, <4>2
      <3> QED BY <2>4, <3>2, <3>3 DEF BucketInv
    <2> QED BY <2>1, <2>5, <2>6
  <1>3. CASE RateTick
    <2>1. ticks' = ticks + 1 /\ bucket' = bucket /\ granted' = granted
      BY <1>3 DEF RateTick
    <2>2. KeyInv'
      BY <1>1, <2>1 DEF KeyInv
    <2>3. Tokens' <= Tokens + REFILL_RATE /\ Tokens' \in Int
      BY <1>1, <1>3, TokensGrow
    <2>4. ASSUME NEW i \in DOMAIN granted
          PROVE  Len(granted') - i + 1 + Tokens' <= CAPACITY + Stretch(i)'
      <3>1. Len(granted) - i + 1 + Tokens <= CAPACITY + Stretch(i) /\ Stretch(i) \in Nat /\ i \in Nat
        BY <1>1, StretchGrows DEF BucketInv
      <3>2. Stretch(i)' = Stretch(i) + REFILL_RATE
        <4>1. Stretch(i)' = (ticks + 1 - granted[i]) * REFILL_RATE
          <5>1. ticks' - granted'[i] = ticks + 1 - granted[i]
            <6>1. granted[i] \in Nat
              BY <1>1
            <6> QED BY <1>1, <2>1, <6>1
          <5> QED BY <5>1 DEF Stretch
        <4> QED BY <1>1, <4>1, StretchGrows
      <3> QED BY <1>1, <2>1, <2>3, <3>1, <3>2, Rates
    <2>5. BucketBoundsEveryStretch'
      BY <2>1 DEF BucketInv, BucketBoundsEveryStretch
    <2> QED BY <2>1, <2>2, <2>4, <2>5 DEF BucketInv
  <1>4. CASE UNCHANGED <<bucket, ticks, granted>>
    <2>1. Tokens' = Tokens
      BY <1>4 DEF Tokens, Present, Refilled
    <2> QED BY <1>4, <2>1 DEF BucketInv, KeyInv, BucketBoundsEveryStretch, Stretch
  <1>5. \A role : checkAndConsume(role) => UNCHANGED <<bucket, ticks, granted>>
    BY DEF checkAndConsume
  <1> QED BY <1>2, <1>3, <1>4, <1>5 DEF RateNext, rateVars

LEMMA BucketInit == RateInit => BucketInv
  <1> SUFFICES ASSUME RateInit PROVE BucketInv
    OBVIOUS
  <1>1. bucket = NoBucket /\ ticks = 0 /\ granted = <<>> /\ <<>> \in Seq(Nat)
    BY DEF RateInit
  <1> QED BY <1>1 DEF BucketInv, KeyInv, BucketBoundsEveryStretch

\* BucketBoundsEveryStretch: merchant-rate-limit.service.ts lets no more pass
\* than a full bucket and its refill, also when Redis forgets the key between.
THEOREM BucketIsBounded == RateSpec => []BucketBoundsEveryStretch
  <1>1. BucketInv => BucketBoundsEveryStretch
    BY DEF BucketInv
  <1> QED BY <1>1, BucketInit, BucketStep, PTL DEF RateSpec

\* The window of a merchant and an endpoint.
WindowInv ==
    /\ ticks \in Nat /\ admitted \in Int
    /\ window # NoBucket => /\ window[1].left \in Int /\ window[1].expires \in Int
                            /\ DOMAIN window[1] = {"left", "expires"}
    /\ Present(window) => admitted + window[1].left \in {Limit, Limit * burstMultiplier}

LEMMA LimitsAre ==
  /\ Limit \in Int /\ Limit * burstMultiplier \in Int /\ windowSeconds \in Nat /\ windowSeconds > 0
  /\ \A role : getLimitForTier(resolveTier(role)) \in {Limit, Limit * burstMultiplier}
  BY RateAssumption DEF getLimitForTier, resolveTier

LEMMA WindowStep ==
  ASSUME WindowInv, [RateNext]_rateVars
  PROVE  WindowInv'
  <1>1. ASSUME NEW role, checkAndConsume(role) PROVE WindowInv'
    <2> DEFINE limit == getLimitForTier(resolveTier(role))
    <2>1. limit \in {Limit, Limit * burstMultiplier} /\ limit \in Int
      BY LimitsAre
    <2>2. ticks' = ticks
      BY <1>1 DEF checkAndConsume
    <2> HIDE DEF limit
    <2>3. CASE window' = <<[left |-> limit - 1, expires |-> ticks + windowSeconds]>> /\ admitted' = 1
      <3>1. window'[1].left = limit - 1 /\ window'[1].expires = ticks + windowSeconds
        BY <2>3
      <3>2. admitted' + window'[1].left = limit
        BY <2>1, <2>3, <3>1
      <3> QED BY <2>1, <2>2, <2>3, <3>1, <3>2, LimitsAre DEF WindowInv
    <2>4. CASE /\ Present(window) /\ window' = <<[window[1] EXCEPT !.left = @ - 1]>> /\ admitted' = admitted + 1
      <3>1. /\ window[1].left \in Int /\ window[1].expires \in Int /\ admitted \in Int /\ ticks \in Nat
            /\ admitted + window[1].left \in {Limit, Limit * burstMultiplier}
            /\ ticks < window[1].expires /\ DOMAIN window[1] = {"left", "expires"}
        BY <2>4 DEF WindowInv, Present
      <3>2. window'[1].left \in Int /\ window'[1].expires = window[1].expires
            /\ admitted' + window'[1].left = admitted + window[1].left
        <4>1. PICK k : k = window[1]
          OBVIOUS
        <4>2. window' = <<[k EXCEPT !.left = @ - 1]>> /\ DOMAIN k = {"left", "expires"}
          BY <2>4, <3>1, <4>1
        <4>3. window'[1].left = k.left - 1 /\ window'[1].expires = k.expires
          BY <4>2
        <4> QED BY <2>4, <3>1, <4>1, <4>3
      <3>3. DOMAIN window'[1] = {"left", "expires"}
        BY <2>4, <3>1
      <3> QED BY <2>2, <2>4, <3>1, <3>2, <3>3 DEF WindowInv
    <2>5. CASE UNCHANGED <<window, admitted>>
      BY <2>2, <2>5 DEF WindowInv, Present
    <2> QED BY <1>1, <2>3, <2>4, <2>5 DEF checkAndConsume, limit
  <1>2. CASE RateTick
    BY <1>2 DEF RateTick, WindowInv, Present
  <1>3. CASE UNCHANGED <<window, ticks, admitted>>
    BY <1>3 DEF WindowInv, Present
  <1> QED BY <1>1, <1>2, <1>3 DEF RateNext, rateVars, consume

\* RateTypeOK: a window's requests and what is left of it make up its limit,
\* and an answer never names a time that has passed.
THEOREM RateTypeCorrect == RateSpec => []RateTypeOK
  <1>1. RateInit => WindowInv
    BY DEF RateInit, WindowInv, Present
  <1>2. ASSUME BucketInv, WindowInv PROVE RateTypeOK
    <2>1. Present(bucket) => bucket[1].tokens \in Nat
      BY <1>2 DEF BucketInv, KeyInv, Present
    <2>2. getStatus.resetAt > ticks
      BY <1>2, LimitsAre DEF getStatus, WindowInv, Present
    <2>3. retryAfterSeconds >= 0
      <3>1. Tokens \in 0 .. CAPACITY /\ REFILL_RATE \in Nat \ {0}
        BY <1>2, TokensAre, Rates DEF BucketInv
      <3>2. CASE Tokens >= 1
        BY <3>2 DEF retryAfterSeconds
      <3>3. CASE ~(Tokens >= 1)
        <4>1. Tokens = 0
          BY <3>1, <3>3, Rates
        <4>2. retryAfterSeconds = (1 - 0 + REFILL_RATE - 1) \div REFILL_RATE
          BY <3>3, <4>1 DEF retryAfterSeconds
        <4>3. 1 - 0 + REFILL_RATE - 1 = REFILL_RATE /\ REFILL_RATE \div REFILL_RATE >= 0
          BY <3>1
        <4> QED BY <4>2, <4>3
      <3> QED BY <3>2, <3>3
    <2> QED BY <1>2, <2>1, <2>2, <2>3 DEF RateTypeOK, WindowInv
  <1> QED BY <1>1, <1>2, BucketInit, BucketStep, WindowStep, PTL DEF RateSpec

-----------------------------------------------------------------------------
(* The edge: lag, rate and a merchant's share *)

Entry == [tick : Nat, before : Nat, after : Nat]
ShareTypes ==
    /\ tick \in Nat /\ entered \in Seq(Entry)
    /\ merchantBucket # <<>> =>
          /\ merchantBucket[1].tokens \in 0 .. defaultBurst
          /\ merchantBucket[1].lastRefill \in Nat /\ merchantBucket[1].lastRefill <= tick
    /\ \A i \in DOMAIN entered : entered[i].tick <= tick

\* What was charged since a request of the merchant and what its bucket holds
\* now is no more than its burst and its rate since.
Allowed(i) == (tick - entered[i].tick) * defaultRate
ShareInv ==
    /\ ShareTypes /\ ChargedShareIsBounded
    /\ \A i \in DOMAIN entered : Total - entered[i].before + Bucket.tokens <= defaultBurst + Allowed(i)

LEMMA Shares ==
  /\ defaultBurst \in Nat /\ defaultRate \in Nat /\ staleBucketTicks \in Nat
  /\ defaultBurst <= staleBucketTicks * defaultRate
  BY FairnessAssumption

LEMMA BucketIs ==
  ASSUME ShareTypes
  PROVE  /\ merchantBucket = <<>> => Bucket.tokens = defaultBurst
         /\ merchantBucket # <<>> =>
               /\ (tick - merchantBucket[1].lastRefill) * defaultRate \in Nat
               /\ Bucket.tokens = Fewest(defaultBurst,
                      merchantBucket[1].tokens + (tick - merchantBucket[1].lastRefill) * defaultRate)
         /\ Bucket.tokens \in 0 .. defaultBurst
         /\ Bucket.lastRefill = tick /\ DOMAIN Bucket = {"tokens", "lastRefill"}
  <1>1. merchantBucket = <<>> => Bucket = [tokens |-> defaultBurst, lastRefill |-> tick]
    BY DEF Bucket, FreshBucket
  <1>2. ASSUME merchantBucket # <<>>
        PROVE  /\ (tick - merchantBucket[1].lastRefill) * defaultRate \in Nat
               /\ merchantBucket[1].tokens \in Nat
               /\ Bucket = [tokens |-> Fewest(defaultBurst,
                                merchantBucket[1].tokens + (tick - merchantBucket[1].lastRefill) * defaultRate),
                            lastRefill |-> tick]
    <2>1. tick - merchantBucket[1].lastRefill \in Nat
      BY <1>2 DEF ShareTypes
    <2>2. (tick - merchantBucket[1].lastRefill) * defaultRate \in Nat
      BY <2>1, Shares
    <2>3. merchantBucket[1].tokens \in Nat
      BY <1>2, Shares DEF ShareTypes
    <2> QED BY <1>2, <2>2, <2>3 DEF Bucket, refill
  <1>3. Bucket.tokens \in 0 .. defaultBurst
    BY <1>1, <1>2, Shares DEF Fewest
  <1> QED BY <1>1, <1>2, <1>3

LEMMA TotalIs ==
  ASSUME ShareTypes
  PROVE  Total \in Nat
  <1>1. CASE entered = <<>>
    BY <1>1 DEF Total
  <1>2. CASE entered # <<>>
    <2>1. Len(entered) \in DOMAIN entered /\ entered[Len(entered)] \in Entry
      BY <1>2 DEF ShareTypes
    <2> QED BY <1>2, <2>1 DEF Total, Entry
  <1> QED BY <1>1, <1>2

\* The cleanup forgets a bucket only when it is full again.
LEMMA StaleIsFull ==
  ASSUME ShareTypes, merchantBucket # <<>>, IsStale(merchantBucket[1])
  PROVE  Bucket.tokens = defaultBurst
  <1> DEFINE b == merchantBucket[1]
             gain == (tick - b.lastRefill) * defaultRate
  <1>1. /\ b.tokens \in Nat /\ b.lastRefill \in Nat /\ tick \in Nat
        /\ staleBucketTicks <= tick - b.lastRefill
    BY Shares DEF ShareTypes, IsStale
  <1>2. staleBucketTicks * defaultRate <= gain
    <2>1. tick - b.lastRefill \in Int /\ staleBucketTicks \in Int /\ defaultRate \in Nat
      BY <1>1, Shares
    <2>2. staleBucketTicks <= tick - b.lastRefill
      BY <1>1
    <2> QED BY <2>1, <2>2, TimesMonotone
  <1>3. gain \in Nat /\ Bucket.tokens = Fewest(defaultBurst, b.tokens + gain) /\ staleBucketTicks * defaultRate \in Int
    BY Shares, BucketIs
  <1> HIDE DEF gain
  <1> QED BY <1>1, <1>2, <1>3, Shares DEF Fewest

LEMMA AllowedGrows ==
  ASSUME ShareTypes, NEW i \in DOMAIN entered
  PROVE  /\ Allowed(i) \in Nat /\ entered[i].before \in Nat /\ entered[i].after \in Nat /\ entered[i].tick \in Nat
         /\ (tick + 1 - entered[i].tick) * defaultRate = Allowed(i) + defaultRate
  <1>1. entered[i] \in Entry /\ tick \in Nat /\ entered[i].tick <= tick
    BY DEF ShareTypes
  <1>2. entered[i].tick \in Nat /\ entered[i].before \in Nat /\ entered[i].after \in Nat
    BY <1>1 DEF Entry
  <1>3. tick - entered[i].tick \in Nat /\ tick + 1 - entered[i].tick = (tick - entered[i].tick) + 1
    BY <1>1, <1>2
  <1>4. (tick - entered[i].tick) * defaultRate \in Nat
    BY <1>3, Shares
  <1>5. ((tick - entered[i].tick) + 1) * defaultRate = (tick - entered[i].tick) * defaultRate + defaultRate
    <2>1. tick - entered[i].tick \in Int /\ defaultRate \in Int
      BY <1>3, Shares
    <2> QED BY <2>1, TimesNext
  <1> QED BY <1>2, <1>3, <1>4, <1>5 DEF Allowed

\* A step with no new entry in which the bucket gains no more than its rate.
LEMMA NoEntry ==
  ASSUME ShareInv, ShareTypes', entered' = entered, Bucket.tokens' \in Int,
         \/ tick' = tick /\ Bucket.tokens' <= Bucket.tokens
         \/ tick' = tick + 1 /\ Bucket.tokens' <= Bucket.tokens + defaultRate
  PROVE  ShareInv'
  <1>1. ShareTypes /\ Total' = Total /\ Total \in Nat /\ Bucket.tokens \in Nat
    BY TotalIs, BucketIs, Shares DEF ShareInv, Total
  <1>2. ChargedShareIsBounded'
    BY DEF ShareInv, ChargedShareIsBounded
  <1>3. ASSUME NEW i \in DOMAIN entered
        PROVE  Total - entered[i].before + Bucket.tokens' <= defaultBurst + Allowed(i)'
    <2>1. /\ Total - entered[i].before + Bucket.tokens <= defaultBurst + Allowed(i)
          /\ Allowed(i) \in Nat /\ entered[i].before \in Nat
      BY <1>1, AllowedGrows DEF ShareInv
    <2>2. CASE tick' = tick /\ Bucket.tokens' <= Bucket.tokens
      <3>1. Allowed(i)' = Allowed(i)
        BY <2>2 DEF Allowed
      <3> QED BY <1>1, <2>1, <2>2, <3>1, Shares
    <2>3. CASE tick' = tick + 1 /\ Bucket.tokens' <= Bucket.tokens + defaultRate
      <3>1. Allowed(i)' = Allowed(i) + defaultRate
        <4>1. tick' - entered'[i].tick = tick + 1 - entered[i].tick
          <5>1. tick \in Nat /\ entered[i].tick \in Nat
            BY <1>1, AllowedGrows DEF ShareTypes
          <5> QED BY <2>3, <5>1
        <4> QED BY <1>1, <4>1, AllowedGrows DEF Allowed
      <3> QED BY <1>1, <2>1, <2>3, <3>1, Shares
    <2> QED BY <2>2, <2>3
  <1> QED BY <1>1, <1>2, <1>3 DEF ShareInv

LEMMA EnterStep ==
  ASSUME ShareInv, NEW events \in Nat, NEW leads \in BOOLEAN, Enter(events, leads)
  PROVE  ShareInv'
  <1>1. /\ ShareTypes /\ Total \in Nat /\ Bucket.tokens \in 0 .. defaultBurst /\ Bucket.lastRefill = tick
        /\ tick' = tick /\ tick \in Nat /\ entered \in Seq(Entry) /\ Len(entered) \in Nat
        /\ DOMAIN Bucket = {"tokens", "lastRefill"} /\ DOMAIN entered = 1 .. Len(entered)
    BY TotalIs, BucketIs DEF ShareInv, ShareTypes, Enter
  <1>2. CASE UNCHANGED <<merchantBucket, entered>>
    <2>1. ShareTypes' /\ Bucket' = Bucket /\ Bucket.tokens \in Int
      BY <1>1, <1>2, Shares DEF ShareTypes, Bucket, FreshBucket, refill
    <2> QED BY <1>1, <1>2, <2>1, NoEntry, Shares
  <1>3. ASSUME NEW b, merchantBucket' = <<b>>, b.lastRefill = tick, b.tokens \in 0 .. defaultBurst
        PROVE  Bucket.tokens' = b.tokens
    <2>1. merchantBucket' # <<>> /\ merchantBucket'[1] = b
      BY <1>3
    <2>2. Bucket.tokens' = Fewest(defaultBurst, b.tokens + (tick - b.lastRefill) * defaultRate)
      BY <1>1, <2>1 DEF Bucket, refill
    <2>3. (tick - b.lastRefill) * defaultRate = 0
      BY <1>1, <1>3, Shares
    <2> QED BY <1>3, <2>2, <2>3, Shares DEF Fewest
  <1>4. CASE merchantBucket' = <<Bucket>> /\ UNCHANGED entered
    <2>1. Bucket.tokens' = Bucket.tokens
      BY <1>1, <1>3, <1>4
    <2>2. merchantBucket'[1] = Bucket /\ ShareTypes'
      BY <1>1, <1>4 DEF ShareTypes
    <2> QED BY <1>1, <1>4, <2>1, <2>2, NoEntry, Shares
  <1>5. CASE /\ Bucket.tokens >= events /\ merchantBucket' = <<[Bucket EXCEPT !.tokens = @ - events]>>
             /\ entered' = Append(entered, [tick |-> tick, before |-> Total, after |-> Total + events])
    <2> DEFINE e == [tick |-> tick, before |-> Total, after |-> Total + events]
    <2>1. PICK b : b = [Bucket EXCEPT !.tokens = @ - events]
      OBVIOUS
    <2>2. b.tokens = Bucket.tokens - events /\ b.lastRefill = tick
      BY <1>1, <2>1
    <2>3. b.tokens \in 0 .. defaultBurst
      BY <1>1, <1>5, <2>2, Shares
    <2>4. Bucket.tokens' = Bucket.tokens - events
      BY <1>3, <1>5, <2>1, <2>2, <2>3
    <2>5. e \in Entry /\ e.tick = tick /\ e.before = Total /\ e.after = Total + events
      BY <1>1 DEF Entry
    <2>6. entered' = Append(entered, e)
      BY <1>5
    <2> HIDE DEF e
    <2>7. /\ entered' \in Seq(Entry) /\ Len(entered') = Len(entered) + 1 /\ DOMAIN entered' = 1 .. Len(entered) + 1
          /\ entered'[Len(entered) + 1] = e /\ \A i \in 1 .. Len(entered) : entered'[i] = entered[i]
      BY <1>1, <2>5, <2>6
    <2>8. \A i \in DOMAIN entered' : i \in DOMAIN entered \/ i = Len(entered) + 1
      BY <1>1, <2>7
    <2>9. Total' = Total + events
      <3>1. entered' # <<>>
        BY <1>1, <2>7
      <3> QED BY <2>5, <2>7, <3>1 DEF Total
    <2>10. ShareTypes'
      <3>1. \A i \in DOMAIN entered' : entered'[i].tick <= tick'
        BY <1>1, <2>5, <2>7, <2>8 DEF ShareTypes
      <3>2. merchantBucket'[1] = b
        BY <1>5, <2>1
      <3> QED BY <1>1, <2>2, <2>3, <2>7, <3>1, <3>2 DEF ShareTypes
    <2>11. ASSUME NEW i \in DOMAIN entered'
           PROVE  /\ Total' - entered'[i].before + Bucket.tokens' <= defaultBurst + Allowed(i)'
                  /\ Allowed(i)' \in Int /\ entered'[i].before \in Nat
      <3>1. CASE i \in DOMAIN entered
        <4>1. entered'[i] = entered[i] /\ Allowed(i)' = Allowed(i)
          BY <1>1, <2>7, <3>1 DEF Allowed
        <4>2. /\ Total - entered[i].before + Bucket.tokens <= defaultBurst + Allowed(i)
              /\ Allowed(i) \in Nat /\ entered[i].before \in Nat
          BY <1>1, <3>1, AllowedGrows DEF ShareInv
        <4> QED BY <1>1, <2>4, <2>9, <4>1, <4>2, Shares
      <3>2. CASE i = Len(entered) + 1
        <4>1. entered'[i] = e /\ tick' - e.tick = 0
          BY <1>1, <2>5, <2>7, <3>2
        <4>2. Allowed(i)' = 0
          BY <4>1, Shares DEF Allowed
        <4> QED BY <1>1, <2>4, <2>5, <2>9, <4>1, <4>2, Shares
      <3> QED BY <2>8, <3>1, <3>2
    <2>12. ChargedShareIsBounded'
      <3> SUFFICES ASSUME NEW i \in DOMAIN entered', NEW j \in DOMAIN entered', i <= j
                   PROVE  entered'[j].after - entered'[i].before
                              <= defaultBurst + (entered'[j].tick - entered'[i].tick) * defaultRate
        BY DEF ChargedShareIsBounded
      <3>1. CASE j \in DOMAIN entered
        <4>1. i \in DOMAIN entered
          BY <1>1, <2>7, <3>1
        <4>2. entered'[i] = entered[i] /\ entered'[j] = entered[j]
          BY <1>1, <2>7, <3>1, <4>1
        <4> QED BY <3>1, <4>1, <4>2 DEF ShareInv, ChargedShareIsBounded
      <3>2. CASE j = Len(entered) + 1
        <4>1. entered'[j].after = Total' /\ entered'[j].tick = tick'
          BY <1>1, <2>5, <2>7, <2>9, <3>2
        <4>2. Allowed(i)' = (entered'[j].tick - entered'[i].tick) * defaultRate
          BY <4>1 DEF Allowed
        <4>3. Bucket.tokens' \in Nat /\ Total' \in Nat
          BY <1>1, <1>5, <2>4, <2>9, Shares
        <4> QED BY <2>11, <4>1, <4>2, <4>3, Shares
      <3> QED BY <2>8, <3>1, <3>2
    <2> QED BY <2>10, <2>11, <2>12 DEF ShareInv
  <1> QED BY <1>2, <1>4, <1>5 DEF Enter, tryConsume

LEMMA ShareStep ==
  ASSUME ShareInv, [BpNext]_pressureVars, MaxBatch \in Nat
  PROVE  ShareInv'
  <1>1. ShareTypes /\ Bucket.tokens \in Nat
    BY BucketIs, Shares DEF ShareInv
  <1>2. ASSUME NEW events \in 1 .. MaxBatch, NEW leads \in BOOLEAN, Enter(events, leads)
        PROVE  ShareInv'
    BY <1>2, EnterStep
  <1>3. CASE CleanupStaleBuckets
    <2>1. /\ merchantBucket # <<>> /\ IsStale(merchantBucket[1]) /\ merchantBucket' = <<>>
          /\ tick' = tick /\ entered' = entered
      BY <1>3 DEF CleanupStaleBuckets
    <2>2. Bucket.tokens = defaultBurst /\ Bucket.tokens' = defaultBurst
      BY <1>1, <2>1, StaleIsFull DEF Bucket, FreshBucket
    <2>3. ShareTypes'
      BY <1>1, <2>1 DEF ShareTypes
    <2> QED BY <2>1, <2>2, <2>3, NoEntry, Shares
  <1>4. CASE PassTick
    <2>1. tick' = tick + 1 /\ UNCHANGED <<merchantBucket, entered>> /\ tick \in Nat
      BY <1>1, <1>4 DEF PassTick, ShareTypes
    <2>2. ShareTypes'
      <3>1. \A i \in DOMAIN entered : entered[i].tick <= tick'
        BY <1>1, <2>1, AllowedGrows DEF ShareTypes
      <3> QED BY <1>1, <2>1, <3>1 DEF ShareTypes
    <2>3. Bucket.tokens' \in Int /\ Bucket.tokens' <= Bucket.tokens + defaultRate
      <3>1. CASE merchantBucket = <<>>
        BY <1>1, <2>1, <3>1, BucketIs, Shares DEF Bucket, FreshBucket
      <3>2. CASE merchantBucket # <<>>
        <4> DEFINE b == merchantBucket[1]
                   gain == (tick - b.lastRefill) * defaultRate
        <4>1. /\ gain \in Nat /\ Bucket.tokens = Fewest(defaultBurst, b.tokens + gain)
              /\ b.tokens \in Nat /\ b.lastRefill \in Nat
          BY <1>1, <3>2, BucketIs, Shares DEF ShareTypes
        <4>2. (tick' - b.lastRefill) * defaultRate = gain + defaultRate
          <5>1. tick' - b.lastRefill = (tick - b.lastRefill) + 1 /\ tick - b.lastRefill \in Int
            BY <2>1, <4>1
          <5> QED BY <5>1, Shares, TimesNext
        <4>3. Bucket.tokens' = Fewest(defaultBurst, b.tokens + (tick' - b.lastRefill) * defaultRate)
          BY <2>1, <3>2 DEF Bucket, refill
        <4>4. Bucket.tokens' = Fewest(defaultBurst, b.tokens + (gain + defaultRate))
          BY <4>2, <4>3
        <4> HIDE DEF gain, b
        <4> QED BY <4>1, <4>4, Shares DEF Fewest
      <3> QED BY <3>1, <3>2
    <2> QED BY <2>1, <2>2, <2>3, NoEntry
  <1>5. CASE UNCHANGED loadVars
    <2>1. ShareTypes' /\ Bucket.tokens' = Bucket.tokens /\ tick' = tick /\ entered' = entered
      BY <1>1, <1>5 DEF loadVars, ShareTypes, Bucket, FreshBucket, refill
    <2> QED BY <1>1, <2>1, NoEntry
  <1>6. ASSUME NEW answer, StoreLag(answer) \/ PollFails(answer) PROVE UNCHANGED loadVars
    BY <1>6 DEF StoreLag, PollFails
  <1>7. (LagMoves \/ PollLag \/ Evaluate) => UNCHANGED loadVars
    BY DEF LagMoves, PollLag, Evaluate
  <1> QED BY <1>2, <1>3, <1>4, <1>5, <1>6, <1>7 DEF BpNext, pressureVars

LEMMA ShareInit == BpInit => ShareInv
  <1> SUFFICES ASSUME BpInit PROVE ShareInv
    OBVIOUS
  <1>1. tick = 0 /\ merchantBucket = <<>> /\ entered = <<>> /\ <<>> \in Seq(Entry)
    BY DEF BpInit
  <1> QED BY <1>1 DEF ShareInv, ShareTypes, ChargedShareIsBounded

\* ChargedShareIsBounded: over every stretch of time, any cleanups and any
\* requests that leave the bucket alone, what fairness.service.ts charges to a
\* merchant is within its burst and its rate.  backpressure.guard.ts charges it
\* the batches whose first event is its own; nothing bounds its other events.
THEOREM ChargedIsBounded == BpSpec => []ChargedShareIsBounded
  <1>1. ShareInv => ChargedShareIsBounded
    BY DEF ShareInv
  <1>2. MaxBatch \in Nat
    BY FairnessAssumption
  <1> QED BY <1>1, <1>2, ShareInit, ShareStep, PTL DEF BpSpec

-----------------------------------------------------------------------------

\* The types, with what the adjuster needs of its rate.
LimitsInv ==
    /\ BpTypeOK /\ ShareTypes /\ timestamps \in Seq(Nat)

LEMMA RateKept ==
  ASSUME rate \in minRateMultiplier .. 1000
  PROVE  /\ \A percent \in {64, 80, 95} : Reduced(percent) \in minRateMultiplier .. 1000
         /\ Restored \in minRateMultiplier .. 1000
  BY LagAssumption DEF Reduced, Restored, Most, Fewest

LEMMA EvaluateTypes ==
  ASSUME BpTypeOK, Evaluate
  PROVE  BpTypeOK'
  <1>1. rate \in minRateMultiplier .. 1000 /\ pressure \in 0 .. SustainedTicks /\ SustainedTicks \in Nat
    BY LagAssumption DEF BpTypeOK
  <1>2. Fewest(SustainedTicks, pressure + 1) \in 0 .. SustainedTicks /\ 0 \in 0 .. SustainedTicks
    BY <1>1 DEF Fewest
  <1>3. /\ rate' \in minRateMultiplier .. 1000 /\ pressure' \in 0 .. SustainedTicks
        /\ reason' \in {"nominal", "recovery", "high_consumer_lag", "sustained_pressure"}
    <2>1. CASE applyPressure
      BY <1>1, <1>2, <2>1, RateKept DEF applyPressure
    <2>2. CASE Hold
      BY <1>1, <1>2, <2>2, RateKept DEF Hold
    <2>3. CASE applyRecovery
      BY <1>1, <1>2, <2>3, RateKept DEF applyRecovery
    <2> QED BY <2>1, <2>2, <2>3 DEF Evaluate, Adjust
  <1> QED BY <1>3 DEF BpTypeOK, Evaluate, loadVars

LEMMA LagTypes ==
  ASSUME BpTypeOK,
         \/ LagMoves
         \/ PollLag
         \/ \E answer \in polls : StoreLag(answer) \/ PollFails(answer)
  PROVE  BpTypeOK'
  <1>1. CASE LagMoves
    BY <1>1 DEF LagMoves, BpTypeOK, loadVars
  <1>2. CASE PollLag
    BY <1>2, LagAssumption DEF PollLag, BpTypeOK, loadVars
  <1>3. ASSUME NEW answer \in polls, StoreLag(answer) \/ PollFails(answer)
        PROVE  BpTypeOK'
    BY <1>3 DEF StoreLag, NewestLag, PollFails, BpTypeOK, loadVars
  <1> QED BY <1>1, <1>2, <1>3

\* A request is recorded only when there is room for it.
LEMMA QueueKept ==
  ASSUME LimitsInv, NEW events, NEW leads, Enter(events, leads)
  PROVE  timestamps' \in Seq(Nat) /\ Len(timestamps') <= maxQueueDepth
  <1>1. timestamps \in Seq(Nat) /\ Len(timestamps) <= maxQueueDepth /\ maxQueueDepth \in Nat /\ tick \in Nat
    BY FairnessAssumption DEF LimitsInv, BpTypeOK, ShareTypes
  <1>2. PICK n \in 0 .. Len(timestamps) :
           \/ isOverloaded(Pruned(n)) /\ timestamps' = Pruned(n)
           \/ ~isOverloaded(Pruned(n)) /\ timestamps' = Append(Pruned(n), tick)
    BY DEF Enter
  <1>3. Pruned(n) \in Seq(Nat) /\ Len(Pruned(n)) \in Nat /\ Len(Pruned(n)) <= Len(timestamps)
    <2>1. \A i \in n + 1 .. Len(timestamps) : timestamps[i] \in Nat
      BY <1>1, <1>2
    <2> QED BY <1>1, <1>2, <2>1 DEF Pruned
  <1>4. CASE isOverloaded(Pruned(n)) /\ timestamps' = Pruned(n)
    BY <1>1, <1>3, <1>4
  <1>5. CASE ~isOverloaded(Pruned(n)) /\ timestamps' = Append(Pruned(n), tick)
    <2>1. Len(Pruned(n)) < maxQueueDepth
      BY <1>1, <1>3, <1>5 DEF isOverloaded
    <2> QED BY <1>1, <1>3, <1>5, <2>1
  <1> QED BY <1>2, <1>4, <1>5

LEMMA LimitsStep ==
  ASSUME LimitsInv, ShareInv', [BpNext]_pressureVars
  PROVE  LimitsInv'
  <1>1. BpTypeOK /\ ShareTypes' /\ timestamps \in Seq(Nat)
    BY DEF LimitsInv, ShareInv
  <1>2. ASSUME NEW events, NEW leads, Enter(events, leads) PROVE LimitsInv'
    <2>1. timestamps' \in Seq(Nat) /\ Len(timestamps') <= maxQueueDepth
      BY <1>2, QueueKept
    <2>2. merchantBucket' # <<>> => merchantBucket'[1].tokens \in 0 .. defaultBurst
      BY <1>1 DEF ShareTypes
    <2>3. UNCHANGED <<concern, groupLag, polls, consumerLag, rate, pressure, reason>>
      BY <1>2 DEF Enter, lagVars
    <2> QED BY <1>1, <2>1, <2>2, <2>3 DEF LimitsInv, BpTypeOK
  <1>3. CASE CleanupStaleBuckets \/ PassTick
    <2>1. merchantBucket' # <<>> => merchantBucket'[1].tokens \in 0 .. defaultBurst
      BY <1>1 DEF ShareTypes
    <2>2. UNCHANGED <<concern, groupLag, polls, consumerLag, rate, pressure, reason, timestamps>>
      BY <1>3 DEF CleanupStaleBuckets, PassTick, lagVars
    <2> QED BY <1>1, <2>1, <2>2 DEF LimitsInv, BpTypeOK
  <1>4. CASE LagMoves \/ PollLag \/ Evaluate \/ \E answer \in polls : StoreLag(answer) \/ PollFails(answer)
    <2>1. BpTypeOK'
      BY <1>1, <1>4, EvaluateTypes, LagTypes
    <2>2. timestamps' = timestamps
      BY <1>4 DEF LagMoves, PollLag, Evaluate, StoreLag, PollFails, loadVars
    <2> QED BY <1>1, <2>1, <2>2 DEF LimitsInv
  <1>5. CASE UNCHANGED pressureVars
    BY <1>1, <1>5 DEF pressureVars, lagVars, loadVars, LimitsInv, BpTypeOK
  <1> QED BY <1>2, <1>3, <1>4, <1>5 DEF BpNext

LEMMA LimitsInit == BpInit => LimitsInv
  <1> SUFFICES ASSUME BpInit PROVE LimitsInv
    OBVIOUS
  <1>1. ShareTypes
    BY ShareInit DEF ShareInv
  <1>2. /\ concern \in {"lag", "load"} /\ groupLag = 0 /\ polls = {} /\ consumerLag = 0 /\ rate = 1000 /\ pressure = 0
        /\ reason = "nominal" /\ timestamps = <<>> /\ <<>> \in Seq(Nat) /\ Len(<<>>) = 0 /\ merchantBucket = <<>>
    BY DEF BpInit
  <1>3. 0 \in LagValues /\ 1000 \in minRateMultiplier .. 1000 /\ 0 \in 0 .. SustainedTicks /\ 0 <= maxQueueDepth
    BY LagAssumption, FairnessAssumption
  <1> QED BY <1>1, <1>2, <1>3 DEF LimitsInv, BpTypeOK

\* BpTypeOK: the multiplier stays between its minimum and 1, the window within
\* its depth and a bucket within its burst.
THEOREM EdgeTypeCorrect == BpSpec => []BpTypeOK
  <1>1. LimitsInv => BpTypeOK
    BY DEF LimitsInv
  <1>2. MaxBatch \in Nat
    BY FairnessAssumption
  <1> QED BY <1>1, <1>2, ShareInit, ShareStep, LimitsInit, LimitsStep, PTL DEF BpSpec

-----------------------------------------------------------------------------
(* The rule set and its flag *)

KnownVersions == Versions \union {NoVersion}

\* The version and the rules change together, and what a poll or a reload by
\* hand has on its way is a version that there is.
ReloadInv ==
    /\ activeRuleSet = currentVersion /\ currentVersion \in KnownVersions
    /\ loads = [s \in Slots |-> loads[s]]
    /\ \A s \in Slots :
          /\ loads[s] = [step |-> loads[s].step, version |-> loads[s].version]
          /\ loads[s].version \in KnownVersions
          /\ loads[s].step = "load" => loads[s].version \in Versions
    /\ manuals \in 0 .. MaxManual /\ reloadFaults \in 0 .. MaxReloadFaults
    /\ FlagsTypeOK

\* The rules are those the flag names, and no load of others is on its way.
Settled ==
    /\ currentVersion = FlagValue(VersionFlag)
    /\ \A s \in Slots : loads[s].step \notin {"free", "check"} => loads[s].version = currentVersion

\* What an operator stores, changes and deletes stays a flag.
LEMMA FlagsStep == FlagsTypeOK /\ FlagsNext => FlagsTypeOK'
  <1> SUFFICES ASSUME FlagsTypeOK, FlagsNext PROVE FlagsTypeOK'
    OBVIOUS
  <1>1. ASSUME FlagOp PROVE flagOps' \in 0 .. MaxFlagOps
    BY <1>1, FlagsAssumption DEF FlagOp, FlagsTypeOK
  <1>2. CASE RestartFlags
    BY <1>1, <1>2, FlagsAssumption DEF RestartFlags, FlagsTypeOK
  <1>3. ASSUME NEW name \in DOMAIN flags, deleteFlag(name) PROVE FlagsTypeOK'
    BY <1>1, <1>3 DEF deleteFlag, FlagsTypeOK
  <1>4. ASSUME NEW dto \in FlagDtos, createFlag(dto.name, dto.flag) \/ updateFlag(dto.name, dto.flag)
        PROVE  FlagsTypeOK'
    <2>1. flags' = Stored(dto.name, dto.flag) /\ FlagOp
      BY <1>4 DEF createFlag, updateFlag
    <2> QED BY <1>1, <2>1, FlagsAssumption DEF Stored, FlagsTypeOK
  <1> QED BY <1>2, <1>3, <1>4 DEF FlagsNext

\* A step puts a load of its own in one slot, or frees them all.
LEMMA SlotMoves ==
  ASSUME ReloadInv, NEW s \in Slots, NEW load, loads' = [loads EXCEPT ![s] = load],
         load = [step |-> load.step, version |-> load.version],
         load.version \in KnownVersions, load.step = "load" => load.version \in Versions
  PROVE  /\ loads' = [q \in Slots |-> loads'[q]]
         /\ \A q \in Slots :
               /\ loads'[q] = [step |-> loads'[q].step, version |-> loads'[q].version]
               /\ loads'[q].version \in KnownVersions
               /\ loads'[q].step = "load" => loads'[q].version \in Versions
  BY DEF ReloadInv

LEMMA ReloadStepInv == ReloadInv /\ [ReloadNext]_reloadVars => ReloadInv'
  <1> SUFFICES ASSUME ReloadInv, [ReloadNext]_reloadVars PROVE ReloadInv'
    OBVIOUS
  <1>0. /\ Free = [step |-> Free.step, version |-> Free.version] /\ Free.step = "free"
        /\ Free.version \in KnownVersions
    BY DEF Free, KnownVersions
  <1>1. ASSUME UNCHANGED flagVars PROVE FlagsTypeOK'
    BY <1>1 DEF ReloadInv, FlagsTypeOK, flagVars
  <1>2. ASSUME NEW s \in Slots, checkAndReload(s) PROVE ReloadInv'
    <2> DEFINE load == [loads[s] EXCEPT !.step = "check"]
    <2>1. loads' = [loads EXCEPT ![s] = load] /\ loads[s] = Free
      BY <1>2 DEF checkAndReload
    <2>2. load = [step |-> "check", version |-> NoVersion]
      BY <2>1 DEF Free
    <2>3. load = [step |-> load.step, version |-> load.version] /\ load.step = "check" /\ load.version \in KnownVersions
      BY <2>2 DEF KnownVersions
    <2> HIDE DEF load
    <2>4. /\ loads' = [q \in Slots |-> loads'[q]]
          /\ \A q \in Slots :
                /\ loads'[q] = [step |-> loads'[q].step, version |-> loads'[q].version]
                /\ loads'[q].version \in KnownVersions
                /\ loads'[q].step = "load" => loads'[q].version \in Versions
      BY <2>1, <2>3, SlotMoves
    <2> QED BY <1>1, <1>2, <2>4 DEF checkAndReload, ReloadInv, flagVars
  <1>3. ASSUME NEW s \in Slots, NEW v \in Versions, manualReload(s, v) PROVE ReloadInv'
    <2> DEFINE load == [step |-> "load", version |-> v]
    <2>1. loads' = [loads EXCEPT ![s] = load]
      BY <1>3 DEF manualReload
    <2>2. load = [step |-> load.step, version |-> load.version] /\ load.version \in Versions
      OBVIOUS
    <2>3. manuals' \in 0 .. MaxManual
      BY <1>3, ReloadBoundsAssumption DEF manualReload, ReloadInv
    <2> HIDE DEF load
    <2>4. /\ loads' = [q \in Slots |-> loads'[q]]
          /\ \A q \in Slots :
                /\ loads'[q] = [step |-> loads'[q].step, version |-> loads'[q].version]
                /\ loads'[q].version \in KnownVersions
                /\ loads'[q].step = "load" => loads'[q].version \in Versions
      BY <2>1, <2>2, SlotMoves DEF KnownVersions
    <2> QED BY <1>1, <1>3, <2>3, <2>4 DEF manualReload, ReloadInv, flagVars
  <1>4. ASSUME NEW s \in Slots, CheckAnswered(s) PROVE ReloadInv'
    <2>1. PICK load : /\ loads' = [loads EXCEPT ![s] = load]
                      /\ \/ load = Free
                         \/ \E v \in Versions : load = [step |-> "load", version |-> v]
      BY <1>4 DEF CheckAnswered
    <2>2. /\ load = [step |-> load.step, version |-> load.version] /\ load.version \in KnownVersions
          /\ load.step = "load" => load.version \in Versions
      BY <1>0, <2>1 DEF KnownVersions
    <2>3. /\ loads' = [q \in Slots |-> loads'[q]]
          /\ \A q \in Slots :
                /\ loads'[q] = [step |-> loads'[q].step, version |-> loads'[q].version]
                /\ loads'[q].version \in KnownVersions
                /\ loads'[q].step = "load" => loads'[q].version \in Versions
      BY <2>1, <2>2, SlotMoves
    <2> QED BY <1>1, <1>4, <2>3 DEF CheckAnswered, ReloadInv, flagVars
  <1>5. ASSUME NEW s \in Slots, FetchDsl(s) PROVE ReloadInv'
    <2>1. PICK text : loads' = [loads EXCEPT ![s] = [step |-> text, version |-> loads[s].version]]
      BY <1>5 DEF FetchDsl
    <2> DEFINE load == [step |-> text, version |-> loads[s].version]
    <2>2. /\ load = [step |-> load.step, version |-> load.version]
          /\ load.version \in Versions /\ load.version \in KnownVersions
      BY <1>5 DEF FetchDsl, ReloadInv
    <2>3. loads' = [loads EXCEPT ![s] = load]
      BY <2>1
    <2> HIDE DEF load
    <2>4. /\ loads' = [q \in Slots |-> loads'[q]]
          /\ \A q \in Slots :
                /\ loads'[q] = [step |-> loads'[q].step, version |-> loads'[q].version]
                /\ loads'[q].version \in KnownVersions
                /\ loads'[q].step = "load" => loads'[q].version \in Versions
      BY <2>2, <2>3, SlotMoves
    <2> QED BY <1>1, <1>5, <2>4 DEF FetchDsl, ReloadInv, flagVars
  <1>6. ASSUME NEW s \in Slots, loadVersion(s) PROVE ReloadInv'
    <2>1. activeRuleSet' = currentVersion' /\ currentVersion' \in KnownVersions
      BY <1>6 DEF loadVersion, Swap, ReloadInv
    <2>2. /\ loads' = [q \in Slots |-> loads'[q]]
          /\ \A q \in Slots :
                /\ loads'[q] = [step |-> loads'[q].step, version |-> loads'[q].version]
                /\ loads'[q].version \in KnownVersions
                /\ loads'[q].step = "load" => loads'[q].version \in Versions
      BY <1>0, <1>6, SlotMoves DEF loadVersion
    <2> QED BY <1>1, <1>6, <2>1, <2>2 DEF loadVersion, ReloadInv, flagVars
  <1>7. ASSUME NEW s \in Slots, RequestFails(s) PROVE ReloadInv'
    <2>1. reloadFaults' \in 0 .. MaxReloadFaults
      BY <1>7, ReloadBoundsAssumption DEF RequestFails, ReloadFault, ReloadInv
    <2>2. /\ loads' = [q \in Slots |-> loads'[q]]
          /\ \A q \in Slots :
                /\ loads'[q] = [step |-> loads'[q].step, version |-> loads'[q].version]
                /\ loads'[q].version \in KnownVersions
                /\ loads'[q].step = "load" => loads'[q].version \in Versions
      BY <1>0, <1>7, SlotMoves DEF RequestFails
    <2> QED BY <1>1, <1>7, <2>1, <2>2 DEF RequestFails, ReloadInv, flagVars
  <1>8. CASE RestartReload
    <2>1. reloadFaults' \in 0 .. MaxReloadFaults
      BY <1>8, ReloadBoundsAssumption DEF RestartReload, ReloadFault, ReloadInv
    <2> QED BY <1>0, <1>1, <1>8, <2>1 DEF RestartReload, ReloadInv, KnownVersions, flagVars
  <1>9. CASE Operator
    BY <1>9, FlagsStep DEF Operator, ReloadInv
  <1>10. CASE UNCHANGED reloadVars
    BY <1>1, <1>10 DEF reloadVars, flagVars, ReloadInv
  <1> QED BY <1>2, <1>3, <1>4, <1>5, <1>6, <1>7, <1>8, <1>9, <1>10 DEF ReloadNext, ReloadStep

LEMMA ReloadInvariance == ReloadSpec => []ReloadInv
  <1>1. ReloadInit => ReloadInv
    BY ReloadBoundsAssumption, FlagsAssumption
       DEF ReloadInit, FlagsInit, FlagsTypeOK, ReloadInv, Free, KnownVersions
  <1> QED BY <1>1, ReloadStepInv, PTL DEF ReloadSpec

\* Versions, slots, counters and flags keep their types, for any operator.
THEOREM ReloadTypeCorrect == ReloadSpec => []ReloadTypeOK
  <1>1. ReloadInv => ReloadTypeOK
    BY DEF ReloadInv, ReloadTypeOK, KnownVersions
  <1> QED BY <1>1, ReloadInvariance, PTL

LEMMA SettledStep ==
  ASSUME ReloadInv, Settled, ReloadNext, ~RestartReload, UNCHANGED FlagValue(VersionFlag),
         \A s \in Slots, v \in Versions \ {currentVersion} : ~manualReload(s, v)
  PROVE  Settled'
  <1>1. ASSUME UNCHANGED <<currentVersion, loads>> PROVE Settled'
    BY <1>1 DEF Settled
  <1>2. ASSUME NEW s \in Slots, UNCHANGED currentVersion, NEW load, loads' = [loads EXCEPT ![s] = load],
               load.step \notin {"free", "check"} => load.version = currentVersion
        PROVE  Settled'
    <2>1. \A q \in Slots : loads'[q] = IF q = s THEN load ELSE loads[q]
      BY <1>2 DEF ReloadInv
    <2> QED BY <1>2, <2>1 DEF Settled
  <1>3. Free.step = "free"
    BY DEF Free
  <1>4. ASSUME NEW s \in Slots, checkAndReload(s) PROVE Settled'
    <2>1. loads' = [loads EXCEPT ![s] = [loads[s] EXCEPT !.step = "check"]] /\ loads[s] = Free /\ UNCHANGED currentVersion
      BY <1>4 DEF checkAndReload
    <2>2. [loads[s] EXCEPT !.step = "check"].step = "check"
      BY <2>1 DEF Free
    <2> QED BY <1>2, <2>1, <2>2
  <1>5. ASSUME NEW s \in Slots, NEW v \in Versions, manualReload(s, v) PROVE Settled'
    <2>1. v = currentVersion /\ loads' = [loads EXCEPT ![s] = [step |-> "load", version |-> v]] /\ UNCHANGED currentVersion
      BY <1>5 DEF manualReload
    <2> QED BY <1>2, <2>1
  <1>6. ASSUME NEW s \in Slots, CheckAnswered(s) PROVE Settled'
    <2>1. loads' = [loads EXCEPT ![s] = Free] /\ UNCHANGED currentVersion
      BY <1>6 DEF CheckAnswered, Settled
    <2> QED BY <1>2, <1>3, <2>1
  <1>7. ASSUME NEW s \in Slots, FetchDsl(s) PROVE Settled'
    <2>1. PICK text : loads' = [loads EXCEPT ![s] = [step |-> text, version |-> loads[s].version]]
      BY <1>7 DEF FetchDsl
    <2>2. loads[s].version = currentVersion /\ UNCHANGED currentVersion
      BY <1>7 DEF FetchDsl, Settled
    <2> QED BY <1>2, <2>1, <2>2
  <1>8. ASSUME NEW s \in Slots, loadVersion(s) PROVE Settled'
    <2>1. currentVersion' = currentVersion /\ loads' = [loads EXCEPT ![s] = Free]
      BY <1>8 DEF loadVersion, Swap, Settled
    <2> QED BY <1>2, <1>3, <2>1
  <1>9. ASSUME NEW s \in Slots, RequestFails(s) PROVE Settled'
    BY <1>2, <1>3, <1>9 DEF RequestFails
  <1>10. CASE Operator
    BY <1>1, <1>10 DEF Operator
  <1> QED BY <1>4, <1>5, <1>6, <1>7, <1>8, <1>9, <1>10 DEF ReloadNext, ReloadStep

\* The safety half of RuleSetFollowsTheFlag (rule-hot-reload.service.ts): the
\* rules are always those of the version that is reported; and once they are
\* the flag's and no load of others is on its way, only another version in the
\* flag, a reload of another version by hand or a restart ends that, however
\* polls, loads, failed requests and changes of other flags interleave.
THEOREM SettledRulesStay ==
  ReloadSpec =>
      /\ [](activeRuleSet = currentVersion)
      /\ [][Settled /\ ~Settled' =>
               \/ FlagValue(VersionFlag)' # FlagValue(VersionFlag) \/ RestartReload
               \/ \E s \in Slots, v \in Versions \ {currentVersion} : manualReload(s, v)]_reloadVars
  <1>1. ReloadInv => activeRuleSet = currentVersion
    BY DEF ReloadInv
  <1>2. ReloadInv /\ [ReloadNext]_reloadVars =>
           [Settled /\ ~Settled' =>
               \/ FlagValue(VersionFlag)' # FlagValue(VersionFlag) \/ RestartReload
               \/ \E s \in Slots, v \in Versions \ {currentVersion} : manualReload(s, v)]_reloadVars
    BY SettledStep
  <1> QED BY <1>1, <1>2, ReloadInvariance, PTL DEF ReloadSpec

\* The percentage of a flag (flags.service.ts, isEnabled): raising it turns the
\* flag off for no merchant it was on for, since a merchant keeps its bucket;
\* at 100 it is on for every merchant, unless it is disabled.
THEOREM RolloutOnlyGrows ==
  ASSUME NEW Names, NEW Merchants, NEW Values,
         NEW table \in [Names -> [enabled : BOOLEAN, rolloutPercentage : Int,
                                  merchantIds : SUBSET Merchants, value : Values]],
         NEW name \in Names, NEW merchant \in Merchants, HashOf(merchant, name) \in Int,
         NEW percentage \in Int, percentage >= table[name].rolloutPercentage
  PROVE  LET raised == [table EXCEPT ![name].rolloutPercentage = percentage]
         IN  /\ isEnabled(table, name, merchant).enabled => isEnabled(raised, name, merchant).enabled
             /\ percentage >= 100 => isEnabled(raised, name, merchant).enabled = table[name].enabled
  <1> DEFINE raised == [table EXCEPT ![name].rolloutPercentage = percentage]
             place == deterministicHash(merchant, name) % 100
  <1>1. /\ name \in DOMAIN raised /\ raised[name].enabled = table[name].enabled
        /\ raised[name].merchantIds = table[name].merchantIds
        /\ raised[name].rolloutPercentage = percentage
    OBVIOUS
  <1>2. deterministicHash(merchant, name) \in Nat
    BY DEF deterministicHash
  <1>3. place \in Int
    BY <1>2
  <1> HIDE DEF place, raised
  <1> DEFINE Bucketed(p) == p >= 100 \/ (p > 0 /\ place < p)
             On(flag) == flag.enabled /\ (merchant \in flag.merchantIds \/ Bucketed(flag.rolloutPercentage))
  <1>4. ASSUME NEW t, name \in DOMAIN t, t[name].enabled \in BOOLEAN, t[name].rolloutPercentage \in Int
        PROVE  isEnabled(t, name, merchant).enabled = On(t[name])
    <2>1. \A e, r : Verdict(e, r).enabled = e
      BY DEF Verdict
    <2> DEFINE flag == t[name]
    <2>2. CASE ~flag.enabled
      BY <1>4, <2>1, <2>2 DEF isEnabled
    <2>3. CASE flag.enabled /\ merchant \in flag.merchantIds
      BY <1>4, <2>1, <2>3 DEF isEnabled
    <2>4. CASE flag.enabled /\ merchant \notin flag.merchantIds /\ flag.rolloutPercentage >= 100
      BY <1>4, <2>1, <2>4 DEF isEnabled
    <2>5. CASE flag.enabled /\ merchant \notin flag.merchantIds /\ flag.rolloutPercentage <= 0
      <3>1. ~(flag.rolloutPercentage >= 100) /\ ~(flag.rolloutPercentage > 0)
        BY <1>4, <2>5
      <3>2. isEnabled(t, name, merchant) = Verdict(FALSE, "rollout")
        BY <1>4, <2>5, <3>1 DEF isEnabled
      <3> QED BY <2>1, <2>5, <3>1, <3>2
    <2>6. CASE flag.enabled /\ merchant \notin flag.merchantIds /\ flag.rolloutPercentage \in 1 .. 99
      <3>1. ~(flag.rolloutPercentage >= 100) /\ ~(flag.rolloutPercentage <= 0) /\ flag.rolloutPercentage > 0
        BY <2>6
      <3>2. isEnabled(t, name, merchant) = Verdict(InRollout(flag, merchant, name), "rollout")
        BY <1>4, <2>6, <3>1 DEF isEnabled
      <3>3. isEnabled(t, name, merchant).enabled = InRollout(flag, merchant, name)
        BY <2>1, <3>2
      <3>4. isEnabled(t, name, merchant).enabled = (place < flag.rolloutPercentage)
        BY <3>3 DEF InRollout, place
      <3> QED BY <2>6, <3>1, <3>4
    <2> QED BY <1>4, <2>2, <2>3, <2>4, <2>5, <2>6
  <1>5. table[name].rolloutPercentage \in Int /\ table[name].enabled \in BOOLEAN
    OBVIOUS
  <1>6. /\ isEnabled(table, name, merchant).enabled = On(table[name])
        /\ isEnabled(raised, name, merchant).enabled = On(raised[name])
    BY <1>1, <1>4, <1>5
  <1>7. Bucketed(table[name].rolloutPercentage) => Bucketed(percentage)
    BY <1>3, <1>5
  <1> QED BY <1>1, <1>5, <1>6, <1>7 DEF raised
=============================================================================
