------------------------------ MODULE Sessions ------------------------------
(***************************************************************************)
(* A login gives its client a pair of JSON Web Tokens and stores the       *)
(* refresh token; a refresh exchanges a refresh token for a new pair       *)
(* (rotation); a logout revokes what the user has.  A session is the chain *)
(* of tokens that one login starts.                                        *)
(*                                                                         *)
(* As in the rest of the service a request is a goroutine and each         *)
(* statement is atomic by itself, so refreshes and logouts interleave      *)
(* between statements.  A request that is refused changes nothing and is   *)
(* not an action.                                                          *)
(*                                                                         *)
(* A token is a function of its user, of the claims (role and approval)    *)
(* and of the SECOND it is issued in (NumericDate; there is no random      *)
(* part), and token_hash is UNIQUE.  A login takes the claims from the     *)
(* users table, where staff change them by hand; a refresh takes them from *)
(* the old token.  The middleware looks at the token alone: it asks neither *)
(* what kind of token it is nor whether it was revoked.                    *)
(***************************************************************************)
EXTENDS Integers, FiniteSets

CONSTANTS
  Users,       \* users who have an account
  Standings,   \* bound: what staff may set a user's row to, in the database
  Requests,    \* bound: logins and refreshes that are in flight at once
  AccessTTL,   \* seconds an access token is valid
  RefreshTTL,  \* seconds a refresh token is valid
  MaxSecond,   \* bound: the last second of the clock
  Failures     \* may statements fail and the server stop?

\* Role and approval; an employee is approved ("employee") or not ("pending").
Claims == {"volunteer", "pending", "employee", "super_admin"}
\* What the login reads of a row of users.
Standing == [active: BOOLEAN, claims: Claims]

ASSUME SessionsAssumption ==
  /\ Standings \subseteq Standing
  /\ AccessTTL \in Nat
  /\ RefreshTTL \in Nat
  /\ MaxSecond \in Nat
  /\ IsFiniteSet(Requests)
  /\ Failures \in BOOLEAN

VARIABLES
  now,       \* the clock, in seconds
  standing,  \* rows of users
  tokens,    \* rows of refresh_tokens, by token
  reqs       \* the logins and refreshes in flight

vars == <<now, standing, tokens, reqs>>

----------------------------------------------------------------------------
(* Tokens, rows and requests *)

Token == [user: Users, claims: Claims, second: Nat]

\* login and from are history: the first token of the session, and the token
\* that this one replaced ({} after a login).
Row == [revoked: BOOLEAN, login: Token, from: SUBSET Token]

Idle == [at |-> "idle"]
Grant(u, claims, activate) ==
  [at |-> "grant", user |-> u, claims |-> claims, activate |-> activate]
Save(t, login, from) == [at |-> "save", token |-> t, login |-> login, from |-> from]

\* The requests refer to rows, which are never deleted.
Request ==
  {Idle}
  \cup [at: {"grant"}, user: Users, claims: Claims, activate: BOOLEAN]
  \cup [at: {"save"}, token: Token, login: Token, from: SUBSET DOMAIN tokens]
  \cup [at: {"revoke"}, token: DOMAIN tokens]
  \cup [at: {"revokeAll"}, user: Users]

Goto(r, next) == reqs' = [reqs EXCEPT ![r] = next]
Answer(r) == Goto(r, Idle)

\* IssueTokens.
Issue(u, c) == [user |-> u, claims |-> c, second |-> now]

\* VerifyToken.  The row's expires_at is never earlier than the token's own.
Expired(t) == now >= t.second + RefreshTTL
Usable(t) == ~tokens[t].revoked /\ ~Expired(t)

\* AuthMiddleware lets the access token issued with t through ...
AccessPasses(t) == now < t.second + AccessTTL /\ t.claims # "pending"
\* ... and t itself, which has the same key and the same claims, revoked or not.
Passes(t) == AccessPasses(t) \/ (~Expired(t) /\ t.claims # "pending")

DeletedFor(u) == [t \in {s \in DOMAIN tokens : s.user # u} |-> tokens[t]]

\* UPDATE ... SET is_revoked = true WHERE user_id = u.
RevokedFor(u) ==
  [t \in DOMAIN tokens |->
     IF t.user = u THEN [tokens[t] EXCEPT !.revoked = TRUE] ELSE tokens[t]]

----------------------------------------------------------------------------
(* Login: by password, by one-time password, or by OAuth *)

\* Login and LoginOAuth: the row is read, then the password or Google's answer is checked.
BeginLogin(r, u) ==
  /\ reqs[r] = Idle
  /\ standing[u].active /\ standing[u].claims # "pending"
  /\ Goto(r, Grant(u, standing[u].claims, FALSE))
  /\ UNCHANGED <<now, standing, tokens>>

\* ConfirmOTP: a code that was confirmed also activates its user.
BeginLoginOTP(r, u) ==
  /\ reqs[r] = Idle
  /\ Goto(r, Grant(u, standing[u].claims, ~standing[u].active))
  /\ UNCHANGED <<now, standing, tokens>>

\* The activation, and then the tokens, with the claims that were read.
IssueTokens(r) ==
  /\ reqs[r].at = "grant"
  /\ LET u == reqs[r].user
         t == Issue(u, reqs[r].claims) IN
     /\ IF reqs[r].claims = "pending" THEN Answer(r) ELSE Goto(r, Save(t, t, {}))
     /\ standing' = IF reqs[r].activate THEN [standing EXCEPT ![u].active = TRUE] ELSE standing
  /\ UNCHANGED <<now, tokens>>

SaveTokenUpsert(r) ==
  /\ reqs[r].at = "save"
  /\ LET t == reqs[r].token
         row == [revoked |-> FALSE, login |-> reqs[r].login, from |-> reqs[r].from] IN
     tokens' = [s \in DOMAIN tokens \cup {t} |-> IF s = t THEN row ELSE tokens[s]]
  /\ Answer(r)
  /\ UNCHANGED <<now, standing>>

\* The INSERT ends a login and a refresh; it fails if the token is there already.
SaveToken(r) ==
  /\ reqs[r].at = "save"
  /\ LET t == reqs[r].token
         row == [revoked |-> FALSE, login |-> reqs[r].login, from |-> reqs[r].from] IN
     IF t \in DOMAIN tokens
       THEN UNCHANGED tokens
       ELSE tokens' = [s \in DOMAIN tokens \cup {t} |-> IF s = t THEN row ELSE tokens[s]]
  /\ Answer(r)
  /\ UNCHANGED <<now, standing>>

----------------------------------------------------------------------------
(* Refresh *)

BeginRefreshAnyToken(r, t) ==
  /\ reqs[r] = Idle
  /\ t \in DOMAIN tokens
  /\ ~Expired(t)
  /\ Goto(r, [at |-> "revoke", token |-> t])
  /\ UNCHANGED <<now, standing, tokens>>

\* What the stored row says decides the next statement: a token that was used
\* before makes the service revoke everything its user has.
BeginRefresh(r, t) ==
  /\ reqs[r] = Idle
  /\ t \in DOMAIN tokens
  /\ ~Expired(t)
  /\ IF tokens[t].revoked
       THEN Goto(r, [at |-> "revokeAll", user |-> t.user])
       ELSE Goto(r, [at |-> "revoke", token |-> t])
  /\ UNCHANGED <<now, standing, tokens>>

\* The old token is revoked, then the new pair is issued.
RevokeOld(r) ==
  /\ reqs[r].at = "revoke"
  /\ LET t == reqs[r].token IN
     /\ tokens' = [tokens EXCEPT ![t].revoked = TRUE]
     /\ Goto(r, Save(Issue(t.user, t.claims), tokens[t].login, {t}))
  /\ UNCHANGED <<now, standing>>

RevokeAllAfterReuse(r) ==
  /\ reqs[r].at = "revokeAll"
  /\ tokens' = RevokedFor(reqs[r].user)
  /\ Answer(r)
  /\ UNCHANGED <<now, standing>>

----------------------------------------------------------------------------
(* Logout: one statement, for a client whose token the middleware accepts *)

Logout(u) ==
  /\ \E t \in DOMAIN tokens : t.user = u /\ Passes(t)
  /\ tokens' = RevokedFor(u)
  /\ UNCHANGED <<now, standing, reqs>>

----------------------------------------------------------------------------
(* Staff approve, demote, block and unblock users in the database: there   *)
(* is no endpoint for it.                                                  *)

SetStanding(u) ==
  /\ \E s \in Standings : standing' = [standing EXCEPT ![u] = s]
  /\ UNCHANGED <<now, tokens, reqs>>

----------------------------------------------------------------------------
(* Failures and time *)

\* A statement fails: the request ends with an error.
FailRequest(r) ==
  /\ Failures
  /\ reqs[r] # Idle
  /\ Answer(r)
  /\ UNCHANGED <<now, standing, tokens>>

\* The process stops and starts again.
Restart ==
  /\ Failures
  /\ reqs' = [r \in Requests |-> Idle]
  /\ UNCHANGED <<now, standing, tokens>>

Tick ==
  /\ now < MaxSecond
  /\ now' = now + 1
  /\ UNCHANGED <<standing, tokens, reqs>>

----------------------------------------------------------------------------
(* The specification *)

Init ==
  /\ now = 0
  /\ standing \in [Users -> Standings]
  /\ tokens = [t \in {} |-> 0]
  /\ reqs = [r \in Requests |-> Idle]

Next ==
  \/ \E r \in Requests :
       \/ \E u \in Users : BeginLogin(r, u) \/ BeginLoginOTP(r, u)
       \/ IssueTokens(r)
       \/ \E t \in DOMAIN tokens : BeginRefresh(r, t)
       \/ RevokeOld(r) \/ SaveToken(r) \/ RevokeAllAfterReuse(r) \/ FailRequest(r)
  \/ \E u \in Users : Logout(u) \/ SetStanding(u)
  \/ Restart
  \/ Tick

Spec == Init /\ [][Next]_vars

----------------------------------------------------------------------------
(* Properties *)

\* Rows and requests are well typed; the rows that requests in flight and later
\* tokens refer to are never gone.
TypeOK ==
  /\ now \in Nat
  /\ standing \in [Users -> Standing]
  /\ DOMAIN tokens \subseteq Token
  /\ tokens \in [DOMAIN tokens -> Row]
  /\ \A t \in DOMAIN tokens : tokens[t].from \subseteq DOMAIN tokens
  /\ reqs \in [Requests -> Request]

\* Rotation takes the old token away before it gives the new one: no token is
\* ever valid together with the one it replaced, however refreshes overlap, fail
\* half-way or fall into the same second.
RotationReplaces ==
  \A t \in DOMAIN tokens : \A s \in tokens[t].from : tokens[s].revoked

\* What token t was exchanged for, and the refreshes that are exchanging it.
Heirs(t) == {s \in DOMAIN tokens : t \in tokens[s].from}
Exchanging(t) ==
  {r \in Requests :
     \/ reqs[r].at = "revoke" /\ reqs[r].token = t
     \/ reqs[r].at = "save" /\ t \in reqs[r].from}

\* Refreshes that overlap may all exchange one token, since each looks at its row before
\* any has revoked it.  But a token is never exchanged for more new ones than there are
\* requests in flight: once one of them has revoked it, no other begins.
HeirsBounded ==
  \A t \in DOMAIN tokens :
    Cardinality(Heirs(t)) + Cardinality(Exchanging(t)) <= Cardinality(Requests)

\* A refresh in flight will store a token of the session that login started.
Continues(r, login) ==
  \/ reqs[r].at = "revoke" /\ tokens[reqs[r].token].login = login
  \/ /\ reqs[r].at = "save" /\ reqs[r].login = login
     /\ reqs[r].token \notin DOMAIN tokens

UnderWay(login) == {r \in Requests : Continues(r, login)}

\* A token of the session can be exchanged.
InUse(login) == \E t \in DOMAIN tokens : tokens[t].login = login /\ Usable(t)

\* A logout, an alarm or its age ends a session, except for refreshes of it that are
\* under way: each of them may bring the session back, once, and nothing else can.  With
\* none under way it is over for good, whatever later logins, refreshes and retries do.
SessionStaysOver ==
  [][\A login \in DOMAIN tokens :
       ~InUse(login) =>
         /\ UnderWay(login)' \subseteq UnderWay(login)
         /\ InUse(login)' => UnderWay(login)' # UnderWay(login)]_vars

\* Something of user u can still be turned into a new token with the claims c.
Renewable(u, c) ==
  \/ \E t \in DOMAIN tokens : t.user = u /\ t.claims = c /\ Usable(t)
  \/ \E r \in Requests :
       \/ reqs[r].at = "grant" /\ reqs[r].user = u /\ reqs[r].claims = c
       \/ reqs[r].at \in {"revoke", "save"} /\ reqs[r].token.user = u /\ reqs[r].token.claims = c

\* The tokens that the middleware takes for user u with the claims c.
Accepted(u, c) == {t \in DOMAIN tokens : t.user = u /\ t.claims = c /\ Passes(t)}

\* Claims outlive the row they were read from, for as long as their session is refreshed,
\* and the tokens that tell of them pass even when they are revoked.  But once a user no
\* longer has a role or an approval in the database and all his sessions with it are
\* over, he gets no further token with it, and those that pass only run out.
LapsedClaimsStayLapsed ==
  [][\A u \in Users, c \in Claims :
       ~Renewable(u, c) /\ standing[u].claims # c =>
         ~Renewable(u, c)' /\ Accepted(u, c)' \subseteq Accepted(u, c)]_vars

\* What the doc of RefreshTokens says: the exchange revokes the old token and issues
\* a new pair.  A refresh that has revoked its token stores the new one.
RotationSucceeds ==
  [][\A r \in Requests :
       reqs[r].at = "save" /\ reqs[r].from # {} /\ reqs'[r] = Idle
         => DOMAIN tokens' # DOMAIN tokens]_vars
=============================================================================
