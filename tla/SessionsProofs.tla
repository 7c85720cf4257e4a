--------------------------- MODULE SessionsProofs ---------------------------
(***************************************************************************)
(* For any users, clock and number of concurrent requests: rotation        *)
(* replaces tokens, a spent token is not taken again, a session that is    *)
(* over comes back by the refreshes under way only, and a role that was    *)
(* taken away runs out once the sessions that tell of it are over.         *)
(***************************************************************************)
EXTENDS SessionsRefinement, FiniteSetTheorems, TLAPS

\* A refresh that is about to store its token has revoked the old one.
RevokedBeforeSave ==
  \A r \in Requests :
    reqs[r].at = "save" => \A s \in reqs[r].from : tokens[s].revoked

IInv == TypeOK /\ RotationReplaces /\ RevokedBeforeSave

----------------------------------------------------------------------------
(* What a step does to the rows *)

\* Rows stay, their history never changes, and revocation is never undone.
RowsKept ==
  \A t \in DOMAIN tokens :
    /\ t \in DOMAIN tokens'
    /\ tokens'[t].login = tokens[t].login
    /\ tokens'[t].from = tokens[t].from
    /\ tokens[t].revoked => tokens'[t].revoked

\* What TypeOK says of a request in flight, place by place.
LEMMA RequestFields ==
  ASSUME TypeOK, NEW r \in Requests
  PROVE  /\ reqs[r].at \in {"idle", "grant", "save", "revoke", "revokeAll"}
         /\ reqs[r].at = "grant" => reqs[r].user \in Users /\ reqs[r].claims \in Claims
         /\ reqs[r].at = "save" => /\ reqs[r].token \in Token
                                   /\ reqs[r].login \in Token
                                   /\ reqs[r].from \subseteq DOMAIN tokens
         /\ reqs[r].at = "revoke" => reqs[r].token \in DOMAIN tokens
         /\ reqs[r].at = "revokeAll" => reqs[r].user \in Users
<1>1. reqs[r] \in Request
  BY DEF TypeOK
<1> QED BY <1>1 DEF Request, Idle

\* Requests stay well typed while rows are only added.
LEMMA RequestGrows ==
  ASSUME DOMAIN tokens \subseteq DOMAIN tokens'
  PROVE  Request \subseteq Request'
<1> SUFFICES ASSUME NEW q \in Request PROVE q \in Request'
  OBVIOUS
<1> QED BY DEF Request, Idle

\* The UPDATE of RevokeAllUserRefreshTokens.
LEMMA RevokedForKeeps ==
  ASSUME TypeOK, NEW u, tokens' = RevokedFor(u)
  PROVE  RowsKept /\ DOMAIN tokens' = DOMAIN tokens /\ tokens' \in [DOMAIN tokens -> Row]
<1>1. DOMAIN tokens' = DOMAIN tokens
  BY DEF RevokedFor
<1>2. ASSUME NEW t \in DOMAIN tokens
      PROVE  /\ tokens'[t] \in Row
             /\ tokens'[t].login = tokens[t].login
             /\ tokens'[t].from = tokens[t].from
             /\ tokens[t].revoked => tokens'[t].revoked
  <2>1. tokens[t] \in Row
    BY DEF TypeOK
  <2>2. tokens'[t] \in {tokens[t], [tokens[t] EXCEPT !.revoked = TRUE]}
    BY DEF RevokedFor
  <2> QED BY <2>1, <2>2 DEF Row
<1>3. tokens' = [t \in DOMAIN tokens |-> tokens'[t]]
  BY DEF RevokedFor
<1> QED BY <1>1, <1>2, <1>3 DEF RowsKept

\* The UPDATE of RevokeRefreshToken.
LEMMA RevokeOldKeeps ==
  ASSUME TypeOK, NEW t \in DOMAIN tokens, tokens' = [tokens EXCEPT ![t].revoked = TRUE]
  PROVE  /\ RowsKept
         /\ DOMAIN tokens' = DOMAIN tokens
         /\ tokens' \in [DOMAIN tokens -> Row]
         /\ tokens'[t].revoked
<1>1. DOMAIN tokens' = DOMAIN tokens
  OBVIOUS
<1>2. tokens[t] \in Row /\ tokens \in [DOMAIN tokens -> Row]
  BY DEF TypeOK
<1> QED BY <1>1, <1>2 DEF RowsKept, Row

\* The INSERT of SaveRefreshToken.
LEMMA SaveKeeps ==
  ASSUME TypeOK, NEW r \in Requests, SaveToken(r)
  PROVE  /\ RowsKept
         /\ DOMAIN tokens' \subseteq DOMAIN tokens \cup {reqs[r].token}
         /\ tokens' \in [DOMAIN tokens' -> Row]
         /\ reqs[r].token \notin DOMAIN tokens =>
              tokens'[reqs[r].token] =
                [revoked |-> FALSE, login |-> reqs[r].login, from |-> reqs[r].from]
         /\ \A t \in DOMAIN tokens : tokens'[t] = tokens[t]
<1> DEFINE t == reqs[r].token
           row == [revoked |-> FALSE, login |-> reqs[r].login, from |-> reqs[r].from]
<1>1. tokens \in [DOMAIN tokens -> Row] /\ DOMAIN tokens \subseteq Token
  BY DEF TypeOK
<1>2. row \in Row
  BY <1>1, RequestFields DEF SaveToken, Row
<1>3. CASE t \in DOMAIN tokens
  BY <1>1, <1>3 DEF SaveToken, RowsKept
<1>4. CASE t \notin DOMAIN tokens
  <2>1. tokens' = [s \in DOMAIN tokens \cup {t} |-> IF s = t THEN row ELSE tokens[s]]
    BY <1>4 DEF SaveToken
  <2>2. tokens' \in [DOMAIN tokens \cup {t} -> Row]
    BY <1>1, <1>2, <2>1
  <2> HIDE DEF row
  <2>3. \A s \in DOMAIN tokens : tokens'[s] = tokens[s]
    BY <1>4, <2>1
  <2>4. DOMAIN tokens' = DOMAIN tokens \cup {t} /\ tokens'[t] = row
    BY <2>1
  <2> QED BY <2>2, <2>3, <2>4 DEF RowsKept, row
<1> QED BY <1>3, <1>4

\* What an activation or staff can make of a row of users.
LEMMA StandingTyped ==
  ASSUME TypeOK, NEW u \in Users
  PROVE  /\ standing[u] \in Standing
         /\ standing[u].active \in BOOLEAN
         /\ standing[u].claims \in Claims
         /\ [standing EXCEPT ![u].active = TRUE] \in [Users -> Standing]
         /\ [standing EXCEPT ![u].active = TRUE][u].claims = standing[u].claims
<1>1. standing \in [Users -> Standing]
  BY DEF TypeOK
<1>2. standing[u] \in Standing
  BY <1>1
<1>3. [standing[u] EXCEPT !.active = TRUE] \in Standing
  BY <1>2 DEF Standing
<1> QED BY <1>1, <1>2, <1>3 DEF Standing

----------------------------------------------------------------------------
(* The invariant *)

LEMMA InitIInv == Init => IInv
<1> SUFFICES ASSUME Init PROVE IInv
  OBVIOUS
<1>1. DOMAIN tokens = {} /\ tokens \in [DOMAIN tokens -> Row]
  BY DEF Init
<1>2. reqs \in [Requests -> Request] /\ \A r \in Requests : reqs[r].at = "idle"
  BY DEF Init, Request, Idle
<1>3. now \in Nat /\ standing \in [Users -> Standing]
  BY SessionsAssumption DEF Init, SessionsAssumption
<1> QED
  BY <1>1, <1>2, <1>3 DEF Init, IInv, TypeOK, RotationReplaces, RevokedBeforeSave

\* The typing of the rows, from what a step does to them.
LEMMA RowsTyped ==
  ASSUME TypeOK, RowsKept, DOMAIN tokens' = DOMAIN tokens,
         tokens' \in [DOMAIN tokens' -> Row]
  PROVE  /\ DOMAIN tokens' \subseteq Token
         /\ \A t \in DOMAIN tokens' : tokens'[t].from \subseteq DOMAIN tokens'
  BY DEF TypeOK, RowsKept

\* A request that moves on.
LEMMA RequestMoves ==
  ASSUME TypeOK, DOMAIN tokens \subseteq DOMAIN tokens',
         NEW r \in Requests, NEW next \in Request', Goto(r, next)
  PROVE  reqs' \in [Requests -> Request'] /\ reqs'[r] = next
<1>1. reqs \in [Requests -> Request']
  BY RequestGrows DEF TypeOK
<1>2. reqs' = [reqs EXCEPT ![r] = next]
  BY DEF Goto
<1> QED BY <1>1, <1>2

\* Rows are kept by every step, and the types with them.
LEMMA Keeps == TypeOK /\ [Next]_vars => RowsKept /\ TypeOK'
<1> SUFFICES ASSUME TypeOK, [Next]_vars PROVE RowsKept /\ TypeOK'
  OBVIOUS
<1> USE DEF Answer
<1>0. Idle \in Request'
  BY DEF Request
<1>1. ASSUME NEW r \in Requests, NEW u \in Users, BeginLogin(r, u) \/ BeginLoginOTP(r, u)
      PROVE  RowsKept /\ TypeOK'
  <2>1. PICK activate \in BOOLEAN : Goto(r, Grant(u, standing[u].claims, activate))
    BY <1>1, StandingTyped DEF BeginLogin, BeginLoginOTP
  <2>2. Grant(u, standing[u].claims, activate) \in Request'
    BY StandingTyped DEF Grant, Request
  <2>3. UNCHANGED <<now, standing, tokens>>
    BY <1>1 DEF BeginLogin, BeginLoginOTP
  <2>4. reqs' \in [Requests -> Request']
    BY <2>1, <2>2, <2>3, RequestMoves
  <2> QED BY <2>3, <2>4 DEF TypeOK, RowsKept
<1>11. ASSUME NEW r \in Requests, IssueTokens(r)
      PROVE  RowsKept /\ TypeOK'
  <2> DEFINE u == reqs[r].user
             t == Issue(u, reqs[r].claims)
  <2>1. u \in Users /\ reqs[r].claims \in Claims /\ UNCHANGED <<now, tokens>>
    BY <1>11, RequestFields DEF IssueTokens
  <2>2. t \in Token
    BY <2>1 DEF TypeOK, Issue, Token
  <2>3. Save(t, t, {}) \in Request'
    BY <2>1, <2>2 DEF Save, Request
  <2>4. PICK next \in Request' : Goto(r, next)
    BY <1>0, <1>11, <2>3 DEF IssueTokens
  <2>5. reqs' \in [Requests -> Request']
    BY <2>1, <2>4, RequestMoves
  <2>6. standing' \in {standing, [standing EXCEPT ![u].active = TRUE]}
    BY <1>11 DEF IssueTokens
  <2>7. standing' \in [Users -> Standing]
    BY <2>1, <2>6, StandingTyped DEF TypeOK
  <2> QED BY <2>1, <2>5, <2>7 DEF TypeOK, RowsKept
<1>2. ASSUME NEW r \in Requests, NEW t \in DOMAIN tokens, BeginRefresh(r, t)
      PROVE  RowsKept /\ TypeOK'
  <2>1. t.user \in Users /\ UNCHANGED tokens
    BY <1>2 DEF BeginRefresh, TypeOK, Token
  <2>2. PICK next \in Request' : Goto(r, next)
    <3>1. CASE tokens[t].revoked
      BY <1>2, <2>1, <3>1 DEF BeginRefresh, Request
    <3>2. CASE ~tokens[t].revoked
      BY <1>2, <2>1, <3>2 DEF BeginRefresh, Request
    <3> QED BY <3>1, <3>2
  <2>3. reqs' \in [Requests -> Request']
    BY <2>1, <2>2, RequestMoves
  <2> QED BY <1>2, <2>3 DEF BeginRefresh, TypeOK, RowsKept
<1>3. ASSUME NEW r \in Requests, RevokeOld(r)
      PROVE  RowsKept /\ TypeOK'
  <2> DEFINE t == reqs[r].token
             fresh == Issue(t.user, t.claims)
  <2>1. t \in DOMAIN tokens /\ tokens[t] \in Row /\ t \in Token
    BY <1>3, RequestFields DEF RevokeOld, TypeOK
  <2>2. /\ tokens' = [tokens EXCEPT ![t].revoked = TRUE]
        /\ Goto(r, Save(fresh, tokens[t].login, {t}))
    BY <1>3 DEF RevokeOld
  <2>3. RowsKept /\ DOMAIN tokens' = DOMAIN tokens /\ tokens' \in [DOMAIN tokens' -> Row]
    BY <2>1, <2>2, RevokeOldKeeps
  <2>4. fresh \in Token /\ tokens[t].login \in Token
    BY <2>1 DEF TypeOK, Issue, Token, Row
  <2>5. Save(fresh, tokens[t].login, {t}) \in Request'
    BY <2>1, <2>3, <2>4 DEF Save, Request
  <2>6. reqs' \in [Requests -> Request']
    BY <2>2, <2>3, <2>5, RequestMoves
  <2> QED BY <1>3, <2>3, <2>6, RowsTyped DEF RevokeOld, TypeOK
<1>4. ASSUME NEW r \in Requests, SaveToken(r)
      PROVE  RowsKept /\ TypeOK'
  <2> DEFINE t == reqs[r].token
  <2>1. /\ RowsKept
        /\ DOMAIN tokens' \subseteq DOMAIN tokens \cup {t}
        /\ tokens' \in [DOMAIN tokens' -> Row]
    BY <1>4, SaveKeeps
  <2>2. t \in Token /\ reqs[r].from \subseteq DOMAIN tokens
    BY <1>4, RequestFields DEF SaveToken
  <2>3. \A s \in DOMAIN tokens' : tokens'[s].from \subseteq DOMAIN tokens
    <3>1. t \notin DOMAIN tokens => tokens'[t].from = reqs[r].from
      <4>1. t \notin DOMAIN tokens =>
              tokens'[t] = [revoked |-> FALSE, login |-> reqs[r].login, from |-> reqs[r].from]
        BY <1>4, SaveKeeps
      <4> QED BY <4>1
    <3> QED BY <2>1, <2>2, <3>1 DEF TypeOK, RowsKept
  <2>4. DOMAIN tokens \subseteq DOMAIN tokens'
    BY <2>1 DEF RowsKept
  <2>5. reqs' \in [Requests -> Request']
    BY <1>0, <1>4, <2>4, RequestMoves DEF SaveToken
  <2> QED BY <1>4, <2>1, <2>2, <2>3, <2>4, <2>5 DEF SaveToken, TypeOK
<1>5. ASSUME NEW r \in Requests, RevokeAllAfterReuse(r)
      PROVE  RowsKept /\ TypeOK'
  <2>1. RowsKept /\ DOMAIN tokens' = DOMAIN tokens /\ tokens' \in [DOMAIN tokens' -> Row]
    BY <1>5, RevokedForKeeps DEF RevokeAllAfterReuse
  <2>2. reqs' \in [Requests -> Request']
    BY <1>0, <1>5, <2>1, RequestMoves DEF RevokeAllAfterReuse
  <2> QED BY <1>5, <2>1, <2>2, RowsTyped DEF RevokeAllAfterReuse, TypeOK
<1>6. ASSUME NEW r \in Requests, FailRequest(r)
      PROVE  RowsKept /\ TypeOK'
  <2>1. reqs' \in [Requests -> Request']
    BY <1>0, <1>6, RequestMoves DEF FailRequest
  <2> QED BY <1>6, <2>1 DEF FailRequest, TypeOK, RowsKept
<1>7. ASSUME NEW u \in Users, Logout(u)
      PROVE  RowsKept /\ TypeOK'
  <2>1. RowsKept /\ DOMAIN tokens' = DOMAIN tokens /\ tokens' \in [DOMAIN tokens' -> Row]
    BY <1>7, RevokedForKeeps DEF Logout
  <2>2. reqs' \in [Requests -> Request']
    BY <1>7, <2>1, RequestGrows DEF Logout, TypeOK
  <2> QED BY <1>7, <2>1, <2>2, RowsTyped DEF Logout, TypeOK
<1>8. CASE Restart
  BY <1>0, <1>8 DEF Restart, TypeOK, RowsKept
<1>9. CASE Tick
  <2>1. Request' = Request
    BY <1>9 DEF Tick, Request
  <2> QED BY <1>9, <2>1 DEF Tick, TypeOK, RowsKept
<1>10. CASE UNCHANGED vars
  <2>1. Request' = Request
    BY <1>10 DEF vars, Request
  <2> QED BY <1>10, <2>1 DEF vars, TypeOK, RowsKept
<1>12. ASSUME NEW u \in Users, SetStanding(u)
      PROVE  RowsKept /\ TypeOK'
  <2>1. Request' = Request
    BY <1>12 DEF SetStanding, Request
  <2>2. standing' \in [Users -> Standing]
    BY <1>12, SessionsAssumption DEF SetStanding, TypeOK, SessionsAssumption
  <2> QED BY <1>12, <2>1, <2>2 DEF SetStanding, TypeOK, RowsKept
<1> QED
  BY <1>1, <1>2, <1>3, <1>4, <1>5, <1>6, <1>7, <1>8, <1>9, <1>10, <1>11, <1>12 DEF Next

\* Requests other than r are untouched, and r does not come to a save.
LEMMA NoNewSave ==
  ASSUME RevokedBeforeSave, TypeOK, RowsKept,
         \A q \in Requests : reqs'[q] = reqs[q] \/ reqs'[q].at # "save"
  PROVE  RevokedBeforeSave'
<1> SUFFICES ASSUME NEW q \in Requests, reqs'[q].at = "save", NEW s \in reqs'[q].from
             PROVE  tokens'[s].revoked
  BY DEF RevokedBeforeSave
<1>1. reqs'[q] = reqs[q]
  OBVIOUS
<1>2. s \in DOMAIN tokens /\ tokens[s].revoked
  BY <1>1, RequestFields DEF RevokedBeforeSave
<1> QED BY <1>2 DEF RowsKept

\* Rotation when no row is added.
LEMMA NoNewRow ==
  ASSUME RotationReplaces, TypeOK, RowsKept, DOMAIN tokens' = DOMAIN tokens
  PROVE  RotationReplaces'
  BY DEF RotationReplaces, TypeOK, RowsKept

LEMMA IInvStep == IInv /\ [Next]_vars => IInv'
<1> SUFFICES ASSUME IInv, [Next]_vars PROVE RotationReplaces' /\ RevokedBeforeSave'
  BY Keeps DEF IInv
<1> USE Keeps DEF IInv, Answer
<1>1. TypeOK /\ RowsKept /\ reqs \in [Requests -> Request]
  BY DEF TypeOK
<1>2. ASSUME NEW r \in Requests, NEW u \in Users, BeginLogin(r, u) \/ BeginLoginOTP(r, u)
      PROVE  RotationReplaces' /\ RevokedBeforeSave'
  <2>1. UNCHANGED tokens /\ \A q \in Requests : reqs'[q] = reqs[q] \/ reqs'[q].at # "save"
    BY <1>1, <1>2 DEF BeginLogin, BeginLoginOTP, Goto, Grant
  <2> QED BY <1>1, <2>1, NoNewRow, NoNewSave
<1>10. ASSUME NEW r \in Requests, IssueTokens(r)
      PROVE  RotationReplaces' /\ RevokedBeforeSave'
  <2> DEFINE t == Issue(reqs[r].user, reqs[r].claims)
  <2>1. UNCHANGED tokens
    BY <1>10 DEF IssueTokens
  <2>2. \A q \in Requests : reqs'[q] = reqs[q] \/ reqs'[q] \in {Idle, Save(t, t, {})}
    BY <1>1, <1>10 DEF IssueTokens, Goto
  <2>3. Idle.at # "save" /\ Save(t, t, {}).from = {}
    BY DEF Idle, Save
  <2>4. RevokedBeforeSave'
    BY <2>1, <2>2, <2>3 DEF RevokedBeforeSave
  <2> QED BY <1>1, <2>1, <2>4, NoNewRow
<1>3. ASSUME NEW r \in Requests, NEW t \in DOMAIN tokens, BeginRefresh(r, t)
      PROVE  RotationReplaces' /\ RevokedBeforeSave'
  <2>1. UNCHANGED tokens /\ \A q \in Requests : reqs'[q] = reqs[q] \/ reqs'[q].at # "save"
    BY <1>1, <1>3 DEF BeginRefresh, Goto
  <2> QED BY <1>1, <2>1, NoNewRow, NoNewSave
<1>4. ASSUME NEW r \in Requests, RevokeOld(r)
      PROVE  RotationReplaces' /\ RevokedBeforeSave'
  <2> DEFINE t == reqs[r].token
             next == Save(Issue(t.user, t.claims), tokens[t].login, {t})
  <2>1. t \in DOMAIN tokens
    BY <1>4, RequestFields DEF RevokeOld
  <2>2. tokens' = [tokens EXCEPT ![t].revoked = TRUE]
    BY <1>4 DEF RevokeOld
  <2>3. DOMAIN tokens' = DOMAIN tokens /\ tokens'[t].revoked
    BY <2>1, <2>2, RevokeOldKeeps
  <2>4. \A q \in Requests : reqs'[q] = IF q = r THEN next ELSE reqs[q]
    BY <1>1, <1>4 DEF RevokeOld, Goto
  <2>5. next.from = {t}
    BY DEF Save
  <2>6. RevokedBeforeSave'
    <3> SUFFICES ASSUME NEW q \in Requests, reqs'[q].at = "save", NEW s \in reqs'[q].from
                 PROVE  tokens'[s].revoked
      BY DEF RevokedBeforeSave
    <3>1. CASE q = r
      BY <2>3, <2>4, <2>5, <3>1
    <3>2. CASE q # r
      <4>1. s \in DOMAIN tokens /\ tokens[s].revoked
        BY <2>4, <3>2, RequestFields DEF RevokedBeforeSave
      <4> QED BY <1>1, <4>1 DEF RowsKept
    <3> QED BY <3>1, <3>2
  <2> QED BY <1>1, <2>3, <2>6, NoNewRow
<1>5. ASSUME NEW r \in Requests, SaveToken(r)
      PROVE  RotationReplaces' /\ RevokedBeforeSave'
  <2> DEFINE t == reqs[r].token
  <2>1. RevokedBeforeSave'
    <3>1. \A q \in Requests : reqs'[q] = reqs[q] \/ reqs'[q].at # "save"
      BY <1>1, <1>5 DEF SaveToken, Goto, Idle
    <3> QED BY <1>1, <3>1, NoNewSave
  <2>2. RotationReplaces'
    <3> SUFFICES ASSUME NEW x \in DOMAIN tokens', NEW s \in tokens'[x].from
                 PROVE  tokens'[s].revoked
      BY DEF RotationReplaces
    <3>1. CASE x \in DOMAIN tokens
      <4>1. s \in DOMAIN tokens /\ tokens[s].revoked
        BY <1>1, <3>1 DEF RotationReplaces, RowsKept, TypeOK
      <4> QED BY <1>1, <4>1 DEF RowsKept
    <3>2. CASE x \notin DOMAIN tokens
      <4>1. x = t
        BY <1>5, <3>2, SaveKeeps
      <4>2. tokens'[t] = [revoked |-> FALSE, login |-> reqs[r].login, from |-> reqs[r].from]
        BY <1>5, <3>2, <4>1, SaveKeeps
      <4>3. s \in reqs[r].from
        BY <4>1, <4>2
      <4>4. s \in DOMAIN tokens /\ tokens[s].revoked
        BY <1>5, <4>3, RequestFields DEF SaveToken, RevokedBeforeSave
      <4> QED BY <1>1, <4>4 DEF RowsKept
    <3> QED BY <3>1, <3>2
  <2> QED BY <2>1, <2>2
<1>6. ASSUME NEW r \in Requests, RevokeAllAfterReuse(r) \/ FailRequest(r)
      PROVE  RotationReplaces' /\ RevokedBeforeSave'
  <2>1. DOMAIN tokens' = DOMAIN tokens
    BY <1>6, RevokedForKeeps DEF RevokeAllAfterReuse, FailRequest
  <2>2. \A q \in Requests : reqs'[q] = reqs[q] \/ reqs'[q].at # "save"
    BY <1>1, <1>6 DEF RevokeAllAfterReuse, FailRequest, Goto, Idle
  <2> QED BY <1>1, <2>1, <2>2, NoNewRow, NoNewSave
<1>7. ASSUME NEW u \in Users, Logout(u)
      PROVE  RotationReplaces' /\ RevokedBeforeSave'
  <2>1. DOMAIN tokens' = DOMAIN tokens /\ UNCHANGED reqs
    BY <1>7, RevokedForKeeps DEF Logout
  <2> QED BY <1>1, <2>1, NoNewRow, NoNewSave
<1>8. CASE Restart
  <2>1. UNCHANGED tokens /\ \A q \in Requests : reqs'[q].at # "save"
    BY <1>8 DEF Restart, Idle
  <2> QED BY <1>1, <2>1, NoNewRow, NoNewSave
<1>9. CASE Tick \/ UNCHANGED vars \/ \E u \in Users : SetStanding(u)
  <2>1. UNCHANGED <<tokens, reqs>>
    BY <1>9 DEF Tick, vars, SetStanding
  <2> QED BY <1>1, <2>1, NoNewRow, NoNewSave
<1> QED
  BY <1>2, <1>3, <1>4, <1>5, <1>6, <1>7, <1>8, <1>9, <1>10 DEF Next

----------------------------------------------------------------------------
(* The heirs of a token *)

\* There are finitely many rows, so that heirs can be counted.
HeirsInv == IsFiniteSet(DOMAIN tokens) /\ HeirsBounded

LEMMA InitHeirsInv == Init => HeirsInv
<1> SUFFICES ASSUME Init PROVE HeirsInv
  OBVIOUS
<1>1. DOMAIN tokens = {}
  BY DEF Init
<1> QED BY <1>1, FS_EmptySet DEF HeirsInv, HeirsBounded

\* No refresh begins for a token that is revoked.
LEMMA ExchangingShrinks ==
  ASSUME TypeOK, [Next]_vars, NEW t \in DOMAIN tokens, tokens[t].revoked
  PROVE  Exchanging(t)' \subseteq Exchanging(t)
<1>1. reqs \in [Requests -> Request]
  BY DEF TypeOK
<1> SUFFICES ASSUME NEW q \in Requests, q \in Exchanging(t)', reqs'[q] # reqs[q]
             PROVE  q \in Exchanging(t)
  BY DEF Exchanging
<1>2. reqs'[q].at \in {"revoke", "save"}
  BY DEF Exchanging
<1> USE DEF Answer
<1>3. ASSUME NEW r \in Requests, NEW u \in Users, BeginLogin(r, u) \/ BeginLoginOTP(r, u)
      PROVE  FALSE
  <2>1. reqs'[q].at = "grant"
    BY <1>1, <1>3 DEF BeginLogin, BeginLoginOTP, Goto, Grant
  <2> QED BY <1>2, <2>1
<1>4. ASSUME NEW r \in Requests, IssueTokens(r)
      PROVE  FALSE
  <2> DEFINE s == Issue(reqs[r].user, reqs[r].claims)
  <2>1. reqs'[q] \in {Idle, Save(s, s, {})}
    BY <1>1, <1>4 DEF IssueTokens, Goto
  <2> QED BY <2>1 DEF Idle, Save, Exchanging
<1>5. ASSUME NEW r \in Requests, NEW s \in DOMAIN tokens, BeginRefresh(r, s)
      PROVE  FALSE
  <2>1. CASE tokens[s].revoked
    <3>1. reqs'[q].at = "revokeAll"
      BY <1>1, <1>5, <2>1 DEF BeginRefresh, Goto
    <3> QED BY <1>2, <3>1
  <2>2. CASE ~tokens[s].revoked
    <3>1. reqs'[q].at = "revoke" /\ reqs'[q].token = s
      BY <1>1, <1>5, <2>2 DEF BeginRefresh, Goto
    <3> QED BY <2>2, <3>1 DEF Exchanging
  <2> QED BY <2>1, <2>2
<1>6. ASSUME NEW r \in Requests, RevokeOld(r)
      PROVE  q \in Exchanging(t)
  <2>1. q = r /\ reqs'[q].at = "save" /\ reqs'[q].from = {reqs[q].token}
    BY <1>1, <1>6 DEF RevokeOld, Goto, Save
  <2> QED BY <1>6, <2>1 DEF RevokeOld, Exchanging
<1>7. ASSUME NEW r \in Requests, SaveToken(r) \/ RevokeAllAfterReuse(r) \/ FailRequest(r)
      PROVE  FALSE
  <2>1. reqs'[q].at = "idle"
    BY <1>1, <1>7 DEF SaveToken, RevokeAllAfterReuse, FailRequest, Goto, Idle
  <2> QED BY <1>2, <2>1
<1>8. CASE Restart
  BY <1>2, <1>8 DEF Restart, Idle
<1>9. CASE Tick \/ UNCHANGED vars \/ \E u \in Users : Logout(u) \/ SetStanding(u)
  BY <1>9 DEF Tick, vars, Logout, SetStanding
<1> QED
  BY <1>3, <1>4, <1>5, <1>6, <1>7, <1>8, <1>9 DEF Next

\* Rows are added by the INSERT alone.
LEMMA RowsAdded ==
  ASSUME TypeOK, [Next]_vars, DOMAIN tokens' # DOMAIN tokens
  PROVE  \E r \in Requests : SaveToken(r) /\ reqs[r].token \notin DOMAIN tokens
<1>1. ASSUME NEW r \in Requests, RevokeOld(r)
      PROVE  DOMAIN tokens' = DOMAIN tokens
  BY <1>1 DEF RevokeOld
<1>2. ASSUME NEW r \in Requests, SaveToken(r)
      PROVE  reqs[r].token \notin DOMAIN tokens
  BY <1>2 DEF SaveToken
<1>3. ASSUME NEW u, tokens' = RevokedFor(u)
      PROVE  DOMAIN tokens' = DOMAIN tokens
  BY <1>3, RevokedForKeeps
<1> QED
  BY <1>1, <1>2, <1>3
  DEF Next, vars, BeginLogin, BeginLoginOTP, IssueTokens, BeginRefresh,
      RevokeAllAfterReuse, FailRequest, Logout, SetStanding, Restart, Tick

\* An exchange that ends turns the refresh into one heir.
LEMMA ExchangeEnds ==
  ASSUME IInv, HeirsInv, NEW r \in Requests, SaveToken(r),
         reqs[r].token \notin DOMAIN tokens, NEW t \in DOMAIN tokens, t \in reqs[r].from
  PROVE  /\ Heirs(t)' = Heirs(t) \cup {reqs[r].token}
         /\ Exchanging(t)' = Exchanging(t) \ {r}
         /\ r \in Exchanging(t)
<1> DEFINE x == reqs[r].token
<1>1. TypeOK /\ reqs \in [Requests -> Request]
  BY DEF IInv, TypeOK
<1>2. DOMAIN tokens' = DOMAIN tokens \cup {x} /\ \A s \in DOMAIN tokens : tokens'[s] = tokens[s]
  BY <1>1, SaveKeeps DEF SaveToken
<1>3. tokens'[x] = [revoked |-> FALSE, login |-> reqs[r].login, from |-> reqs[r].from]
  BY <1>1, SaveKeeps
<1>4. Heirs(t)' = Heirs(t) \cup {x}
  BY <1>2, <1>3 DEF Heirs
<1>5. \A q \in Requests : reqs'[q] = IF q = r THEN Idle ELSE reqs[q]
  BY <1>1 DEF SaveToken, Answer, Goto
<1> QED BY <1>4, <1>5 DEF Exchanging, Idle, SaveToken

LEMMA HeirsInvStep == IInv /\ HeirsInv /\ [Next]_vars => HeirsInv'
<1> SUFFICES ASSUME IInv, HeirsInv, [Next]_vars PROVE HeirsInv'
  OBVIOUS
<1>1. TypeOK /\ RowsKept /\ RotationReplaces /\ RotationReplaces' /\ TypeOK'
  BY Keeps, IInvStep DEF IInv
<1>2. IsFiniteSet(DOMAIN tokens')
  <2>1. CASE DOMAIN tokens' = DOMAIN tokens
    BY <2>1 DEF HeirsInv
  <2>2. CASE DOMAIN tokens' # DOMAIN tokens
    <3>1. PICK r \in Requests : SaveToken(r)
      BY <1>1, <2>2, RowsAdded
    <3>2. DOMAIN tokens' \subseteq DOMAIN tokens \cup {reqs[r].token}
      BY <1>1, <3>1, SaveKeeps
    <3> QED BY <3>2, FS_AddElement, FS_Subset DEF HeirsInv
  <2> QED BY <2>1, <2>2
<1> SUFFICES ASSUME NEW t \in DOMAIN tokens'
             PROVE  Cardinality(Heirs(t)') + Cardinality(Exchanging(t)') <= Cardinality(Requests)
  BY <1>2 DEF HeirsInv, HeirsBounded
<1>3. Exchanging(t) \subseteq Requests /\ Exchanging(t)' \subseteq Requests
  BY DEF Exchanging
<1>4. /\ IsFiniteSet(Requests) /\ Cardinality(Requests) \in Nat
      /\ IsFiniteSet(Exchanging(t)) /\ Cardinality(Exchanging(t)) \in Nat
      /\ IsFiniteSet(Exchanging(t)') /\ Cardinality(Exchanging(t)') \in Nat
      /\ Cardinality(Exchanging(t)') <= Cardinality(Requests)
  BY <1>3, SessionsAssumption, FS_Subset, FS_CardinalityType DEF SessionsAssumption
<1>5. CASE Heirs(t)' = {}
  BY <1>4, <1>5, FS_EmptySet
<1>6. CASE Heirs(t)' # {}
  <2>1. PICK s \in DOMAIN tokens' : t \in tokens'[s].from
    BY <1>6 DEF Heirs
  <2>2. tokens'[t].revoked
    BY <1>1, <2>1 DEF RotationReplaces
  <2>3. t \in DOMAIN tokens /\ tokens[t] \in Row
    <3> SUFFICES t \in DOMAIN tokens
      BY <1>1 DEF TypeOK
    <3>1. CASE DOMAIN tokens' = DOMAIN tokens
      BY <3>1
    <3>2. CASE DOMAIN tokens' # DOMAIN tokens
      <4>1. PICK r \in Requests : SaveToken(r) /\ reqs[r].token \notin DOMAIN tokens
        BY <1>1, <3>2, RowsAdded
      <4>2. tokens'[reqs[r].token] =
              [revoked |-> FALSE, login |-> reqs[r].login, from |-> reqs[r].from]
        BY <1>1, <4>1, SaveKeeps
      <4>3. t # reqs[r].token
        BY <2>2, <4>2
      <4> QED BY <1>1, <4>1, <4>3, SaveKeeps
    <3> QED BY <3>1, <3>2
  <2>4. CASE \E r \in Requests : /\ SaveToken(r) /\ reqs[r].token \notin DOMAIN tokens
                                 /\ t \in reqs[r].from
    <3>1. PICK r \in Requests : /\ SaveToken(r) /\ reqs[r].token \notin DOMAIN tokens
                                /\ t \in reqs[r].from
      BY <2>4
    <3>2. /\ Heirs(t)' = Heirs(t) \cup {reqs[r].token} /\ reqs[r].token \notin Heirs(t)
          /\ Exchanging(t)' = Exchanging(t) \ {r} /\ r \in Exchanging(t)
      BY <2>3, <3>1, ExchangeEnds DEF Heirs
    <3>3. IsFiniteSet(Heirs(t)) /\ Cardinality(Heirs(t)) \in Nat
      BY FS_Subset, FS_CardinalityType DEF Heirs, HeirsInv
    <3>4. Cardinality(Heirs(t)') = Cardinality(Heirs(t)) + 1
      BY <3>2, <3>3, FS_AddElement
    <3>5. Cardinality(Exchanging(t)') = Cardinality(Exchanging(t)) - 1
      BY <1>4, <3>2, FS_RemoveElement
    <3>6. Cardinality(Heirs(t)) + Cardinality(Exchanging(t)) <= Cardinality(Requests)
      BY <2>3 DEF HeirsInv, HeirsBounded
    <3> QED BY <1>4, <3>3, <3>4, <3>5, <3>6
  <2>5. CASE ~\E r \in Requests : /\ SaveToken(r) /\ reqs[r].token \notin DOMAIN tokens
                                  /\ t \in reqs[r].from
    <3>1. Heirs(t)' = Heirs(t)
      <4>1. CASE DOMAIN tokens' = DOMAIN tokens
        BY <1>1, <4>1 DEF Heirs, RowsKept
      <4>2. CASE DOMAIN tokens' # DOMAIN tokens
        <5>1. PICK r \in Requests : SaveToken(r) /\ reqs[r].token \notin DOMAIN tokens
          BY <1>1, <4>2, RowsAdded
        <5>2. tokens'[reqs[r].token] =
                [revoked |-> FALSE, login |-> reqs[r].login, from |-> reqs[r].from]
          BY <1>1, <5>1, SaveKeeps
        <5>3. t \notin tokens'[reqs[r].token].from
          BY <2>5, <5>1, <5>2
        <5>4. DOMAIN tokens' \subseteq DOMAIN tokens \cup {reqs[r].token}
          BY <1>1, <5>1, SaveKeeps
        <5> QED BY <1>1, <5>3, <5>4 DEF Heirs, RowsKept
      <4> QED BY <4>1, <4>2
    <3>2. PICK h \in DOMAIN tokens : t \in tokens[h].from
      BY <1>6, <3>1 DEF Heirs
    <3>3. tokens[t].revoked
      BY <1>1, <3>2 DEF RotationReplaces
    <3>4. Exchanging(t)' \subseteq Exchanging(t)
      BY <1>1, <2>3, <3>3, ExchangingShrinks
    <3>5. Cardinality(Exchanging(t)') <= Cardinality(Exchanging(t))
      BY <1>4, <3>4, FS_Subset
    <3>6. Cardinality(Heirs(t)) \in Nat
      BY FS_Subset, FS_CardinalityType DEF Heirs, HeirsInv
    <3>7. Cardinality(Heirs(t)) + Cardinality(Exchanging(t)) <= Cardinality(Requests)
      BY <2>3 DEF HeirsInv, HeirsBounded
    <3> QED BY <1>4, <3>1, <3>5, <3>6, <3>7
  <2> QED BY <2>4, <2>5
<1> QED BY <1>5, <1>6

----------------------------------------------------------------------------
(* Sessions that are over *)

\* The clock never goes back, so what has expired stays expired.
LEMMA ClockGoesOn == TypeOK /\ [Next]_vars => now' \in Nat /\ now' >= now
<1> SUFFICES ASSUME TypeOK, [Next]_vars PROVE now' \in Nat /\ now' >= now
  OBVIOUS
<1>1. CASE Tick
  BY <1>1 DEF Tick, TypeOK
<1>2. CASE ~Tick
  <2>1. now' = now
    BY <1>2, Zenon
    DEF Next, vars, BeginLogin, BeginLoginOTP, IssueTokens, BeginRefresh, RevokeOld,
        SaveToken, RevokeAllAfterReuse, FailRequest, Logout, SetStanding, Restart
  <2> QED BY <2>1 DEF TypeOK
<1> QED BY <1>1, <1>2

\* What a step may make of a session that is not in use.
StaysOver(login) ==
  /\ UnderWay(login)' \subseteq UnderWay(login)
  /\ InUse(login)' => UnderWay(login)' # UnderWay(login)

\* No refresh of it is under way that was not before, when no other request comes to it.
LEMMA UnderWayKept ==
  ASSUME TypeOK, RowsKept, NEW login,
         \A q \in Requests :
           reqs'[q] = reqs[q] \/ Continues(q, login) \/ ~Continues(q, login)'
  PROVE  UnderWay(login)' \subseteq UnderWay(login)
<1> SUFFICES ASSUME NEW q \in Requests, Continues(q, login)', reqs'[q] = reqs[q]
             PROVE  Continues(q, login)
  BY DEF UnderWay
<1>1. reqs[q].at = "revoke" => reqs[q].token \in DOMAIN tokens
  BY RequestFields
<1> QED BY <1>1 DEF Continues, RowsKept

\* A session stays out of use when the step adds no token to it.
LEMMA UnusedKept ==
  ASSUME TypeOK, RowsKept, now' \in Nat, now' >= now,
         DOMAIN tokens' \subseteq Token, NEW login, ~InUse(login),
         \A t \in DOMAIN tokens' \ DOMAIN tokens : tokens'[t].login # login
  PROVE  ~InUse(login)'
<1> SUFFICES ASSUME NEW t \in DOMAIN tokens', tokens'[t].login = login
             PROVE  ~Usable(t)'
  BY DEF InUse
<1>1. t \in DOMAIN tokens /\ tokens[t].login = login /\ t.second \in Nat
  BY DEF RowsKept, Token
<1>2. ~Usable(t)
  BY <1>1 DEF InUse
<1> QED
  BY <1>1, <1>2, SessionsAssumption
  DEF Usable, Expired, RowsKept, TypeOK, SessionsAssumption

LEMMA OverStep ==
  ASSUME TypeOK, [Next]_vars, NEW login \in DOMAIN tokens, ~InUse(login)
  PROVE  StaysOver(login)
<1>1. /\ RowsKept /\ TypeOK' /\ now' \in Nat /\ now' >= now
      /\ DOMAIN tokens' \subseteq Token /\ reqs \in [Requests -> Request]
  BY Keeps, ClockGoesOn DEF TypeOK
<1>2. ASSUME DOMAIN tokens' = DOMAIN tokens,
             \A q \in Requests :
               reqs'[q] = reqs[q] \/ Continues(q, login) \/ ~Continues(q, login)'
      PROVE  StaysOver(login)
  BY <1>1, <1>2, UnderWayKept, UnusedKept DEF StaysOver
<1>3. ASSUME NEW q \in Requests, reqs'[q].at \in {"idle", "revokeAll"}
      PROVE  ~Continues(q, login)'
  BY <1>3 DEF Continues
<1> USE DEF Answer
<1>4. ASSUME NEW r \in Requests, NEW u \in Users, BeginLogin(r, u) \/ BeginLoginOTP(r, u)
      PROVE  StaysOver(login)
  <2>1. /\ UNCHANGED tokens
        /\ reqs'[r].at = "grant" /\ \A q \in Requests \ {r} : reqs'[q] = reqs[q]
    BY <1>1, <1>4 DEF BeginLogin, BeginLoginOTP, Goto, Grant
  <2>2. ~Continues(r, login)'
    BY <2>1 DEF Continues
  <2> QED BY <1>2, <2>1, <2>2
<1>12. ASSUME NEW r \in Requests, IssueTokens(r)
      PROVE  StaysOver(login)
  <2> DEFINE t == Issue(reqs[r].user, reqs[r].claims)
  <2>1. UNCHANGED tokens /\ \A q \in Requests \ {r} : reqs'[q] = reqs[q]
    BY <1>1, <1>12 DEF IssueTokens, Goto
  <2>2. reqs'[r] \in {Idle, Save(t, t, {})}
    BY <1>1, <1>12 DEF IssueTokens, Goto
  <2>3. ~Continues(r, login)'
    <3>1. CASE reqs'[r] = Idle
      BY <1>3, <3>1 DEF Idle
    <3>2. CASE reqs'[r] = Save(t, t, {})
      BY <2>1, <3>2 DEF Continues, Save
    <3> QED BY <2>2, <3>1, <3>2
  <2> QED BY <1>2, <2>1, <2>3
<1>5. ASSUME NEW r \in Requests, NEW t \in DOMAIN tokens, BeginRefresh(r, t)
      PROVE  StaysOver(login)
  <2>1. UNCHANGED tokens /\ \A q \in Requests \ {r} : reqs'[q] = reqs[q]
    BY <1>1, <1>5 DEF BeginRefresh, Goto
  <2>2. ~Continues(r, login)'
    <3>1. CASE tokens[t].revoked
      <4>1. reqs'[r].at = "revokeAll"
        BY <1>1, <1>5, <3>1 DEF BeginRefresh, Goto
      <4> QED BY <1>3, <4>1
    <3>2. CASE ~tokens[t].revoked
      <4>1. reqs'[r] = [at |-> "revoke", token |-> t]
        BY <1>1, <1>5, <3>2 DEF BeginRefresh, Goto
      <4>2. tokens[t].login # login
        BY <1>5, <3>2 DEF BeginRefresh, InUse, Usable
      <4> QED BY <2>1, <4>1, <4>2 DEF Continues
    <3> QED BY <3>1, <3>2
  <2> QED BY <1>2, <2>1, <2>2
<1>6. ASSUME NEW r \in Requests, RevokeOld(r)
      PROVE  StaysOver(login)
  <2> DEFINE t == reqs[r].token
             next == Save(Issue(t.user, t.claims), tokens[t].login, {t})
  <2>1. t \in DOMAIN tokens /\ tokens' = [tokens EXCEPT ![t].revoked = TRUE]
    BY <1>6, RequestFields DEF RevokeOld
  <2>2. \A q \in Requests : reqs'[q] = IF q = r THEN next ELSE reqs[q]
    BY <1>1, <1>6 DEF RevokeOld, Goto
  <2>3. Continues(r, login)' => Continues(r, login)
    <3>1. reqs'[r].at = "save" /\ reqs'[r].login = tokens[t].login
      BY <2>2 DEF Save
    <3> QED BY <1>6, <3>1 DEF RevokeOld, Continues
  <2>4. DOMAIN tokens' = DOMAIN tokens
    BY <2>1
  <2> QED BY <1>2, <2>2, <2>3, <2>4
<1>7. ASSUME NEW r \in Requests, SaveToken(r)
      PROVE  StaysOver(login)
  <2> DEFINE t == reqs[r].token
  <2>1. ~Continues(r, login)'
    <3>1. reqs'[r].at = "idle"
      BY <1>1, <1>7 DEF SaveToken, Goto, Idle
    <3> QED BY <1>3, <3>1
  <2>2. UnderWay(login)' \subseteq UnderWay(login)
    <3>1. \A q \in Requests \ {r} : reqs'[q] = reqs[q]
      BY <1>1, <1>7 DEF SaveToken, Goto
    <3> QED BY <1>1, <2>1, <3>1, UnderWayKept
  <2>3. CASE Continues(r, login)
    BY <2>1, <2>2, <2>3 DEF StaysOver, UnderWay
  <2>4. CASE ~Continues(r, login)
    <3> SUFFICES ASSUME NEW x \in DOMAIN tokens' \ DOMAIN tokens
                 PROVE  tokens'[x].login # login
      BY <1>1, <2>2, UnusedKept DEF StaysOver
    <3>1. x = t /\ t \notin DOMAIN tokens
      BY <1>7, SaveKeeps
    <3>2. tokens'[t] = [revoked |-> FALSE, login |-> reqs[r].login, from |-> reqs[r].from]
      BY <1>7, <3>1, SaveKeeps
    <3>3. reqs[r].login # login
      BY <1>7, <2>4, <3>1 DEF SaveToken, Continues
    <3> QED BY <3>1, <3>2, <3>3
  <2> QED BY <2>3, <2>4
<1>8. ASSUME NEW r \in Requests, RevokeAllAfterReuse(r) \/ FailRequest(r)
      PROVE  StaysOver(login)
  <2>1. DOMAIN tokens' = DOMAIN tokens
    BY <1>8, RevokedForKeeps DEF RevokeAllAfterReuse, FailRequest
  <2>2. reqs'[r].at = "idle" /\ \A q \in Requests \ {r} : reqs'[q] = reqs[q]
    BY <1>1, <1>8 DEF RevokeAllAfterReuse, FailRequest, Goto, Idle
  <2> QED BY <1>2, <1>3, <2>1, <2>2
<1>9. ASSUME NEW u \in Users, Logout(u)
      PROVE  StaysOver(login)
  <2>1. DOMAIN tokens' = DOMAIN tokens /\ UNCHANGED reqs
    BY <1>9, RevokedForKeeps DEF Logout
  <2> QED BY <1>2, <2>1
<1>10. CASE Restart
  <2>1. UNCHANGED tokens /\ \A q \in Requests : reqs'[q].at = "idle"
    BY <1>10 DEF Restart, Idle
  <2> QED BY <1>2, <1>3, <2>1
<1>11. CASE Tick \/ UNCHANGED vars \/ \E u \in Users : SetStanding(u)
  <2>1. UNCHANGED <<tokens, reqs>>
    BY <1>11 DEF Tick, vars, SetStanding
  <2> QED BY <1>2, <2>1
<1> QED
  BY <1>4, <1>5, <1>6, <1>7, <1>8, <1>9, <1>10, <1>11, <1>12 DEF Next

----------------------------------------------------------------------------
(* Claims that have lapsed *)

\* A login or refresh in flight will give user u the claims c.
Promises(r, u, c) ==
  \/ reqs[r].at = "grant" /\ reqs[r].user = u /\ reqs[r].claims = c
  \/ reqs[r].at \in {"revoke", "save"} /\ reqs[r].token.user = u /\ reqs[r].token.claims = c

\* What a step may make of claims that a user no longer has and cannot renew.
RunOut(u, c) == ~Renewable(u, c)' /\ Accepted(u, c)' \subseteq Accepted(u, c)

\* Claims run out when the step neither stores a token that has them nor starts a
\* request that promises one.
LEMMA LapsedKept ==
  ASSUME TypeOK, RowsKept, now' \in Nat, now' >= now, DOMAIN tokens' \subseteq Token,
         NEW u, NEW c, ~Renewable(u, c),
         \A t \in DOMAIN tokens' \ DOMAIN tokens : ~(t.user = u /\ t.claims = c),
         \A q \in Requests : reqs'[q] = reqs[q] \/ ~Promises(q, u, c)'
  PROVE  RunOut(u, c)
<1>1. ASSUME NEW t \in DOMAIN tokens', t.user = u, t.claims = c
      PROVE  t \in DOMAIN tokens /\ t.second \in Nat
  BY <1>1 DEF Token
<1>2. ASSUME NEW t \in DOMAIN tokens', t.user = u, t.claims = c
      PROVE  ~Usable(t)'
  <2>1. ~Usable(t)
    BY <1>1, <1>2 DEF Renewable
  <2> QED
    BY <1>1, <1>2, <2>1, SessionsAssumption
    DEF Usable, Expired, RowsKept, TypeOK, SessionsAssumption
<1>3. Accepted(u, c)' \subseteq Accepted(u, c)
  <2> SUFFICES ASSUME NEW t \in DOMAIN tokens', t.user = u, t.claims = c, Passes(t)'
               PROVE  Passes(t)
    BY <1>1 DEF Accepted
  <2> QED
    BY <1>1, SessionsAssumption
    DEF Passes, AccessPasses, Expired, TypeOK, SessionsAssumption
<1>4. \A q \in Requests : ~Promises(q, u, c)'
  BY DEF Renewable, Promises
<1> QED BY <1>2, <1>3, <1>4 DEF RunOut, Renewable, Promises

LEMMA LapsedStep ==
  ASSUME TypeOK, [Next]_vars, NEW u \in Users, NEW c \in Claims,
         ~Renewable(u, c), standing[u].claims # c
  PROVE  RunOut(u, c)
<1>1. /\ RowsKept /\ TypeOK' /\ now' \in Nat /\ now' >= now
      /\ DOMAIN tokens' \subseteq Token /\ reqs \in [Requests -> Request]
      /\ \A q \in Requests : ~Promises(q, u, c)
  BY Keeps, ClockGoesOn DEF TypeOK, Renewable, Promises
<1>2. ASSUME DOMAIN tokens' = DOMAIN tokens,
             \A q \in Requests : reqs'[q] = reqs[q] \/ ~Promises(q, u, c)'
      PROVE  RunOut(u, c)
  BY <1>1, <1>2, LapsedKept
<1>3. ASSUME NEW q \in Requests, reqs'[q].at \in {"idle", "revokeAll"}
      PROVE  ~Promises(q, u, c)'
  BY <1>3 DEF Promises
<1> USE DEF Answer
<1>4. ASSUME NEW r \in Requests, NEW v \in Users, BeginLogin(r, v) \/ BeginLoginOTP(r, v)
      PROVE  RunOut(u, c)
  <2>1. PICK activate \in BOOLEAN : Goto(r, Grant(v, standing[v].claims, activate))
    BY <1>1, <1>4, StandingTyped DEF BeginLogin, BeginLoginOTP
  <2>2. UNCHANGED tokens
    BY <1>4 DEF BeginLogin, BeginLoginOTP
  <2>3. \A q \in Requests :
          reqs'[q] = IF q = r THEN Grant(v, standing[v].claims, activate) ELSE reqs[q]
    BY <1>1, <2>1 DEF Goto
  <2>4. ~Promises(r, u, c)'
    BY <2>3 DEF Promises, Grant
  <2> QED BY <1>2, <2>2, <2>3, <2>4
<1>5. ASSUME NEW r \in Requests, IssueTokens(r)
      PROVE  RunOut(u, c)
  <2> DEFINE t == Issue(reqs[r].user, reqs[r].claims)
  <2>1. UNCHANGED tokens /\ \A q \in Requests \ {r} : reqs'[q] = reqs[q]
    BY <1>1, <1>5 DEF IssueTokens, Goto
  <2>2. reqs'[r] \in {Idle, Save(t, t, {})}
    BY <1>1, <1>5 DEF IssueTokens, Goto
  <2>3. ~Promises(r, u, c)'
    <3>1. CASE reqs'[r] = Idle
      BY <1>3, <3>1 DEF Idle
    <3>2. CASE reqs'[r] = Save(t, t, {})
      <4>1. ~(t.user = u /\ t.claims = c)
        BY <1>1, <1>5 DEF IssueTokens, Promises, Issue
      <4> QED BY <3>2, <4>1 DEF Promises, Save
    <3> QED BY <2>2, <3>1, <3>2
  <2> QED BY <1>2, <2>1, <2>3
<1>6. ASSUME NEW r \in Requests, NEW t \in DOMAIN tokens, BeginRefresh(r, t)
      PROVE  RunOut(u, c)
  <2>1. UNCHANGED tokens /\ \A q \in Requests \ {r} : reqs'[q] = reqs[q]
    BY <1>1, <1>6 DEF BeginRefresh, Goto
  <2>2. ~Promises(r, u, c)'
    <3>1. CASE tokens[t].revoked
      <4>1. reqs'[r].at = "revokeAll"
        BY <1>1, <1>6, <3>1 DEF BeginRefresh, Goto
      <4> QED BY <1>3, <4>1
    <3>2. CASE ~tokens[t].revoked
      <4>1. reqs'[r] = [at |-> "revoke", token |-> t]
        BY <1>1, <1>6, <3>2 DEF BeginRefresh, Goto
      <4>2. ~(t.user = u /\ t.claims = c)
        BY <1>6, <3>2 DEF BeginRefresh, Renewable, Usable
      <4> QED BY <4>1, <4>2 DEF Promises
    <3> QED BY <3>1, <3>2
  <2> QED BY <1>2, <2>1, <2>2
<1>7. ASSUME NEW r \in Requests, RevokeOld(r)
      PROVE  RunOut(u, c)
  <2> DEFINE t == reqs[r].token
             fresh == Issue(t.user, t.claims)
             next == Save(fresh, tokens[t].login, {t})
  <2>1. t \in DOMAIN tokens /\ tokens' = [tokens EXCEPT ![t].revoked = TRUE]
    BY <1>7, RequestFields DEF RevokeOld
  <2>2. \A q \in Requests : reqs'[q] = IF q = r THEN next ELSE reqs[q]
    BY <1>1, <1>7 DEF RevokeOld, Goto
  <2>3. ~(t.user = u /\ t.claims = c)
    BY <1>1, <1>7 DEF RevokeOld, Promises
  <2>4. fresh.user = t.user /\ fresh.claims = t.claims
    BY DEF Issue
  <2>5. reqs'[r].at = "save" /\ reqs'[r].token = fresh
    BY <2>2 DEF Save
  <2>6. ~Promises(r, u, c)'
    BY <2>3, <2>4, <2>5 DEF Promises
  <2>7. DOMAIN tokens' = DOMAIN tokens
    BY <2>1
  <2> QED BY <1>2, <2>2, <2>6, <2>7
<1>8. ASSUME NEW r \in Requests, SaveToken(r)
      PROVE  RunOut(u, c)
  <2>1. \A x \in DOMAIN tokens' \ DOMAIN tokens : x = reqs[r].token
    BY <1>8, SaveKeeps
  <2>2. ~(reqs[r].token.user = u /\ reqs[r].token.claims = c)
    BY <1>1, <1>8 DEF SaveToken, Promises
  <2>3. reqs'[r].at = "idle" /\ \A q \in Requests \ {r} : reqs'[q] = reqs[q]
    BY <1>1, <1>8 DEF SaveToken, Goto, Idle
  <2>4. \A q \in Requests : reqs'[q] = reqs[q] \/ ~Promises(q, u, c)'
    BY <1>3, <2>3
  <2> QED BY <1>1, <2>1, <2>2, <2>4, LapsedKept
<1>9. ASSUME NEW r \in Requests, RevokeAllAfterReuse(r) \/ FailRequest(r)
      PROVE  RunOut(u, c)
  <2>1. DOMAIN tokens' = DOMAIN tokens
    BY <1>9, RevokedForKeeps DEF RevokeAllAfterReuse, FailRequest
  <2>2. reqs'[r].at = "idle" /\ \A q \in Requests \ {r} : reqs'[q] = reqs[q]
    BY <1>1, <1>9 DEF RevokeAllAfterReuse, FailRequest, Goto, Idle
  <2> QED BY <1>2, <1>3, <2>1, <2>2
<1>10. ASSUME NEW v \in Users, Logout(v)
      PROVE  RunOut(u, c)
  <2>1. DOMAIN tokens' = DOMAIN tokens /\ UNCHANGED reqs
    BY <1>10, RevokedForKeeps DEF Logout
  <2> QED BY <1>2, <2>1
<1>11. CASE Restart
  <2>1. UNCHANGED tokens /\ \A q \in Requests : reqs'[q].at = "idle"
    BY <1>11 DEF Restart, Idle
  <2> QED BY <1>2, <1>3, <2>1
<1>12. CASE Tick \/ UNCHANGED vars \/ \E v \in Users : SetStanding(v)
  <2>1. UNCHANGED <<tokens, reqs>>
    BY <1>12 DEF Tick, vars, SetStanding
  <2> QED BY <1>2, <2>1
<1> QED
  BY <1>4, <1>5, <1>6, <1>7, <1>8, <1>9, <1>10, <1>11, <1>12 DEF Next

----------------------------------------------------------------------------
(* Sessions implements SessionLedger *)

\* What a login or refresh is about to store: the first token of a session, or the heir
\* of the token that it has exchanged.
Inherits(req) ==
  \/ req.from = {} /\ req.login = req.token
  \/ \E s \in DOMAIN tokens :
       /\ req.from = {s} /\ req.login = tokens[s].login
       /\ req.token.user = s.user /\ req.token.claims = s.claims

HeirsInFlight ==
  /\ now <= MaxSecond
  /\ \A r \in Requests : reqs[r].at = "save" => reqs[r].token \in Issuable /\ Inherits(reqs[r])

LEMMA InitHeirs == Init => HeirsInFlight
BY SessionsAssumption DEF Init, HeirsInFlight, Idle, SessionsAssumption

LEMMA HeirsMove ==
  ASSUME TypeOK, RowsKept, HeirsInFlight, now' <= MaxSecond,
         NEW r \in Requests, NEW next, Goto(r, next),
         next.at = "save" => next.token \in Issuable /\ Inherits(next)'
  PROVE  HeirsInFlight'
<1>1. \A q \in Requests : reqs'[q] = IF q = r THEN next ELSE reqs[q]
  BY DEF TypeOK, Goto
<1>2. ASSUME NEW q \in Requests, reqs'[q].at = "save"
      PROVE  reqs'[q].token \in Issuable /\ Inherits(reqs[q])'
  <2>1. CASE q = r
    BY <1>1, <1>2, <2>1 DEF Inherits
  <2>2. CASE q # r
    <3>1. reqs'[q] = reqs[q] /\ reqs[q].token \in Issuable /\ Inherits(reqs[q])
      BY <1>1, <1>2, <2>2 DEF HeirsInFlight
    <3> QED BY <3>1 DEF Inherits, RowsKept
  <2> QED BY <2>1, <2>2
<1> QED BY <1>2 DEF HeirsInFlight, Issuable

LEMMA HeirsStep == TypeOK /\ HeirsInFlight /\ [Next]_vars => HeirsInFlight'
<1> SUFFICES ASSUME TypeOK, HeirsInFlight, [Next]_vars PROVE HeirsInFlight'
  OBVIOUS
<1>1. RowsKept /\ TypeOK' /\ now \in Nat /\ now <= MaxSecond
  BY Keeps DEF TypeOK, HeirsInFlight
<1> USE DEF Answer
<1>2. ASSUME NEW r \in Requests, NEW u \in Users, BeginLogin(r, u) \/ BeginLoginOTP(r, u)
      PROVE  HeirsInFlight'
  <2>1. PICK activate \in BOOLEAN : Goto(r, Grant(u, standing[u].claims, activate))
    BY <1>2, StandingTyped DEF BeginLogin, BeginLoginOTP
  <2>2. now' <= MaxSecond /\ Grant(u, standing[u].claims, activate).at # "save"
    BY <1>1, <1>2 DEF BeginLogin, BeginLoginOTP, Grant
  <2> QED BY <1>1, <2>1, <2>2, HeirsMove
<1>3. ASSUME NEW r \in Requests, IssueTokens(r)
      PROVE  HeirsInFlight'
  <2> DEFINE t == Issue(reqs[r].user, reqs[r].claims)
  <2>1. PICK next \in {Idle, Save(t, t, {})} : Goto(r, next)
    BY <1>3 DEF IssueTokens
  <2>2. t \in Issuable /\ now' <= MaxSecond
    BY <1>1, <1>3, RequestFields, SessionsAssumption
    DEF IssueTokens, Issue, Issuable, SessionsAssumption
  <2>3. next.at = "save" => next.token \in Issuable /\ next.from = {} /\ next.login = next.token
    BY <2>2 DEF Idle, Save
  <2>4. next.at = "save" => next.token \in Issuable /\ Inherits(next)'
    BY <2>3 DEF Inherits
  <2> QED BY <1>1, <2>1, <2>2, <2>4, HeirsMove
<1>4. ASSUME NEW r \in Requests, NEW t \in DOMAIN tokens, BeginRefresh(r, t)
      PROVE  HeirsInFlight'
  <2>1. PICK next : Goto(r, next) /\ next.at # "save"
    BY <1>4 DEF BeginRefresh
  <2>2. now' <= MaxSecond
    BY <1>1, <1>4 DEF BeginRefresh
  <2> QED BY <1>1, <2>1, <2>2, HeirsMove
<1>5. ASSUME NEW r \in Requests, RevokeOld(r)
      PROVE  HeirsInFlight'
  <2>1. PICK t, heir, next :
          /\ t = reqs[r].token /\ heir = Issue(t.user, t.claims)
          /\ next = Save(heir, tokens[t].login, {t}) /\ Goto(r, next)
    BY <1>5 DEF RevokeOld
  <2>2. t \in DOMAIN tokens /\ t \in Token /\ now' <= MaxSecond
    BY <1>1, <1>5, <2>1, RequestFields DEF RevokeOld, TypeOK
  <2>3. heir \in Issuable /\ heir.user = t.user /\ heir.claims = t.claims
    BY <1>1, <2>1, <2>2, SessionsAssumption DEF Issue, Issuable, Token, SessionsAssumption
  <2>4. t \in DOMAIN tokens' /\ tokens'[t].login = tokens[t].login
    BY <1>1, <2>2 DEF RowsKept
  <2>5. next.token = heir /\ next.from = {t} /\ next.login = tokens[t].login
    BY <2>1 DEF Save
  <2>6. Inherits(next)'
    BY <2>3, <2>4, <2>5 DEF Inherits
  <2> QED BY <1>1, <2>1, <2>2, <2>3, <2>5, <2>6, HeirsMove
<1>6. ASSUME NEW r \in Requests, SaveToken(r) \/ RevokeAllAfterReuse(r) \/ FailRequest(r)
      PROVE  HeirsInFlight'
  <2>1. Goto(r, Idle) /\ now' <= MaxSecond /\ Idle.at # "save"
    BY <1>1, <1>6 DEF SaveToken, RevokeAllAfterReuse, FailRequest, Idle
  <2> QED BY <1>1, <2>1, HeirsMove
<1>7. CASE Restart
  BY <1>1, <1>7 DEF Restart, HeirsInFlight, Idle
<1>8. CASE Tick \/ UNCHANGED vars \/ \E u \in Users : Logout(u) \/ SetStanding(u)
  <2>1. reqs' = reqs /\ now' <= MaxSecond
    BY <1>1, <1>8, SessionsAssumption DEF Tick, vars, Logout, SetStanding, SessionsAssumption
  <2> QED BY <1>1, <2>1 DEF HeirsInFlight, Inherits, RowsKept
<1> QED
  BY <1>2, <1>3, <1>4, <1>5, <1>6, <1>7, <1>8 DEF Next

----------------------------------------------------------------------------
(* Theorems *)

LEMMA Invariance == Spec => []IInv
  BY InitIInv, IInvStep, PTL DEF Spec

\* Rows and requests are well typed, and the rows that requests in flight and
\* later tokens refer to are never gone.
THEOREM TypeCorrect == Spec => []TypeOK
<1>1. IInv => TypeOK
  BY DEF IInv
<1> QED BY <1>1, Invariance, PTL

\* No token is ever valid together with the one it replaced.
THEOREM RotationAlwaysReplaces == Spec => []RotationReplaces
<1>1. IInv => RotationReplaces
  BY DEF IInv
<1> QED BY <1>1, Invariance, PTL

\* However many refreshes overlap, a token is exchanged for no more new ones than there
\* are requests in flight: a spent token is never taken again.
THEOREM HeirsStayBounded == Spec => []HeirsBounded
<1>1. IInv /\ HeirsInv /\ [Next]_vars => HeirsInv'
  BY HeirsInvStep
<1>2. HeirsInv => HeirsBounded
  BY DEF HeirsInv
<1> QED BY <1>1, <1>2, InitHeirsInv, Invariance, PTL DEF Spec

\* Only the refreshes that are under way when a session ends by logout, reuse or expiry can
\* bring it back, each once; what requests of its user and of others come later cannot.
THEOREM OverForGood == Spec => SessionStaysOver
<1>1. IInv /\ [Next]_vars =>
        [\A login \in DOMAIN tokens : ~InUse(login) =>
           /\ UnderWay(login)' \subseteq UnderWay(login)
           /\ InUse(login)' => UnderWay(login)' # UnderWay(login)]_vars
  BY OverStep DEF IInv, StaysOver
<1> QED BY <1>1, Invariance, PTL DEF Spec, SessionStaysOver

\* A role or an approval that a user no longer has is in no further token once all his
\* sessions with it are over, and the tokens that pass with it only run out.
THEOREM LapsedForGood == Spec => LapsedClaimsStayLapsed
<1>1. IInv /\ [Next]_vars =>
        [\A u \in Users, c \in Claims :
           ~Renewable(u, c) /\ standing[u].claims # c =>
             ~Renewable(u, c)' /\ Accepted(u, c)' \subseteq Accepted(u, c)]_vars
  BY LapsedStep DEF IInv, RunOut
<1> QED BY <1>1, Invariance, PTL DEF Spec, LapsedClaimsStayLapsed

\* What the ledger sees of a step that stores and revokes nothing while the clock stands.
LEMMA LedgerStands ==
  ASSUME UNCHANGED <<now, tokens>>
  PROVE  Issued' = Issued /\ Live' = Live
BY DEF Issued, Live, Usable, Expired

\* What it sees of a request that goes on.
LEMMA ExchangeMoves ==
  ASSUME TypeOK, NEW r \in Requests, NEW next, Goto(r, next)
  PROVE  /\ Exchanges' = [Exchanges EXCEPT ![r] = Exchange(next)]
         /\ Exchange(next) = Exchange(reqs[r]) => Exchanges' = Exchanges
<1>1. \A q \in Requests : reqs'[q] = IF q = r THEN next ELSE reqs[q]
  BY DEF TypeOK, Goto
<1>2. \A q \in Requests : Exchanges'[q] = IF q = r THEN Exchange(next) ELSE Exchanges[q]
  BY <1>1 DEF Exchanges, Exchange
<1>3. /\ Exchanges = [q \in Requests |-> Exchanges[q]]
      /\ Exchanges' = [q \in Requests |-> Exchanges'[q]]
      /\ Exchanges[r] = Exchange(reqs[r])
  BY DEF Exchanges
<1> QED BY <1>2, <1>3

\* Tokens that are only revoked, or that age, die and leave the rest as it was.
LEMMA Dying ==
  ASSUME TypeOK, RowsKept, DOMAIN tokens' = DOMAIN tokens, now' \in Nat, now' >= now
  PROVE  /\ Issued' = Issued
         /\ Exchanges' = Exchanges => Ledger!Next
<1>1. Issued' = Issued
  BY DEF Issued, RowsKept
<1>2. Live' \subseteq Live
  <2> SUFFICES ASSUME NEW t \in Live' PROVE t \in Live
    OBVIOUS
  <2>1. t \in DOMAIN tokens /\ t.second \in Nat /\ now \in Nat
    BY DEF Live, TypeOK, Token
  <2>2. ~tokens[t].revoked /\ ~Expired(t)
    BY <2>1, SessionsAssumption
    DEF Live, Usable, Expired, RowsKept, SessionsAssumption
  <2> QED BY <2>1, <2>2 DEF Live, Usable
<1>3. Live \ Live' \in SUBSET Live /\ Live' = Live \ (Live \ Live')
  BY <1>2
<1>4. ASSUME Exchanges' = Exchanges PROVE Ledger!Next
  <2>1. Ledger!Expire(Live \ Live')
    BY <1>1, <1>3, <1>4 DEF Ledger!Expire
  <2> QED BY <1>3, <2>1 DEF Ledger!Next
<1> QED BY <1>1, <1>4

\* The INSERT of a token that is not there yet: a session opens or goes on.
LEMMA SaveRecords ==
  ASSUME IInv, HeirsInFlight, NEW r \in Requests, SaveToken(r),
         reqs[r].token \notin DOMAIN tokens
  PROVE  Ledger!Next
<1> DEFINE login == reqs[r].login
<1>1. PICK t : t = reqs[r].token
  OBVIOUS
<1>2. /\ TypeOK /\ t \in Issuable /\ t \notin DOMAIN Issued
      /\ Inherits(reqs[r]) /\ reqs[r].at = "save"
  BY <1>1 DEF IInv, HeirsInFlight, SaveToken, Issued
<1>3. /\ \A s \in DOMAIN tokens : tokens'[s] = tokens[s]
      /\ DOMAIN tokens' = DOMAIN tokens \cup {t}
      /\ tokens'[t] = [revoked |-> FALSE, login |-> login, from |-> reqs[r].from]
      /\ now' = now
  <2>1. DOMAIN tokens' = DOMAIN tokens \cup {t}
    BY <1>1 DEF SaveToken
  <2> QED BY <1>1, <1>2, <2>1, SaveKeeps DEF SaveToken
<1>4. Ledger!Record(t, login)
  <2>1. Issued' = [s \in DOMAIN Issued \cup {t} |-> IF s = t THEN login ELSE Issued[s]]
    BY <1>2, <1>3 DEF Issued
  <2>2. \A s \in DOMAIN tokens : s \in Live' <=> s \in Live
    BY <1>3 DEF Live, Usable, Expired
  <2>3. Live' \in {Live, Live \cup {t}}
    <3>1. Live \subseteq DOMAIN tokens /\ Live' \subseteq DOMAIN tokens \cup {t}
      BY <1>3 DEF Live
    <3>2. CASE t \in Live'
      BY <2>2, <3>1, <3>2
    <3>3. CASE t \notin Live'
      BY <1>2, <2>2, <3>1, <3>3 DEF Issued
    <3> QED BY <3>2, <3>3
  <2> QED BY <2>1, <2>3 DEF Ledger!Record
<1>5. Exchanges' = [Exchanges EXCEPT ![r] = {}] /\ Exchanges[r] = reqs[r].from
  <2>1. Goto(r, Idle) /\ Exchange(Idle) = {} /\ Exchange(reqs[r]) = reqs[r].from
    BY <1>2 DEF SaveToken, Answer, Exchange, Idle
  <2> QED BY <1>2, <2>1, ExchangeMoves DEF Exchanges
<1>6. CASE reqs[r].from = {} /\ login = t
  <2>1. Exchanges' = Exchanges
    BY <1>5, <1>6 DEF Exchanges
  <2>2. Ledger!Open(t)
    BY <1>4, <1>6, <2>1 DEF Ledger!Open
  <2> QED BY <1>2, <2>2 DEF Ledger!Next
<1>7. CASE reqs[r].from # {}
  <2>1. PICK s \in DOMAIN tokens : /\ reqs[r].from = {s} /\ login = tokens[s].login
                                   /\ t.user = s.user /\ t.claims = s.claims
    BY <1>1, <1>2, <1>7 DEF Inherits
  <2>2. s \notin Live
    BY <1>2, <2>1 DEF IInv, RevokedBeforeSave, Live, Usable
  <2>3. s \in Exchanges[r] /\ Issued[s] = login
    BY <1>5, <2>1 DEF Issued
  <2>4. Ledger!Redeem(r, t)
    BY <1>4, <1>5, <2>1, <2>2, <2>3 DEF Ledger!Redeem
  <2> QED BY <1>2, <2>4 DEF Ledger!Next
<1> QED BY <1>1, <1>2, <1>6, <1>7 DEF Inherits

LEMMA LedgerStep ==
  IInv /\ HeirsInFlight /\ [Next]_vars => [Ledger!Next]_(Ledger!lvars)
<1> SUFFICES ASSUME IInv, HeirsInFlight, [Next]_vars
             PROVE  [Ledger!Next]_(Ledger!lvars)
  OBVIOUS
<1>1. TypeOK /\ RowsKept /\ TypeOK' /\ now' \in Nat /\ now' >= now
  BY Keeps, ClockGoesOn DEF IInv
<1>2. ASSUME UNCHANGED <<now, tokens>>, NEW r \in Requests, NEW next, Goto(r, next),
             Exchange(next) = Exchange(reqs[r])
      PROVE  UNCHANGED Ledger!lvars
  BY <1>1, <1>2, LedgerStands, ExchangeMoves DEF Ledger!lvars
<1>3. ASSUME UNCHANGED <<now, tokens>>, NEW R \in SUBSET Requests,
             \A q \in Requests : reqs'[q] = IF q \in R THEN Idle ELSE reqs[q]
      PROVE  Ledger!Next
  <2>1. Exchanges' = [q \in Requests |-> IF q \in R THEN {} ELSE Exchanges[q]]
    BY <1>3 DEF Exchanges, Exchange, Idle
  <2>2. Ledger!Forfeit(R)
    BY <1>3, <2>1, LedgerStands DEF Ledger!Forfeit
  <2> QED BY <2>2 DEF Ledger!Next
<1> USE DEF Answer
<1>4. ASSUME NEW r \in Requests, NEW u \in Users, BeginLogin(r, u) \/ BeginLoginOTP(r, u)
      PROVE  UNCHANGED Ledger!lvars
  <2>1. PICK next : Goto(r, next) /\ next.at = "grant"
    BY <1>4 DEF BeginLogin, BeginLoginOTP, Grant
  <2>2. reqs[r] = Idle /\ UNCHANGED <<now, tokens>>
    BY <1>4, Zenon DEF BeginLogin, BeginLoginOTP
  <2>3. Exchange(next) = {} /\ Exchange(reqs[r]) = {}
    BY <2>1, <2>2 DEF Exchange, Idle
  <2> QED BY <1>2, <2>1, <2>2, <2>3
<1>5. ASSUME NEW r \in Requests, IssueTokens(r)
      PROVE  UNCHANGED Ledger!lvars
  <2> DEFINE t == Issue(reqs[r].user, reqs[r].claims)
  <2>1. PICK next \in {Idle, Save(t, t, {})} : Goto(r, next)
    BY <1>5 DEF IssueTokens
  <2>2. Exchange(next) = {} /\ Exchange(reqs[r]) = {} /\ UNCHANGED <<now, tokens>>
    BY <1>5, <2>1 DEF IssueTokens, Exchange, Idle, Save
  <2> QED BY <1>2, <2>1, <2>2
<1>6. ASSUME NEW r \in Requests, NEW t \in DOMAIN tokens, BeginRefresh(r, t)
      PROVE  [Ledger!Next]_(Ledger!lvars)
  <2>1. UNCHANGED <<now, tokens>> /\ Exchange(reqs[r]) = {} /\ ~Expired(t)
    BY <1>6 DEF BeginRefresh, Exchange, Idle
  <2>2. CASE tokens[t].revoked
    <3>1. PICK next : Goto(r, next) /\ Exchange(next) = {}
      BY <1>6, <2>2 DEF BeginRefresh, Exchange
    <3> QED BY <1>2, <2>1, <3>1
  <2>3. CASE ~tokens[t].revoked
    <3>1. PICK next : Goto(r, next) /\ Exchange(next) = {t}
      BY <1>6, <2>3 DEF BeginRefresh, Exchange
    <3>2. Exchanges' = [Exchanges EXCEPT ![r] = {t}] /\ Exchanges[r] = {}
      BY <1>1, <2>1, <3>1, ExchangeMoves DEF Exchanges
    <3>3. t \in Live
      BY <2>1, <2>3 DEF Live, Usable
    <3>4. Ledger!Begin(r, t)
      BY <2>1, <3>2, <3>3, LedgerStands DEF Ledger!Begin
    <3> QED BY <3>3, <3>4 DEF Ledger!Next
  <2> QED BY <2>2, <2>3
<1>7. ASSUME NEW r \in Requests, RevokeOld(r)
      PROVE  Ledger!Next
  <2>1. PICK t, next : t = reqs[r].token /\ Goto(r, next) /\ Exchange(next) = {t}
    <3>1. Exchange(Save(Issue(reqs[r].token.user, reqs[r].token.claims),
                        tokens[reqs[r].token].login, {reqs[r].token})) = {reqs[r].token}
      BY DEF Exchange, Save
    <3> QED BY <1>7, <3>1 DEF RevokeOld
  <2>2. t \in DOMAIN tokens /\ Exchange(reqs[r]) = {t}
    BY <1>1, <1>7, <2>1, RequestFields DEF RevokeOld, Exchange
  <2>3. Exchanges' = Exchanges
    BY <1>1, <2>1, <2>2, ExchangeMoves
  <2>4. DOMAIN tokens' = DOMAIN tokens
    BY <1>1, <1>7, <2>1, <2>2, RevokeOldKeeps DEF RevokeOld
  <2> QED BY <1>1, <2>3, <2>4, Dying
<1>8. ASSUME NEW r \in Requests, SaveToken(r)
      PROVE  Ledger!Next
  <2>1. CASE reqs[r].token \in DOMAIN tokens
    <3>1. UNCHANGED <<now, tokens>> /\ Goto(r, Idle)
      BY <1>8, <2>1 DEF SaveToken
    <3>2. \A q \in Requests : reqs'[q] = IF q \in {r} THEN Idle ELSE reqs[q]
      BY <1>1, <3>1 DEF Goto, TypeOK
    <3> QED BY <1>3, <3>1, <3>2
  <2>2. CASE reqs[r].token \notin DOMAIN tokens
    BY <1>8, <2>2, SaveRecords
  <2> QED BY <2>1, <2>2
<1>9. ASSUME NEW r \in Requests, RevokeAllAfterReuse(r)
      PROVE  Ledger!Next
  <2>1. DOMAIN tokens' = DOMAIN tokens
    BY <1>1, <1>9, RevokedForKeeps DEF RevokeAllAfterReuse
  <2>2. Exchange(reqs[r]) = {} /\ Exchange(Idle) = {} /\ Goto(r, Idle)
    BY <1>9 DEF RevokeAllAfterReuse, Exchange, Idle
  <2>3. Exchanges' = Exchanges
    BY <1>1, <2>2, ExchangeMoves
  <2> QED BY <1>1, <2>1, <2>3, Dying
<1>10. ASSUME NEW r \in Requests, FailRequest(r)
      PROVE  Ledger!Next
  <2>1. UNCHANGED <<now, tokens>> /\ Goto(r, Idle)
    BY <1>10 DEF FailRequest
  <2>2. \A q \in Requests : reqs'[q] = IF q \in {r} THEN Idle ELSE reqs[q]
    BY <1>1, <2>1 DEF Goto, TypeOK
  <2> QED BY <1>3, <2>1, <2>2
<1>11. CASE Tick \/ \E u \in Users : Logout(u)
  <2>1. Exchanges' = Exchanges /\ DOMAIN tokens' = DOMAIN tokens
    BY <1>1, <1>11, RevokedForKeeps DEF Tick, Logout, Exchanges
  <2> QED BY <1>1, <2>1, Dying
<1>12. CASE Restart
  <2>1. UNCHANGED <<now, tokens>> /\ \A q \in Requests : reqs'[q] = Idle
    BY <1>12 DEF Restart
  <2> QED BY <1>3, <2>1
<1>13. CASE UNCHANGED vars \/ \E u \in Users : SetStanding(u)
  <2>1. UNCHANGED <<now, tokens>> /\ Exchanges' = Exchanges
    BY <1>13 DEF vars, SetStanding, Exchanges
  <2> QED BY <2>1, LedgerStands DEF Ledger!lvars
<1> QED
  BY <1>4, <1>5, <1>6, <1>7, <1>8, <1>9, <1>10, <1>11, <1>12, <1>13 DEF Next

\* Logins, refreshes and logouts, statement by statement and however they overlap, fail
\* and are cut off, do only what the atomic ledger may do: a token comes from a login or
\* from one exchange of a token that is spent, and what is dead stays dead.
THEOREM SessionsImplementLedger == Spec => SessionLedgerSpec
<1>1. Init => Ledger!Init
  BY DEF Init, Ledger!Init, Issued, Live, Exchanges, Exchange, Idle
<1>2. Spec => []HeirsInFlight
  <2>1. Spec => []TypeOK
    BY TypeCorrect
  <2> QED BY <2>1, InitHeirs, HeirsStep, PTL DEF Spec
<1>3. IInv /\ HeirsInFlight /\ [Next]_vars => [Ledger!Next]_(Ledger!lvars)
  BY LedgerStep
<1> QED BY <1>1, <1>2, <1>3, Invariance, PTL DEF Spec, SessionLedgerSpec, Ledger!Spec
=============================================================================
