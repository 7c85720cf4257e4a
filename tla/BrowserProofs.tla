--------------------------- MODULE BrowserProofs ---------------------------
(***************************************************************************)
(* For any browsers, users and number of requests: what Sessions promises  *)
(* holds with browsers in front of it, a session stays in one browser, and *)
(* a browser that waits for its answers neither keeps a token that was     *)
(* exchanged nor loses its cookies but by its own logout.                  *)
(***************************************************************************)
EXTENDS Browser, SessionsProofs

----------------------------------------------------------------------------
(* The browsers only add cookies to what Sessions does *)

LEMMA BrowserStepIsStep == TypeOK /\ [BrowserNext]_browserVars => [Next]_vars
<1> SUFFICES ASSUME TypeOK, [BrowserNext]_browserVars PROVE [Next]_vars
  OBVIOUS
<1>1. ASSUME NEW r \in Requests, NEW b \in Browsers,
             SignIn(b, r) \/ Renew(b, r) \/ SignOut(b, r) \/ StartOAuth(b, r)
      PROVE  [Next]_vars
  <2>1. Owner[b] \in Users
    BY BrowserAssumption DEF BrowserAssumption
  <2>2. CASE SignIn(b, r)
    BY <2>1, <2>2 DEF SignIn, Next
  <2>3. CASE Renew(b, r)
    <3>1. PICK t \in jar[b] : BeginRefresh(r, t)
      BY <2>3 DEF Renew
    <3> QED BY <3>1 DEF BeginRefresh, Next
  <2>4. CASE SignOut(b, r)
    <3>1. PICK t \in jar[b] : Logout(t.user) \/ UNCHANGED vars
      BY <2>4 DEF SignOut
    <3>2. ASSUME Logout(t.user) PROVE t.user \in Users
      BY <3>2 DEF Logout, TypeOK, Token
    <3> QED BY <3>1, <3>2 DEF Next
  <2>5. CASE StartOAuth(b, r)
    BY <2>5 DEF StartOAuth
  <2> QED BY <1>1, <2>2, <2>3, <2>4, <2>5
<1>2. ASSUME NEW r \in Requests, Serve(r) PROVE [Next]_vars
  BY <1>2 DEF Serve, Next
<1>3. ASSUME NEW r \in Requests, Deliver(r) \/ HangUp(r) PROVE [Next]_vars
  BY <1>3 DEF Deliver, HangUp
<1>4. CASE Crash
  BY <1>4 DEF Crash, Next
<1>5. CASE Tick \/ \E u \in Users : SetStanding(u)
  BY <1>5 DEF Next
<1>6. CASE UNCHANGED browserVars
  BY <1>6 DEF browserVars
<1> QED BY <1>1, <1>2, <1>3, <1>4, <1>5, <1>6 DEF BrowserNext

LEMMA SessionsInvariance == BrowserSpec => []IInv
<1>1. BrowserInit => IInv
  BY InitIInv DEF BrowserInit
<1>2. IInv /\ [BrowserNext]_browserVars => IInv'
  BY IInvStep, BrowserStepIsStep DEF IInv
<1> QED BY <1>1, <1>2, PTL DEF BrowserSpec

\* Browsers, tabs, lost answers and crashes only show Sessions behaviours that it has:
\* every step of Browser is a step of Sessions or leaves it as it is.
THEOREM BrowserIsSessions == BrowserSpec => Spec
<1>1. BrowserInit => Init
  BY DEF BrowserInit
<1>2. IInv /\ [BrowserNext]_browserVars => [Next]_vars
  BY BrowserStepIsStep DEF IInv
<1> QED BY <1>1, <1>2, SessionsInvariance, PTL DEF BrowserSpec, Spec

\* What is proved of Sessions holds behind its browsers.
THEOREM SessionsBehindBrowsers ==
  BrowserSpec =>
    /\ []RotationReplaces /\ []HeirsBounded
    /\ SessionStaysOver /\ LapsedClaimsStayLapsed /\ SessionLedgerSpec
  BY BrowserIsSessions, RotationAlwaysReplaces, HeirsStayBounded, OverForGood,
     LapsedForGood, SessionsImplementLedger, PTL

----------------------------------------------------------------------------
(* Connections *)

Open(r) == wire[r] # Nobody

LEMMA WireFields ==
  ASSUME BrowserTypeOK, NEW r \in Requests, Open(r)
  PROVE  /\ wire[r] \in [what: {"login", "refresh", "logout", "oauth"}, browser: Browsers,
                         header: {Keep, Clear} \cup {SetTo(t) : t \in DOMAIN tokens}]
         /\ wire[r].what \in {"login", "refresh", "logout", "oauth"}
         /\ wire[r].browser \in Browsers
         /\ wire[r].header \in {Keep, Clear} \cup {SetTo(t) : t \in DOMAIN tokens}
         /\ r \in OpenFor(wire[r].browser)
<1>1. wire[r] \in Wire
  BY DEF BrowserTypeOK
<1> QED BY <1>1 DEF Wire, OpenFor, Open

LEMMA Headers ==
  /\ Keep.cookies = "keep" /\ Clear.cookies = "clear"
  /\ \A t : SetTo(t).cookies = "set" /\ SetTo(t).token = t
  BY DEF Keep, Clear, SetTo

LEMMA NewWire ==
  ASSUME NEW what \in {"login", "refresh", "logout", "oauth"}, NEW b \in Browsers,
         NEW header \in {Keep, Clear} \cup {SetTo(t) : t \in DOMAIN tokens}
  PROVE  /\ [what |-> what, browser |-> b, header |-> header] \in Wire
         /\ [what |-> what, browser |-> b, header |-> header] # Nobody
<1>1. [what |-> what, browser |-> b, header |-> header].what # Nobody.what
  BY DEF Nobody
<1> QED BY <1>1 DEF Wire

LEMMA WireGrows ==
  ASSUME DOMAIN tokens \subseteq DOMAIN tokens'
  PROVE  Wire \subseteq Wire'
<1> SUFFICES ASSUME NEW w \in Wire PROVE w \in Wire'
  OBVIOUS
<1>1. ASSUME NEW h \in {Keep, Clear} \cup {SetTo(t) : t \in DOMAIN tokens}
      PROVE  h \in ({Keep, Clear} \cup {SetTo(t) : t \in DOMAIN tokens})'
  BY <1>1 DEF Keep, Clear, SetTo
<1> QED BY <1>1 DEF Wire, Nobody

\* What an answer with the new cookies looks like.
LEMMA HeaderSet ==
  ASSUME BrowserTypeOK, NEW r \in Requests, Open(r), NEW h,
         wire' = [wire EXCEPT ![r].header = h]
  PROVE  /\ wire'[r] = [what |-> wire[r].what, browser |-> wire[r].browser, header |-> h]
         /\ \A q \in Requests \ {r} : wire'[q] = wire[q]
         /\ DOMAIN wire' = Requests /\ wire' = [q \in Requests |-> wire'[q]]
<1>1. wire \in [Requests -> Wire]
  BY DEF BrowserTypeOK
<1>2. wire'[r] = [wire[r] EXCEPT !.header = h]
  BY <1>1
<1>3. wire[r] \in [what: {"login", "refresh", "logout", "oauth"}, browser: Browsers,
                   header: {Keep, Clear} \cup {SetTo(t) : t \in DOMAIN tokens}]
  BY WireFields
<1>4. [wire[r] EXCEPT !.header = h]
        = [what |-> wire[r].what, browser |-> wire[r].browser, header |-> h]
  BY <1>3
<1> QED BY <1>1, <1>2, <1>4

----------------------------------------------------------------------------
(* The kinds of step, by what they do to one slot *)

\* Browser b opens the connection of slot r.
Opens(b, r, what, header) ==
  /\ ~Open(r) /\ reqs[r] = Idle
  /\ b \in Patient => OpenFor(b) = {}
  /\ wire'[r] = [what |-> what, browser |-> b, header |-> header] /\ Open(r)'
  /\ \A q \in Requests \ {r} : wire'[q] = wire[q]
  /\ wire' = [q \in Requests |-> wire'[q]]
  /\ jar' = jar

LEMMA SendOpens ==
  ASSUME BrowserTypeOK, NEW b \in Browsers, NEW r \in Requests,
         NEW what \in {"login", "refresh", "logout", "oauth"}, NEW header \in {Keep, Clear},
         Send(b, r, what, header)
  PROVE  Opens(b, r, what, header)
<1>1. wire \in [Requests -> Wire]
  BY DEF BrowserTypeOK
<1>2. b \in Patient => OpenFor(b) = {}
  <2>1. IsFiniteSet(OpenFor(b))
    BY FS_Subset, SessionsAssumption DEF SessionsAssumption, OpenFor
  <2>2. b \in Patient => Cardinality(OpenFor(b)) < 1
    BY DEF Send, MayOpen
  <2>3. b \in Patient => Cardinality(OpenFor(b)) = 0
    BY <2>1, <2>2, FS_CardinalityType
  <2> QED BY <2>1, <2>3, FS_EmptySet
<1>3. [what |-> what, browser |-> b, header |-> header] # Nobody
  BY NewWire
<1> QED BY <1>1, <1>2, <1>3 DEF Send, Opens, Open

\* Slots other than r stay as they are.
Others(r) == \A q \in Requests \ {r} : reqs'[q] = reqs[q]

\* Slot r goes on without its browser noticing.
GoesOn(r) == Others(r) /\ UNCHANGED <<jar, wire>>

SignsIn(b, r) ==
  /\ Opens(b, r, "login", Keep) /\ Others(r)
  /\ reqs'[r].at = "grant" /\ reqs'[r].user = Owner[b]
  /\ UNCHANGED tokens

Renews(b, r, t) ==
  /\ Opens(b, r, "refresh", Keep) /\ Others(r)
  /\ reqs'[r] = [at |-> "revoke", token |-> t] \/ reqs'[r].at = "revokeAll"
  /\ UNCHANGED tokens

SignsOut(b, r) ==
  /\ Opens(b, r, "logout", Clear)
  /\ UNCHANGED reqs /\ DOMAIN tokens' = DOMAIN tokens

GoesToProvider(b, r) ==
  /\ Opens(b, r, "oauth", Clear)
  /\ \A t \in jar[b] : Expired(t)
  /\ UNCHANGED <<reqs, tokens>>

Ends(r) == reqs'[r] = Idle
Issues(r) ==
  /\ reqs[r].at = "grant"
  /\ \E t \in Token : t.user = reqs[r].user /\ reqs'[r] = Save(t, t, {})
Rotates(r) ==
  /\ reqs[r].at = "revoke" /\ reqs[r].token \in DOMAIN tokens
  /\ \E t \in Token : /\ t.user = reqs[r].token.user
                      /\ reqs'[r] = Save(t, tokens[reqs[r].token].login, {reqs[r].token})

Works(r) ==
  /\ reqs[r] # Idle
  /\ GoesOn(r) /\ DOMAIN tokens' = DOMAIN tokens
  /\ Ends(r) \/ Issues(r) \/ Rotates(r)

\* The row is stored; the answer of a browser that still listens sets it.
Stores(r) ==
  LET t == reqs[r].token IN
  /\ reqs[r].at = "save" /\ t \in Token \ DOMAIN tokens
  /\ Others(r) /\ Ends(r) /\ UNCHANGED jar
  /\ DOMAIN tokens' = DOMAIN tokens \cup {t}
  /\ tokens'[t].login = reqs[r].login /\ tokens'[t].from = reqs[r].from
  /\ Open(r) => /\ wire'[r] = [what |-> wire[r].what, browser |-> wire[r].browser,
                               header |-> SetTo(t)]
                /\ Open(r)'
  /\ ~Open(r) => wire'[r] = wire[r]
  /\ \A q \in Requests \ {r} : wire'[q] = wire[q]
  /\ wire' = [q \in Requests |-> wire'[q]]

Stops ==
  /\ UNCHANGED <<jar, tokens>>
  /\ \A q \in Requests : /\ reqs'[q] = Idle
                         /\ wire'[q] = IF reqs[q] = Idle THEN wire[q] ELSE Nobody
  /\ wire' = [q \in Requests |-> wire'[q]]

Rests == UNCHANGED <<jar, wire, reqs, tokens>>

\* A slot that starts to wait for its row is not idle, and so on.
LEMMA NotIdle == \A q : q.at \in {"grant", "save", "revoke", "revokeAll"} => q # Idle
  BY DEF Idle

LEMMA ServeKinds ==
  ASSUME BrowserTypeOK, NEW r \in Requests, Serve(r)
  PROVE  Works(r) \/ Stores(r)
<1> USE DEF Answer
<1>1. TypeOK /\ reqs \in [Requests -> Request] /\ wire \in [Requests -> Wire]
  BY DEF BrowserTypeOK, TypeOK
<1>2. CASE IssueTokens(r) /\ UNCHANGED <<jar, wire>>
  <2> DEFINE t == Issue(reqs[r].user, reqs[r].claims)
  <2>1. Others(r) /\ UNCHANGED <<jar, wire, tokens>> /\ reqs[r].at = "grant"
    BY <1>1, <1>2 DEF IssueTokens, Goto, Others
  <2>2. t \in Token /\ t.user = reqs[r].user
    BY <1>1, <2>1, RequestFields DEF Issue, Token, TypeOK
  <2>3. reqs'[r] = Idle \/ reqs'[r] = Save(t, t, {})
    BY <1>1, <1>2 DEF IssueTokens, Goto
  <2> QED BY <2>1, <2>2, <2>3, NotIdle DEF Works, GoesOn, Ends, Issues
<1>3. CASE RevokeOld(r) /\ UNCHANGED <<jar, wire>>
  <2> DEFINE old == reqs[r].token
             t == Issue(old.user, old.claims)
  <2>1. Others(r) /\ UNCHANGED <<jar, wire>> /\ reqs[r].at = "revoke"
    BY <1>1, <1>3 DEF RevokeOld, Goto, Others
  <2>2. old \in DOMAIN tokens /\ old \in Token
    BY <1>1, <2>1, RequestFields DEF TypeOK
  <2>3. t \in Token /\ t.user = old.user
    BY <1>1, <2>2 DEF Issue, Token, TypeOK
  <2>4. reqs'[r] = Save(t, tokens[old].login, {old}) /\ DOMAIN tokens' = DOMAIN tokens
    BY <1>1, <1>3 DEF RevokeOld, Goto
  <2> QED BY <2>1, <2>2, <2>3, <2>4, NotIdle DEF Works, GoesOn, Rotates
<1>4. CASE (RevokeAllAfterReuse(r) \/ FailRequest(r)) /\ UNCHANGED <<jar, wire>>
  <2>1. Others(r) /\ UNCHANGED <<jar, wire>> /\ reqs'[r] = Idle
    BY <1>1, <1>4 DEF RevokeAllAfterReuse, FailRequest, Goto, Others
  <2>2. DOMAIN tokens' = DOMAIN tokens
    BY <1>1, <1>4, RevokedForKeeps DEF RevokeAllAfterReuse, FailRequest
  <2>3. reqs[r] # Idle
    BY <1>4, NotIdle DEF RevokeAllAfterReuse, FailRequest
  <2> QED BY <2>1, <2>2, <2>3 DEF Works, GoesOn, Ends
<1>5. CASE /\ SaveToken(r) /\ UNCHANGED jar
           /\ wire' = IF wire[r] = Nobody \/ reqs[r].token \in DOMAIN tokens THEN wire
                        ELSE [wire EXCEPT ![r].header = SetTo(reqs[r].token)]
  <2> DEFINE t == reqs[r].token
  <2>1. Others(r) /\ reqs'[r] = Idle /\ reqs[r].at = "save" /\ t \in Token
    BY <1>1, <1>5, RequestFields DEF SaveToken, Goto, Others
  <2>2. CASE t \in DOMAIN tokens
    <3>1. UNCHANGED <<jar, wire, tokens>>
      BY <1>5, <2>2 DEF SaveToken
    <3> QED BY <2>1, <3>1, NotIdle DEF Works, GoesOn, Ends
  <2>3. CASE t \notin DOMAIN tokens
    <3>1. RowsKept /\ DOMAIN tokens' \subseteq DOMAIN tokens \cup {t}
      BY <1>1, <1>5, SaveKeeps
    <3>2. tokens'[t] = [revoked |-> FALSE, login |-> reqs[r].login, from |-> reqs[r].from]
      BY <1>1, <1>5, <2>3, SaveKeeps
    <3>3. DOMAIN tokens' = DOMAIN tokens \cup {t}
      BY <1>5, <2>3 DEF SaveToken
    <3>4. CASE ~Open(r)
      <4>1. wire' = wire
        BY <1>5, <3>4 DEF Open
      <4>2. wire' = [q \in Requests |-> wire'[q]]
        BY <1>1, <4>1
      <4> QED BY <1>5, <2>1, <2>3, <3>2, <3>3, <3>4, <4>1, <4>2 DEF Stores, Ends
    <3>5. CASE Open(r)
      <4>1. wire' = [wire EXCEPT ![r].header = SetTo(t)]
        BY <1>5, <2>3, <3>5 DEF Open
      <4>2. /\ wire'[r] = [what |-> wire[r].what, browser |-> wire[r].browser, header |-> SetTo(t)]
            /\ \A q \in Requests \ {r} : wire'[q] = wire[q]
            /\ wire' = [q \in Requests |-> wire'[q]]
        BY <3>5, <4>1, HeaderSet
      <4>3. wire[r].what # Nobody.what
        BY <3>5, WireFields DEF Nobody
      <4>4. Open(r)'
        BY <4>2, <4>3 DEF Open
      <4> QED BY <1>5, <2>1, <2>3, <3>2, <3>3, <3>5, <4>2, <4>4 DEF Stores, Ends
    <3> QED BY <3>4, <3>5
  <2> QED BY <2>2, <2>3
<1> QED BY <1>2, <1>3, <1>4, <1>5 DEF Serve

\* Every step is of one of these kinds.
LEMMA StepKinds ==
  ASSUME BrowserTypeOK, [BrowserNext]_browserVars
  PROVE  \/ \E r \in Requests, b \in Browsers :
              \/ SignsIn(b, r) \/ SignsOut(b, r) \/ GoesToProvider(b, r)
              \/ \E t \in jar[b] : Renews(b, r, t)
         \/ \E r \in Requests :
              \/ Works(r) \/ Stores(r) \/ HangUp(r)
              \/ Deliver(r) /\ UNCHANGED <<reqs, tokens>>
         \/ Stops \/ Rests
<1> USE DEF Answer
<1>1. TypeOK /\ reqs \in [Requests -> Request] /\ wire \in [Requests -> Wire]
  BY DEF BrowserTypeOK, TypeOK
<1>2. ASSUME NEW r \in Requests, NEW b \in Browsers, SignIn(b, r)
      PROVE  SignsIn(b, r)
  <2>1. Opens(b, r, "login", Keep)
    BY <1>2, SendOpens DEF SignIn
  <2>2. CASE BeginLogin(r, Owner[b])
    BY <1>1, <2>1, <2>2 DEF BeginLogin, Goto, Grant, SignsIn, Others
  <2>3. CASE BeginLoginOTP(r, Owner[b])
    BY <1>1, <2>1, <2>3 DEF BeginLoginOTP, Goto, Grant, SignsIn, Others
  <2> QED BY <1>2, <2>2, <2>3 DEF SignIn
<1>3. ASSUME NEW r \in Requests, NEW b \in Browsers, Renew(b, r)
      PROVE  \E t \in jar[b] : Renews(b, r, t)
  <2>1. Opens(b, r, "refresh", Keep)
    BY <1>3, SendOpens DEF Renew
  <2>2. PICK t \in jar[b] : BeginRefresh(r, t)
    BY <1>3 DEF Renew
  <2>3. UNCHANGED tokens /\ Others(r)
    BY <1>1, <2>2 DEF BeginRefresh, Goto, Others
  <2>4. reqs'[r] = [at |-> "revoke", token |-> t] \/ reqs'[r].at = "revokeAll"
    <3>1. CASE tokens[t].revoked
      BY <1>1, <2>2, <3>1 DEF BeginRefresh, Goto
    <3>2. CASE ~tokens[t].revoked
      BY <1>1, <2>2, <3>2 DEF BeginRefresh, Goto
    <3> QED BY <3>1, <3>2
  <2> QED BY <2>1, <2>2, <2>3, <2>4 DEF Renews
<1>4. ASSUME NEW r \in Requests, NEW b \in Browsers, SignOut(b, r)
      PROVE  SignsOut(b, r)
  <2>1. Opens(b, r, "logout", Clear)
    BY <1>4, SendOpens DEF SignOut
  <2>2. PICK t \in jar[b] : Logout(t.user) \/ UNCHANGED vars
    BY <1>4 DEF SignOut
  <2>3. UNCHANGED reqs /\ DOMAIN tokens' = DOMAIN tokens
    BY <1>1, <2>2, RevokedForKeeps DEF Logout, vars
  <2> QED BY <2>1, <2>3 DEF SignsOut
<1>5. ASSUME NEW r \in Requests, NEW b \in Browsers, StartOAuth(b, r)
      PROVE  GoesToProvider(b, r)
  <2>1. Opens(b, r, "oauth", Clear)
    BY <1>5, SendOpens DEF StartOAuth
  <2> QED BY <1>5, <2>1 DEF StartOAuth, GoesToProvider, vars
<1>6. ASSUME NEW r \in Requests, Deliver(r) PROVE UNCHANGED <<reqs, tokens>>
  BY <1>6 DEF Deliver, vars
<1>7. CASE Crash
  BY <1>1, <1>7 DEF Crash, Restart, Stops
<1>8. CASE (Tick \/ \E u \in Users : SetStanding(u)) /\ UNCHANGED <<jar, wire>>
  BY <1>8 DEF Tick, SetStanding, Rests
<1>9. CASE UNCHANGED browserVars
  BY <1>9 DEF browserVars, vars, Rests
<1> QED
  BY <1>2, <1>3, <1>4, <1>5, <1>6, <1>7, <1>8, <1>9, ServeKinds DEF BrowserNext

----------------------------------------------------------------------------
(* Types *)

\* What a browser asked for is its owner's, and so is what it will be given.
Owned ==
  \A r \in Requests : Open(r) =>
    /\ reqs[r].at = "grant" => reqs[r].user = Owner[wire[r].browser]
    /\ reqs[r].at \in {"revoke", "save"} => reqs[r].token.user = Owner[wire[r].browser]
    /\ wire[r].header.cookies = "set" => wire[r].header.token.user = Owner[wire[r].browser]

\* Cookies are only set by an answer that is ready, and only taken away by a logout or
\* on the way to the provider.
Quiet ==
  \A r \in Requests : Open(r) =>
    /\ reqs[r] # Idle => wire[r].header = Keep
    /\ wire[r].header = Clear => wire[r].what \in {"logout", "oauth"}

Typed == IInv /\ BrowserTypeOK /\ Owned /\ Quiet

LEMMA InitTyped == BrowserInit => Typed
<1> SUFFICES ASSUME BrowserInit PROVE Typed
  OBVIOUS
<1>1. IInv
  BY InitIInv DEF BrowserInit
<1>2. jar \in [Browsers -> SUBSET DOMAIN tokens] /\ wire \in [Requests -> Wire]
  BY DEF BrowserInit, Wire
<1>3. \A r \in Requests : ~Open(r)
  BY DEF BrowserInit, Open
<1> QED
  BY <1>1, <1>2, <1>3 DEF BrowserInit, Typed, IInv, BrowserTypeOK, Owned, Quiet

LEMMA TypedStep == Typed /\ [BrowserNext]_browserVars => Typed'
<1> SUFFICES ASSUME Typed, [BrowserNext]_browserVars
             PROVE  BrowserTypeOK' /\ Owned' /\ Quiet'
  BY BrowserStepIsStep, IInvStep DEF Typed, IInv
<1> USE DEF Typed
<1>1. /\ TypeOK' /\ RowsKept /\ DOMAIN tokens \subseteq DOMAIN tokens'
  BY BrowserStepIsStep, Keeps DEF BrowserTypeOK, RowsKept
<1>2. /\ jar \in [Browsers -> SUBSET DOMAIN tokens]
      /\ \A b \in Browsers : \A s, t \in jar[b] : s = t /\ t.user = Owner[b]
      /\ wire \in [Requests -> Wire] /\ wire \in [Requests -> Wire']
  BY <1>1, WireGrows DEF BrowserTypeOK
<1>3. UNCHANGED jar => /\ jar' \in [Browsers -> SUBSET DOMAIN tokens']
                       /\ \A b \in Browsers : \A s, t \in jar'[b] : s = t /\ t.user = Owner[b]
  BY <1>1, <1>2
\* A connection that is opened.
<1>4. ASSUME NEW b \in Browsers, NEW r \in Requests,
             NEW what \in {"login", "refresh", "logout", "oauth"}, NEW header \in {Keep, Clear},
             Opens(b, r, what, header),
             header = Clear => what \in {"logout", "oauth"},
             Others(r),
             reqs'[r] = Idle \/ header = Keep,
             reqs'[r].at = "grant" => reqs'[r].user = Owner[b],
             reqs'[r].at \in {"revoke", "save"} => reqs'[r].token.user = Owner[b]
      PROVE  BrowserTypeOK' /\ Owned' /\ Quiet'
  <2> DEFINE w == [what |-> what, browser |-> b, header |-> header]
  <2>1. w \in Wire'
    BY <1>1, NewWire, WireGrows
  <2>2. wire' \in [Requests -> Wire'] /\ wire'[r] = w
    BY <1>2, <1>4, <2>1 DEF Opens
  <2>3. header.cookies # "set"
    BY Headers
  <2>4. w.header = header /\ w.what = what /\ w.browser = b
    OBVIOUS
  <2> HIDE DEF w
  <2>5. \A q \in Requests \ {r} : wire'[q] = wire[q] /\ reqs'[q] = reqs[q] /\ Open(q)' = Open(q)
    BY <1>4 DEF Opens, Others, Open
  <2>6. Owned'
    BY <1>4, <2>2, <2>3, <2>4, <2>5 DEF Owned
  <2>7. Quiet'
    BY <1>4, <2>2, <2>4, <2>5 DEF Quiet
  <2> QED BY <1>1, <1>3, <1>4, <2>2, <2>6, <2>7 DEF BrowserTypeOK, Opens
<1>5. ASSUME NEW b \in Browsers, NEW r \in Requests, SignsIn(b, r)
      PROVE  BrowserTypeOK' /\ Owned' /\ Quiet'
  BY <1>4, <1>5, Headers DEF SignsIn
<1>6. ASSUME NEW b \in Browsers, NEW r \in Requests, NEW t \in jar[b], Renews(b, r, t)
      PROVE  BrowserTypeOK' /\ Owned' /\ Quiet'
  <2>1. Opens(b, r, "refresh", Keep) /\ Others(r) /\ Keep # Clear
    BY <1>6, Headers DEF Renews
  <2>2. reqs'[r].at # "grant" /\ (reqs'[r].at \in {"revoke", "save"} => reqs'[r].token = t)
    BY <1>6 DEF Renews
  <2> QED BY <1>2, <1>4, <2>1, <2>2
<1>7. ASSUME NEW b \in Browsers, NEW r \in Requests, SignsOut(b, r) \/ GoesToProvider(b, r)
      PROVE  BrowserTypeOK' /\ Owned' /\ Quiet'
  <2>1. reqs'[r] = Idle /\ Idle.at = "idle" /\ Others(r)
    BY <1>7 DEF SignsOut, GoesToProvider, Opens, Others, Idle
  <2> QED BY <1>4, <1>7, <2>1 DEF SignsOut, GoesToProvider
<1>8. ASSUME NEW r \in Requests, Works(r)
      PROVE  BrowserTypeOK' /\ Owned' /\ Quiet'
  <2>1. BrowserTypeOK'
    BY <1>1, <1>2, <1>3, <1>8 DEF BrowserTypeOK, Works, GoesOn
  <2>2. \A q \in Requests : Open(q)' = Open(q) /\ wire'[q] = wire[q]
    BY <1>8 DEF Open, Works, GoesOn
  <2>3. \A q \in Requests \ {r} : reqs'[q] = reqs[q]
    BY <1>8 DEF Works, GoesOn, Others
  <2>4. Quiet'
    BY <1>8, <2>2, <2>3 DEF Quiet, Works
  <2>5. Open(r) => /\ reqs'[r].at # "grant"
                   /\ reqs'[r].at \in {"revoke", "save"} =>
                        reqs'[r].token.user = Owner[wire[r].browser]
    <3>1. CASE Ends(r)
      BY <3>1 DEF Ends, Idle
    <3>2. CASE Issues(r)
      <4>1. PICK t \in Token : t.user = reqs[r].user /\ reqs'[r] = Save(t, t, {})
        BY <3>2 DEF Issues
      <4>2. reqs'[r].at = "save" /\ reqs'[r].token = t
        BY <4>1 DEF Save
      <4> QED BY <3>2, <4>1, <4>2 DEF Issues, Owned
    <3>3. CASE Rotates(r)
      <4>1. PICK t \in Token : /\ t.user = reqs[r].token.user
                               /\ reqs'[r] = Save(t, tokens[reqs[r].token].login, {reqs[r].token})
        BY <3>3 DEF Rotates
      <4>2. reqs'[r].at = "save" /\ reqs'[r].token = t
        BY <4>1 DEF Save
      <4> QED BY <3>3, <4>1, <4>2 DEF Rotates, Owned
    <3> QED BY <1>8, <3>1, <3>2, <3>3 DEF Works
  <2>6. Owned'
    BY <2>2, <2>3, <2>5 DEF Owned
  <2> QED BY <2>1, <2>4, <2>6
<1>9. ASSUME NEW r \in Requests, Stores(r)
      PROVE  BrowserTypeOK' /\ Owned' /\ Quiet'
  <2> DEFINE t == reqs[r].token
             w == [what |-> wire[r].what, browser |-> wire[r].browser, header |-> SetTo(t)]
  <2>1. t \in DOMAIN tokens' /\ reqs'[r].at = "idle" /\ reqs'[r] = Idle
    BY <1>9 DEF Stores, Ends, Idle
  <2>2. \A q \in Requests \ {r} : wire'[q] = wire[q] /\ reqs'[q] = reqs[q] /\ Open(q)' = Open(q)
    BY <1>9 DEF Stores, Others, Open
  <2>3. CASE ~Open(r)
    <3>1. wire' = wire
      BY <1>2, <1>9, <2>2, <2>3 DEF Stores
    <3>2. BrowserTypeOK'
      BY <1>1, <1>2, <1>3, <1>9, <3>1 DEF BrowserTypeOK, Stores
    <3>3. ~Open(r)'
      BY <2>3, <3>1 DEF Open
    <3> QED BY <2>2, <3>2, <3>3 DEF Owned, Quiet
  <2>4. CASE Open(r)
    <3>1. wire'[r] = w /\ Open(r)'
      BY <1>9, <2>4 DEF Stores
    <3>2. w \in Wire'
      BY <1>1, <2>1, <2>4, WireFields DEF Wire
    <3>3. wire' \in [Requests -> Wire']
      BY <1>2, <1>9, <2>2, <3>1, <3>2 DEF Stores
    <3>4. w.header = SetTo(t) /\ w.what = wire[r].what /\ w.browser = wire[r].browser
      OBVIOUS
    <3>5. t.user = Owner[wire[r].browser]
      BY <1>9, <2>4 DEF Stores, Owned
    <3> HIDE DEF w
    <3>6. SetTo(t) # Clear /\ SetTo(t).token = t
      BY Headers
    <3>7. Owned'
      BY <2>1, <2>2, <3>1, <3>4, <3>5, <3>6 DEF Owned
    <3>8. Quiet'
      BY <2>1, <2>2, <3>1, <3>4, <3>6 DEF Quiet
    <3> QED BY <1>1, <1>3, <1>9, <3>3, <3>7, <3>8 DEF BrowserTypeOK, Stores
  <2> QED BY <2>3, <2>4
<1>10. ASSUME UNCHANGED jar,
              wire' = [q \in Requests |-> wire'[q]],
              \A q \in Requests : /\ reqs'[q] \in {reqs[q], Idle}
                                  /\ wire'[q] \in {wire[q], Nobody}
       PROVE  BrowserTypeOK' /\ Owned' /\ Quiet'
  <2>1. wire' \in [Requests -> Wire']
    BY <1>2, <1>10 DEF Wire
  <2>2. \A q \in Requests : Open(q)' => Open(q) /\ wire'[q] = wire[q]
    BY <1>10 DEF Open
  <2>3. Idle.at = "idle"
    BY DEF Idle
  <2>4. Owned' /\ Quiet'
    BY <1>10, <2>2, <2>3 DEF Owned, Quiet
  <2> QED BY <1>1, <1>3, <1>10, <2>1, <2>4 DEF BrowserTypeOK
<1>11. ASSUME NEW r \in Requests, HangUp(r)
       PROVE  BrowserTypeOK' /\ Owned' /\ Quiet'
  BY <1>2, <1>10, <1>11 DEF HangUp, vars
<1>12. ASSUME NEW r \in Requests, Deliver(r), UNCHANGED <<reqs, tokens>>
       PROVE  BrowserTypeOK' /\ Owned' /\ Quiet'
  <2> DEFINE b == wire[r].browser
             h == wire[r].header
  <2>1. /\ wire' = [wire EXCEPT ![r] = Nobody]
        /\ jar' = [jar EXCEPT ![b] = Applied(h, jar[b])] /\ Open(r)
    BY <1>12 DEF Deliver, Open
  <2>2. b \in Browsers /\ h \in {Keep, Clear} \cup {SetTo(t) : t \in DOMAIN tokens}
    BY <2>1, WireFields
  <2>3. /\ Applied(h, jar[b]) \subseteq DOMAIN tokens
        /\ \A s, t \in Applied(h, jar[b]) : s = t /\ t.user = Owner[b]
    <3>1. CASE h \in {Keep, Clear}
      BY <1>2, <2>2, <3>1, Headers DEF Applied
    <3>2. CASE h \in {SetTo(t) : t \in DOMAIN tokens}
      BY <2>1, <3>2, Headers DEF Applied, Owned
    <3> QED BY <2>2, <3>1, <3>2
  <2>4. /\ jar' \in [Browsers -> SUBSET DOMAIN tokens']
        /\ \A c \in Browsers : \A s, t \in jar'[c] : s = t /\ t.user = Owner[c]
    BY <1>2, <1>12, <2>1, <2>2, <2>3
  <2>5. wire' \in [Requests -> Wire']
    BY <1>2, <2>1 DEF Wire
  <2>6. \A q \in Requests : Open(q)' => Open(q) /\ wire'[q] = wire[q]
    BY <1>2, <2>1 DEF Open
  <2>7. Owned' /\ Quiet'
    BY <1>12, <2>6 DEF Owned, Quiet
  <2> QED BY <1>1, <2>4, <2>5, <2>7 DEF BrowserTypeOK
<1>13. CASE Stops
  BY <1>10, <1>13 DEF Stops
<1>14. CASE Rests
  <2>1. wire' = [q \in Requests |-> wire'[q]]
    BY <1>2, <1>14 DEF Rests
  <2> QED BY <1>10, <1>14, <2>1 DEF Rests
<1> QED
  BY <1>5, <1>6, <1>7, <1>8, <1>9, <1>11, <1>12, <1>13, <1>14, StepKinds

LEMMA TypedInvariance == BrowserSpec => []Typed
  BY InitTyped, TypedStep, PTL DEF BrowserSpec

\* A browser only ever gets tokens that are stored, and those of its own user.
THEOREM BrowserTypeCorrect == BrowserSpec => []BrowserTypeOK
<1>1. Typed => BrowserTypeOK
  BY DEF Typed
<1> QED BY <1>1, TypedInvariance, PTL

----------------------------------------------------------------------------
(* One session, one browser *)

\* The first token of every session is stored, but for the login that is storing it.
Rooted ==
  /\ \A t \in DOMAIN tokens : tokens[t].login \in DOMAIN tokens
  /\ \A r \in Requests : reqs[r].at = "save" =>
       reqs[r].login \in DOMAIN tokens \/ reqs[r].login = reqs[r].token

\* Browser c has a token of the session by way of slot q.
HasBy(q, c, login) ==
  /\ Open(q) /\ wire[q].browser = c
  /\ \/ Continues(q, login)
     \/ wire[q].header.cookies = "set" /\ tokens[wire[q].header.token].login = login

LEMMA HasBySlot ==
  ASSUME NEW c, NEW login
  PROVE  Has(c, login) <=> \/ \E t \in jar[c] : tokens[t].login = login
                           \/ \E q \in Requests : HasBy(q, c, login)
  BY DEF Has, HasBy, OpenFor, Open

LEMMA SlotUntouched ==
  ASSUME Typed, RowsKept, NEW q \in Requests, reqs'[q] \in {reqs[q], Idle},
         wire'[q] \in {wire[q], Nobody}, NEW c, NEW login, HasBy(q, c, login)'
  PROVE  HasBy(q, c, login)
<1>1. TypeOK /\ BrowserTypeOK
  BY DEF Typed, IInv
<1>2. Open(q) /\ wire'[q] = wire[q] /\ wire[q].browser = c
  BY DEF HasBy, Open
<1>3. CASE wire[q].header.cookies = "set" /\ tokens'[wire[q].header.token].login = login
  <2>1. wire[q].header.token \in DOMAIN tokens
    BY <1>1, <1>2, <1>3, WireFields, Headers
  <2> QED BY <1>2, <1>3, <2>1 DEF HasBy, RowsKept
<1>4. CASE Continues(q, login)'
  <2>1. reqs'[q] = reqs[q] /\ (reqs[q].at = "revoke" => reqs[q].token \in DOMAIN tokens)
    BY <1>1, <1>4, RequestFields DEF Continues, Idle
  <2> QED BY <1>2, <1>4, <2>1 DEF HasBy, Continues, RowsKept
<1> QED BY <1>2, <1>3, <1>4 DEF HasBy

LEMMA RootedStep == Typed /\ Rooted /\ [BrowserNext]_browserVars => Rooted'
<1> SUFFICES ASSUME Typed, Rooted, [BrowserNext]_browserVars PROVE Rooted'
  OBVIOUS
<1>1. TypeOK /\ RowsKept /\ BrowserTypeOK
  BY BrowserStepIsStep, Keeps DEF Typed, IInv
<1>2. ASSUME DOMAIN tokens' = DOMAIN tokens,
             \A q \in Requests : \/ reqs'[q] = reqs[q] \/ reqs'[q].at # "save"
                                 \/ reqs'[q].login \in DOMAIN tokens
                                 \/ reqs'[q].login = reqs'[q].token
      PROVE  Rooted'
  BY <1>1, <1>2 DEF Rooted, RowsKept
<1>3. ASSUME NEW b \in Browsers, NEW r \in Requests,
             \/ SignsIn(b, r) \/ SignsOut(b, r) \/ GoesToProvider(b, r)
             \/ \E t \in jar[b] : Renews(b, r, t)
      PROVE  Rooted'
  <2>1. DOMAIN tokens' = DOMAIN tokens /\ \A q \in Requests \ {r} : reqs'[q] = reqs[q]
    BY <1>3 DEF SignsIn, SignsOut, GoesToProvider, Renews, Others
  <2>2. reqs'[r] = reqs[r] \/ reqs'[r].at # "save"
    <3>1. CASE \E t \in jar[b] : Renews(b, r, t)
      BY <3>1 DEF Renews
    <3>2. CASE SignsIn(b, r) \/ SignsOut(b, r) \/ GoesToProvider(b, r)
      BY <3>2 DEF SignsIn, SignsOut, GoesToProvider
    <3> QED BY <1>3, <3>1, <3>2
  <2> QED BY <1>2, <2>1, <2>2
<1>4. ASSUME NEW r \in Requests, Works(r) PROVE Rooted'
  <2>1. \/ reqs'[r].at # "save" \/ reqs'[r].login \in DOMAIN tokens
        \/ reqs'[r].login = reqs'[r].token
    <3>1. CASE Ends(r)
      BY <3>1 DEF Ends, Idle
    <3>2. CASE Issues(r)
      BY <3>2 DEF Issues, Save
    <3>3. CASE Rotates(r)
      BY <3>3 DEF Rotates, Save, Rooted
    <3> QED BY <1>4, <3>1, <3>2, <3>3 DEF Works
  <2> QED BY <1>2, <1>4, <2>1 DEF Works, GoesOn, Others
<1>5. ASSUME NEW r \in Requests, Stores(r) PROVE Rooted'
  <2> DEFINE t == reqs[r].token
  <2>1. /\ DOMAIN tokens' = DOMAIN tokens \cup {t}
        /\ tokens'[t].login = reqs[r].login /\ reqs[r].at = "save"
        /\ reqs'[r].at # "save" /\ \A q \in Requests \ {r} : reqs'[q] = reqs[q]
    BY <1>5 DEF Stores, Ends, Idle, Others
  <2>2. reqs[r].login \in DOMAIN tokens'
    BY <2>1 DEF Rooted
  <2>3. \A s \in DOMAIN tokens : tokens'[s].login \in DOMAIN tokens
    BY <1>1 DEF Rooted, RowsKept
  <2> QED BY <2>1, <2>2, <2>3 DEF Rooted
<1>6. ASSUME NEW r \in Requests, HangUp(r) \/ (Deliver(r) /\ UNCHANGED <<reqs, tokens>>)
      PROVE  Rooted'
  BY <1>2, <1>6 DEF HangUp, vars
<1>7. CASE Stops \/ Rests
  BY <1>2, <1>7 DEF Stops, Rests, Idle
<1> QED BY <1>1, <1>3, <1>4, <1>5, <1>6, <1>7, StepKinds

\* No browser comes to have an older session.
NoneGained ==
  \A c \in Browsers, login \in DOMAIN tokens : Has(c, login)' => Has(c, login)

LEMMA StoredBySlot ==
  ASSUME NEW r \in Requests, Stores(r), NEW c, NEW login, HasBy(r, c, login)'
  PROVE  Open(r) /\ c = wire[r].browser /\ reqs[r].login = login
<1>1. tokens'[reqs[r].token].login = reqs[r].login /\ reqs'[r].at = "idle"
  BY DEF Stores, Ends, Idle
<1>2. Open(r)
  BY DEF HasBy, Stores, Open
<1>3. wire'[r].browser = wire[r].browser /\ wire'[r].header = SetTo(reqs[r].token)
  BY <1>2 DEF Stores
<1> QED BY <1>1, <1>2, <1>3, Headers DEF HasBy, Continues

LEMMA HasBefore ==
  ASSUME Typed, Rooted, [BrowserNext]_browserVars
  PROVE  NoneGained
<1>1. /\ TypeOK /\ RowsKept /\ BrowserTypeOK
      /\ jar \in [Browsers -> SUBSET DOMAIN tokens] /\ wire \in [Requests -> Wire]
  BY BrowserStepIsStep, Keeps DEF Typed, IInv, BrowserTypeOK
<1>2. ASSUME NEW c \in Browsers, NEW login, NEW t \in jar[c], tokens'[t].login = login
      PROVE  Has(c, login)
  BY <1>1, <1>2, HasBySlot DEF RowsKept
\* One slot is touched and no cookie.
<1>3. ASSUME NEW r \in Requests, UNCHANGED jar,
             \A q \in Requests \ {r} :
               reqs'[q] \in {reqs[q], Idle} /\ wire'[q] \in {wire[q], Nobody},
             NEW c \in Browsers, NEW login, Has(c, login)',
             HasBy(r, c, login)' => Has(c, login)
      PROVE  Has(c, login)
  <2>1. \/ \E t \in jar'[c] : tokens'[t].login = login
        \/ \E q \in Requests : HasBy(q, c, login)'
    BY <1>3, HasBySlot DEF Has, HasBy, OpenFor, Open
  <2>2. ASSUME NEW q \in Requests \ {r}, HasBy(q, c, login)' PROVE Has(c, login)
    BY <1>1, <1>3, <2>2, SlotUntouched, HasBySlot
  <2> QED BY <1>2, <1>3, <2>1, <2>2
<1>4. ASSUME NEW b \in Browsers, NEW r \in Requests,
             \/ SignsIn(b, r) \/ SignsOut(b, r) \/ GoesToProvider(b, r)
             \/ \E t \in jar[b] : Renews(b, r, t)
      PROVE  NoneGained
  <2>1. /\ DOMAIN tokens' = DOMAIN tokens /\ UNCHANGED jar
        /\ \A q \in Requests \ {r} : reqs'[q] = reqs[q] /\ wire'[q] = wire[q]
        /\ wire'[r].browser = b /\ wire'[r].header.cookies # "set"
    <3>1. \E what \in {"login", "refresh", "logout", "oauth"} :
            \E header \in {Keep, Clear} : Opens(b, r, what, header)
      BY <1>4 DEF SignsIn, SignsOut, GoesToProvider, Renews
    <3>2. /\ UNCHANGED jar /\ wire'[r].browser = b /\ wire'[r].header \in {Keep, Clear}
          /\ \A q \in Requests \ {r} : wire'[q] = wire[q]
      BY <3>1 DEF Opens
    <3> QED BY <1>4, <3>2, Headers DEF SignsIn, SignsOut, GoesToProvider, Renews, Others
  <2>2. ASSUME NEW c \in Browsers, NEW login, HasBy(r, c, login)'
        PROVE  Has(c, login)
    <3>1. c = b /\ Continues(r, login)'
      BY <2>1, <2>2 DEF HasBy
    <3>2. CASE \E t \in jar[b] : Renews(b, r, t)
      <4>1. PICK t \in jar[b] : Renews(b, r, t)
        BY <3>2
      <4>2. reqs'[r] = [at |-> "revoke", token |-> t] /\ tokens'[t].login = login
        BY <3>1, <4>1 DEF Renews, Continues
      <4> QED BY <1>2, <3>1, <4>2
    <3>3. CASE SignsIn(b, r)
      BY <3>1, <3>3 DEF SignsIn, Continues
    <3>4. CASE SignsOut(b, r) \/ GoesToProvider(b, r)
      BY <3>1, <3>4 DEF SignsOut, GoesToProvider, Opens, Continues, Idle
    <3> QED BY <1>4, <3>2, <3>3, <3>4
  <2> QED BY <1>3, <2>1, <2>2 DEF NoneGained
<1>5. ASSUME NEW r \in Requests, Works(r)
      PROVE  NoneGained
  <2>1. ASSUME NEW c \in Browsers, NEW login \in DOMAIN tokens, HasBy(r, c, login)'
        PROVE  Has(c, login)
    <3>1. Open(r) /\ wire[r].browser = c /\ wire[r].header = Keep /\ wire'[r] = wire[r]
      BY <1>5, <2>1 DEF HasBy, Open, Works, GoesOn, Typed, Quiet
    <3>2. Continues(r, login)'
      BY <2>1, <3>1, Headers DEF HasBy
    <3>3. Continues(r, login)
      <4>1. CASE Ends(r)
        BY <3>2, <4>1 DEF Ends, Idle, Continues
      <4>2. CASE Issues(r)
        BY <1>5, <3>2, <4>2 DEF Works, Issues, Save, Continues
      <4>3. CASE Rotates(r)
        BY <3>2, <4>3 DEF Rotates, Save, Continues
      <4> QED BY <1>5, <4>1, <4>2, <4>3 DEF Works
    <3> QED BY <3>1, <3>3, HasBySlot DEF HasBy
  <2> QED BY <1>3, <1>5, <2>1 DEF Works, GoesOn, Others, NoneGained
<1>6. ASSUME NEW r \in Requests, Stores(r)
      PROVE  NoneGained
  <2> PICK t : t = reqs[r].token
    OBVIOUS
  <2>1. /\ UNCHANGED jar /\ DOMAIN tokens' = DOMAIN tokens \cup {t} /\ t \notin DOMAIN tokens
        /\ \A q \in Requests \ {r} : reqs'[q] = reqs[q] /\ wire'[q] = wire[q]
        /\ reqs[r].at = "save" /\ reqs'[r].at = "idle" /\ tokens'[t].login = reqs[r].login
    BY <1>6 DEF Stores, Others, Ends, Idle
  <2>2. ASSUME NEW c \in Browsers, NEW login \in DOMAIN tokens, Has(c, login)'
        PROVE  Has(c, login)
    <3>1. HasBy(r, c, login)' => Has(c, login)
      BY <1>6, <2>1, StoredBySlot, HasBySlot DEF HasBy, Continues
    <3> QED BY <1>3, <2>1, <2>2, <3>1
  <2> QED BY <2>2 DEF NoneGained
<1>7. ASSUME NEW r \in Requests, HangUp(r)
      PROVE  NoneGained
  <2>1. /\ UNCHANGED <<jar, reqs, tokens>>
        /\ \A q \in Requests : wire'[q] \in {wire[q], Nobody}
    BY <1>1, <1>7 DEF HangUp, vars
  <2> QED BY <1>1, <1>3, <2>1, SlotUntouched, HasBySlot DEF NoneGained
<1>8. ASSUME NEW r \in Requests, Deliver(r), UNCHANGED <<reqs, tokens>>
      PROVE  NoneGained
  <2> DEFINE d == wire[r].browser
             h == wire[r].header
  <2>1. /\ \A q \in Requests : wire'[q] \in {wire[q], Nobody}
        /\ jar' = [jar EXCEPT ![d] = Applied(h, jar[d])] /\ Open(r)
    BY <1>1, <1>8 DEF Deliver, Open
  <2>2. ASSUME NEW c \in Browsers, NEW login \in DOMAIN tokens, NEW t \in jar'[c],
               tokens'[t].login = login
        PROVE  Has(c, login)
    <3>1. CASE t \in jar[c]
      BY <1>2, <2>2, <3>1
    <3>2. CASE t \notin jar[c]
      <4>1. c = d /\ t \in Applied(h, jar[d])
        BY <1>1, <2>1, <2>2, <3>2
      <4>2. h = SetTo(t)
        <5>1. h \in {Keep, Clear} \cup {SetTo(s) : s \in DOMAIN tokens}
          BY <1>1, <2>1, WireFields
        <5> QED BY <3>2, <4>1, <5>1, Headers DEF Applied
      <4>3. HasBy(r, c, login)
        BY <1>8, <2>1, <2>2, <4>1, <4>2, Headers DEF HasBy
      <4> QED BY <4>3, HasBySlot
    <3> QED BY <3>1, <3>2
  <2>3. ASSUME NEW c \in Browsers, NEW login \in DOMAIN tokens, Has(c, login)'
        PROVE  Has(c, login)
    <3>1. \/ \E t \in jar'[c] : tokens'[t].login = login
          \/ \E q \in Requests : HasBy(q, c, login)'
      BY <2>3, HasBySlot DEF Has, HasBy, OpenFor, Open
    <3>2. ASSUME NEW q \in Requests, HasBy(q, c, login)' PROVE Has(c, login)
      BY <1>1, <1>8, <2>1, <3>2, SlotUntouched, HasBySlot
    <3> QED BY <2>2, <3>1, <3>2
  <2> QED BY <1>8, <2>3 DEF NoneGained
<1>9. CASE Stops \/ Rests
  <2>1. /\ UNCHANGED <<jar, tokens>>
        /\ \A q \in Requests : reqs'[q] \in {reqs[q], Idle} /\ wire'[q] \in {wire[q], Nobody}
    BY <1>9 DEF Stops, Rests
  <2>2. ASSUME NEW c \in Browsers, NEW login, Has(c, login)'
        PROVE  Has(c, login)
    <3>1. \/ \E t \in jar'[c] : tokens'[t].login = login
          \/ \E q \in Requests : HasBy(q, c, login)'
      BY <2>2, HasBySlot DEF Has, HasBy, OpenFor, Open
    <3>2. ASSUME NEW q \in Requests, HasBy(q, c, login)' PROVE Has(c, login)
      BY <1>1, <2>1, <3>2, SlotUntouched, HasBySlot
    <3> QED BY <1>2, <2>1, <3>1, <3>2
  <2> QED BY <2>1, <2>2 DEF NoneGained
<1> QED BY <1>4, <1>5, <1>6, <1>7, <1>8, <1>9, <1>1, StepKinds

LEMMA StaysStep ==
  ASSUME Typed, Rooted, SessionStaysInBrowser, [BrowserNext]_browserVars
  PROVE  SessionStaysInBrowser'
<1>1. /\ TypeOK /\ RowsKept /\ BrowserTypeOK
      /\ jar \in [Browsers -> SUBSET DOMAIN tokens] /\ wire \in [Requests -> Wire]
  BY BrowserStepIsStep, Keeps DEF Typed, IInv, BrowserTypeOK
<1>2. NoneGained
  BY HasBefore
<1>3. CASE DOMAIN tokens' = DOMAIN tokens
  BY <1>2, <1>3 DEF NoneGained, SessionStaysInBrowser
<1>4. ASSUME NEW r \in Requests, Stores(r)
      PROVE  SessionStaysInBrowser'
  <2> PICK t, d : t = reqs[r].token /\ d = wire[r].browser
    OBVIOUS
  <2>1. /\ UNCHANGED jar /\ DOMAIN tokens' = DOMAIN tokens \cup {t} /\ t \notin DOMAIN tokens
        /\ \A q \in Requests \ {r} : reqs'[q] = reqs[q] /\ wire'[q] = wire[q]
        /\ reqs[r].at = "save" /\ reqs'[r].at = "idle" /\ tokens'[t].login = reqs[r].login
    BY <1>4 DEF Stores, Others, Ends, Idle
\* The session that this row begins: only its own browser has it.
  <2>2. ASSUME NEW c \in Browsers, Has(c, t)'
        PROVE  c = d
    <3>1. ASSUME NEW s \in jar'[c] PROVE tokens'[s].login # t
      BY <1>1, <2>1, <3>1 DEF RowsKept, Rooted
    <3>2. ASSUME NEW q \in Requests \ {r} PROVE ~HasBy(q, c, t)'
      <4>1. SUFFICES ASSUME HasBy(q, c, t)' PROVE FALSE
        OBVIOUS
      <4>2. HasBy(q, c, t)
        BY <1>1, <2>1, <4>1, SlotUntouched
      <4>3. CASE wire[q].header.cookies = "set" /\ tokens[wire[q].header.token].login = t
        <5>1. wire[q].header.token \in DOMAIN tokens
          BY <1>1, <4>2, <4>3, WireFields, Headers DEF HasBy
        <5> QED BY <2>1, <4>3, <5>1 DEF Rooted
      <4>4. CASE Continues(q, t)' /\ reqs[q].at = "revoke"
        <5>1. reqs[q].token \in DOMAIN tokens
          BY <1>1, <4>4, RequestFields
        <5> QED BY <1>1, <2>1, <4>4, <5>1 DEF Continues, Rooted, RowsKept
      <4>5. CASE Continues(q, t)' /\ reqs[q].at = "save"
        BY <2>1, <4>5 DEF Continues, Rooted
      <4>6. wire'[q] = wire[q] /\ reqs'[q] = reqs[q]
        BY <2>1
      <4>7. CASE Continues(q, t)'
        BY <4>4, <4>5, <4>6, <4>7 DEF Continues
      <4>8. CASE wire[q].header.cookies = "set" /\ tokens'[wire[q].header.token].login = t
        <5>1. wire[q].header.token \in DOMAIN tokens
          BY <1>1, <4>2, <4>8, WireFields, Headers DEF HasBy
        <5> QED BY <1>1, <2>1, <4>8, <5>1 DEF Rooted, RowsKept
      <4> QED BY <4>1, <4>6, <4>7, <4>8 DEF HasBy
    <3>3. \/ \E s \in jar'[c] : tokens'[s].login = t
          \/ \E q \in Requests : HasBy(q, c, t)'
      BY <2>2, HasBySlot DEF Has, HasBy, OpenFor, Open
    <3> QED BY <1>4, <3>1, <3>2, <3>3, StoredBySlot
  <2> SUFFICES ASSUME NEW login \in DOMAIN tokens', NEW b \in Browsers, NEW c \in Browsers,
                      Has(b, login)', Has(c, login)'
               PROVE  b = c
    BY DEF SessionStaysInBrowser
  <2>3. CASE login \in DOMAIN tokens
    BY <1>2, <2>3 DEF NoneGained, SessionStaysInBrowser
  <2>4. CASE login = t
    BY <2>2, <2>4
  <2> QED BY <2>1, <2>3, <2>4
<1> QED BY <1>1, <1>3, <1>4, StepKinds
    DEF SignsIn, SignsOut, GoesToProvider, Renews, Works, HangUp, vars, Stops, Rests

----------------------------------------------------------------------------
(* Browsers that wait for their answers *)

\* Slot q is about to exchange token t.
On(q, t) ==
  \/ reqs[q].at = "revoke" /\ reqs[q].token = t
  \/ reqs[q].at = "save" /\ t \in reqs[q].from
Exchanged(t) == \E s \in DOMAIN tokens : t \in tokens[s].from
Sets(q, t) == Open(q) /\ wire[q].header = SetTo(t)

OneOpen == \A b \in Patient : \A q, r \in OpenFor(b) : q = r
LapsedOnItsWay ==
  \A b \in Patient : \A r \in OpenFor(b) :
    wire[r].what = "oauth" => \A t \in jar[b] : Expired(t)
\* A token that is on its way to its browser is not used yet, its browser alone uses the
\* one it has, and the answer that replaces it is there when it is exchanged.
FreshAnswer ==
  \A b \in Patient : \A q \in OpenFor(b) : \A t \in DOMAIN tokens :
    Sets(q, t) => ~Exchanged(t) /\ \A r \in Requests : ~On(r, t)
OwnUse ==
  \A b \in Patient : \A t \in jar[b], q \in Requests : On(q, t) => q \in OpenFor(b)
Replaced ==
  \A b \in Patient : \A t \in jar[b] :
    Exchanged(t) => \E r \in OpenFor(b) : \E x \in DOMAIN tokens : Sets(r, x)

Calm == OneOpen /\ LapsedOnItsWay /\ FreshAnswer /\ OwnUse /\ Replaced
BInv == Typed /\ Rooted /\ SessionStaysInBrowser /\ Calm

LEMMA ExpiredStays ==
  ASSUME TypeOK, [Next]_vars, NEW t \in DOMAIN tokens, Expired(t)
  PROVE  Expired(t)'
<1>1. now \in Nat /\ now' \in Nat /\ now' >= now /\ t.second \in Nat /\ RefreshTTL \in Nat
  BY ClockGoesOn, SessionsAssumption DEF TypeOK, Token, SessionsAssumption
<1> QED BY <1>1 DEF Expired

LEMMA OnStored ==
  ASSUME TypeOK, NEW q \in Requests, NEW t, On(q, t)
  PROVE  t \in DOMAIN tokens /\ reqs[q] # Idle
  BY RequestFields, NotIdle DEF On

\* Connections only close, or one that had no answer gets none; cookies stay.
LEMMA CalmShrinks ==
  ASSUME BInv, [BrowserNext]_browserVars, UNCHANGED jar, DOMAIN tokens' = DOMAIN tokens,
         \A q \in Requests : wire'[q] \in {wire[q], Nobody},
         \A q \in Requests : \A t : On(q, t)' => On(q, t),
         \A q \in Requests : wire'[q] # wire[q] =>
           wire[q].browser \notin Patient \/ (reqs[q] # Idle /\ \A t : ~On(q, t)')
  PROVE  Calm'
<1>1. TypeOK /\ RowsKept /\ BrowserTypeOK /\ Calm /\ Quiet /\ [Next]_vars
  BY BrowserStepIsStep, Keeps DEF BInv, Typed, IInv
<1>2. ASSUME NEW b, NEW q \in OpenFor(b)' PROVE q \in OpenFor(b) /\ wire'[q] = wire[q]
  BY <1>2 DEF OpenFor
<1>3. \A t : Exchanged(t)' => Exchanged(t)
  BY <1>1 DEF Exchanged, RowsKept
<1>4. \A b \in Patient : jar[b] \subseteq DOMAIN tokens
  BY <1>1, BrowserAssumption DEF BrowserTypeOK, BrowserAssumption
<1>5. OneOpen'
  BY <1>1, <1>2 DEF Calm, OneOpen
<1>6. LapsedOnItsWay'
  BY <1>1, <1>2, <1>4, ExpiredStays DEF Calm, LapsedOnItsWay
<1>7. FreshAnswer'
  BY <1>1, <1>2, <1>3 DEF Calm, FreshAnswer, Sets, Open
<1>8. OwnUse'
  <2> SUFFICES ASSUME NEW b \in Patient, NEW t \in jar[b], NEW q \in Requests, On(q, t)'
               PROVE  q \in OpenFor(b)'
    BY DEF OwnUse
  <2>1. q \in OpenFor(b)
    BY <1>1 DEF Calm, OwnUse
  <2>2. wire'[q] = wire[q]
    BY <2>1 DEF OpenFor
  <2> QED BY <2>1, <2>2 DEF OpenFor
<1>9. Replaced'
  <2> SUFFICES ASSUME NEW b \in Patient, NEW t \in jar[b], Exchanged(t)'
               PROVE  \E r \in OpenFor(b)' : \E x \in DOMAIN tokens' : Sets(r, x)'
    BY DEF Replaced
  <2>1. PICK r \in OpenFor(b), x \in DOMAIN tokens : Sets(r, x)
    BY <1>1, <1>3 DEF Calm, Replaced
  <2>2. reqs[r] = Idle
    BY <1>1, <2>1, Headers DEF Sets, Quiet, OpenFor, Open
  <2>3. wire'[r] = wire[r]
    BY <2>1, <2>2 DEF OpenFor
  <2>4. r \in OpenFor(b)' /\ Sets(r, x)'
    BY <2>1, <2>3 DEF OpenFor, Sets, Open
  <2> QED BY <2>4
<1> QED BY <1>5, <1>6, <1>7, <1>8, <1>9 DEF Calm

\* Browser b opens a connection; what it asks for, if anything, is its own token.
LEMMA CalmOpens ==
  ASSUME BInv, [BrowserNext]_browserVars, DOMAIN tokens' = DOMAIN tokens,
         NEW b \in Browsers, NEW r \in Requests, Others(r),
         NEW what, NEW header \in {Keep, Clear}, Opens(b, r, what, header),
         what = "oauth" => \A t \in jar[b] : Expired(t),
         \A t : On(r, t)' => t \in jar[b]
  PROVE  Calm'
<1>1. /\ TypeOK /\ RowsKept /\ BrowserTypeOK /\ Calm /\ Rooted /\ SessionStaysInBrowser
      /\ [Next]_vars
  BY BrowserStepIsStep, Keeps DEF BInv, Typed, IInv
<1>2. /\ ~Open(r) /\ wire'[r].what = what /\ wire'[r].browser = b /\ Open(r)' /\ UNCHANGED jar
      /\ \A t : ~Sets(r, t)'
      /\ b \in Patient => OpenFor(b) = {}
      /\ \A q \in Requests \ {r} : wire'[q] = wire[q] /\ reqs'[q] = reqs[q]
  BY Headers DEF Opens, Others, Sets
<1>3. ASSUME NEW c, NEW q \in Requests \ {r}
      PROVE  /\ q \in OpenFor(c)' <=> q \in OpenFor(c)
             /\ \A t : Sets(q, t)' <=> Sets(q, t)
             /\ \A t : On(q, t)' <=> On(q, t)
  BY <1>2, <1>3 DEF OpenFor, Sets, Open, On
<1>4. /\ r \in OpenFor(b)' /\ \A c : r \in OpenFor(c)' => c = b
      /\ \A c : r \notin OpenFor(c)
      /\ \A c : OpenFor(c) \subseteq Requests /\ OpenFor(c)' \subseteq Requests
  BY <1>2 DEF OpenFor, Open
<1>5. \A t : Exchanged(t)' <=> Exchanged(t)
  BY <1>1 DEF Exchanged, RowsKept
<1>6. \A c \in Patient : c \in Browsers /\ jar[c] \subseteq DOMAIN tokens
  BY <1>1, BrowserAssumption DEF BrowserTypeOK, BrowserAssumption
<1>7. OneOpen'
  BY <1>1, <1>2, <1>3, <1>4 DEF Calm, OneOpen
<1>8. LapsedOnItsWay'
  <2> SUFFICES ASSUME NEW c \in Patient, NEW q \in OpenFor(c)', wire'[q].what = "oauth",
                      NEW t \in jar[c]
               PROVE  Expired(t)'
    BY <1>2 DEF LapsedOnItsWay
  <2>1. Expired(t)
    BY <1>1, <1>2, <1>3, <1>4 DEF Calm, LapsedOnItsWay
  <2> QED BY <1>1, <1>6, <2>1, ExpiredStays
<1>9. FreshAnswer'
  <2> SUFFICES ASSUME NEW c \in Patient, NEW q \in OpenFor(c)', NEW t \in DOMAIN tokens,
                      Sets(q, t)'
               PROVE  ~Exchanged(t) /\ \A p \in Requests : ~On(p, t)'
    BY <1>5 DEF FreshAnswer
  <2>1. q # r /\ q \in OpenFor(c) /\ Sets(q, t)
    BY <1>2, <1>3, <1>4
  <2>2. ~Exchanged(t) /\ \A p \in Requests : ~On(p, t)
    BY <1>1, <2>1 DEF Calm, FreshAnswer
  <2>3. ASSUME On(r, t)' PROVE FALSE
    <3>1. t \in jar[b]
      BY <2>3
    <3>2. Has(b, tokens[t].login)
      BY <3>1 DEF Has
    <3>3. Has(c, tokens[t].login)
      BY <2>1, Headers DEF Has, Sets
    <3>4. b = c
      BY <1>1, <1>6, <3>2, <3>3 DEF Rooted, SessionStaysInBrowser
    <3> QED BY <1>2, <2>1, <3>4
  <2> QED BY <1>3, <2>2, <2>3
<1>10. OwnUse'
  <2> SUFFICES ASSUME NEW c \in Patient, NEW t \in jar[c], NEW q \in Requests, On(q, t)'
               PROVE  q \in OpenFor(c)'
    BY <1>2 DEF OwnUse
  <2>1. CASE q # r
    BY <1>1, <1>3, <2>1 DEF Calm, OwnUse
  <2>2. CASE q = r
    <3>1. Has(b, tokens[t].login) /\ Has(c, tokens[t].login)
      BY <2>2 DEF Has
    <3>2. t \in DOMAIN tokens
      BY <1>6
    <3>3. b = c
      BY <1>1, <1>6, <3>1, <3>2 DEF Rooted, SessionStaysInBrowser
    <3> QED BY <1>4, <2>2, <3>3
  <2> QED BY <2>1, <2>2
<1>11. Replaced'
  <2> SUFFICES ASSUME NEW c \in Patient, NEW t \in jar[c], Exchanged(t)
               PROVE  \E q \in OpenFor(c)' : \E x \in DOMAIN tokens : Sets(q, x)'
    BY <1>2, <1>5 DEF Replaced
  <2>1. PICK q \in OpenFor(c), x \in DOMAIN tokens : Sets(q, x)
    BY <1>1 DEF Calm, Replaced
  <2> QED BY <1>3, <1>4, <2>1
<1> QED BY <1>7, <1>8, <1>9, <1>10, <1>11 DEF Calm

LEMMA CalmStores ==
  ASSUME BInv, [BrowserNext]_browserVars, NEW r \in Requests, Stores(r)
  PROVE  Calm'
<1>1. /\ TypeOK /\ RowsKept /\ BrowserTypeOK /\ Calm /\ Quiet /\ [Next]_vars
  BY BrowserStepIsStep, Keeps DEF BInv, Typed, IInv
<1> PICK t : t = reqs[r].token
  OBVIOUS
<1>2. /\ UNCHANGED jar /\ DOMAIN tokens' = DOMAIN tokens \cup {t} /\ t \notin DOMAIN tokens
      /\ \A q \in Requests \ {r} : wire'[q] = wire[q] /\ reqs'[q] = reqs[q]
      /\ reqs[r].at = "save" /\ reqs'[r].at = "idle" /\ reqs[r] # Idle
      /\ tokens'[t].from = reqs[r].from
  BY NotIdle DEF Stores, Others, Ends, Idle
<1>3. ASSUME NEW q \in Requests \ {r}
      PROVE  /\ \A c : q \in OpenFor(c)' <=> q \in OpenFor(c)
             /\ \A x : Sets(q, x)' <=> Sets(q, x)
             /\ \A x : On(q, x)' <=> On(q, x)
  BY <1>2, <1>3 DEF OpenFor, Sets, Open, On
<1>4. /\ \A c : r \in OpenFor(c)' <=> r \in OpenFor(c)
      /\ \A c : OpenFor(c) \subseteq Requests /\ OpenFor(c)' \subseteq Requests
      /\ Open(r) => wire'[r].what = wire[r].what /\ wire'[r].header = SetTo(t) /\ Open(r)'
      /\ \A c : ~On(r, c)' /\ ~Sets(r, c)
  <2>1. Open(r) => /\ wire'[r].what = wire[r].what /\ wire'[r].browser = wire[r].browser
                   /\ wire'[r].header = SetTo(t) /\ Open(r)'
    BY DEF Stores
  <2>2. ~Open(r) => ~Open(r)'
    BY DEF Stores, Open
  <2>3. \A c : ~Sets(r, c)
    BY <1>1, <1>2, Headers DEF Sets, Quiet
  <2> QED BY <1>2, <2>1, <2>2, <2>3 DEF OpenFor, Open, On
<1>5. \A x : Exchanged(x)' => Exchanged(x) \/ On(r, x)
  BY <1>1, <1>2 DEF Exchanged, On, RowsKept
<1>6. \A c \in Patient : c \in Browsers /\ jar[c] \subseteq DOMAIN tokens
  BY <1>1, BrowserAssumption DEF BrowserTypeOK, BrowserAssumption
<1>7. OneOpen'
  BY <1>1, <1>3, <1>4 DEF Calm, OneOpen
<1>8. LapsedOnItsWay'
  <2> SUFFICES ASSUME NEW c \in Patient, NEW q \in OpenFor(c)', wire'[q].what = "oauth",
                      NEW x \in jar[c]
               PROVE  Expired(x)'
    BY <1>2 DEF LapsedOnItsWay
  <2>1. q \in OpenFor(c) /\ wire[q].what = "oauth"
    BY <1>2, <1>3, <1>4 DEF OpenFor, Open
  <2>2. Expired(x)
    BY <1>1, <2>1 DEF Calm, LapsedOnItsWay
  <2> QED BY <1>1, <1>6, <2>2, ExpiredStays
<1>9. FreshAnswer'
  <2> SUFFICES ASSUME NEW c \in Patient, NEW q \in OpenFor(c)', NEW x, Sets(q, x)'
               PROVE  ~Exchanged(x)' /\ \A p \in Requests : ~On(p, x)'
    BY DEF FreshAnswer
  <2>1. CASE q # r
    <3>1. q \in OpenFor(c) /\ Sets(q, x)
      BY <1>3, <1>4, <2>1
    <3>2. x \in DOMAIN tokens
      BY <1>1, <3>1, WireFields, Headers DEF Sets, OpenFor
    <3>3. ~Exchanged(x) /\ \A p \in Requests : ~On(p, x)
      BY <1>1, <3>1, <3>2 DEF Calm, FreshAnswer
    <3> QED BY <1>3, <1>4, <1>5, <3>3
  <2>2. CASE q = r
    <3>1. Open(r)
      BY <1>4, <2>2 DEF OpenFor, Open
    <3>2. x = t
      BY <1>4, <2>2, <3>1, Headers DEF Sets
    <3>3. ~Exchanged(t) /\ \A p \in Requests : ~On(p, t)
      BY <1>1, <1>2, OnStored DEF Exchanged, TypeOK
    <3> QED BY <1>3, <1>4, <1>5, <3>2, <3>3
  <2> QED BY <2>1, <2>2
<1>10. OwnUse'
  <2> SUFFICES ASSUME NEW c \in Patient, NEW x \in jar[c], NEW q \in Requests, On(q, x)'
               PROVE  q \in OpenFor(c)'
    BY <1>2 DEF OwnUse
  <2>1. q # r /\ On(q, x)
    BY <1>3, <1>4
  <2> QED BY <1>1, <1>3, <2>1 DEF Calm, OwnUse
<1>11. Replaced'
  <2> SUFFICES ASSUME NEW c \in Patient, NEW x \in jar[c], Exchanged(x)'
               PROVE  \E q \in OpenFor(c)' : \E y \in DOMAIN tokens' : Sets(q, y)'
    BY <1>2 DEF Replaced
  <2>1. CASE Exchanged(x)
    <3>1. PICK q \in OpenFor(c), y \in DOMAIN tokens : Sets(q, y)
      BY <1>1, <2>1 DEF Calm, Replaced
    <3>2. q \in Requests \ {r}
      BY <1>4, <3>1
    <3> QED BY <1>2, <1>3, <3>1, <3>2
  <2>2. CASE On(r, x)
    <3>1. r \in OpenFor(c)
      BY <1>1, <2>2 DEF Calm, OwnUse
    <3>2. Sets(r, t)' /\ r \in OpenFor(c)'
      BY <1>4, <3>1 DEF Sets, OpenFor, Open
    <3> QED BY <1>2, <3>2
  <2> QED BY <1>5, <2>1, <2>2
<1> QED BY <1>7, <1>8, <1>9, <1>10, <1>11 DEF Calm

LEMMA CalmDelivers ==
  ASSUME BInv, [BrowserNext]_browserVars, NEW r \in Requests, Deliver(r),
         UNCHANGED <<reqs, tokens>>
  PROVE  Calm'
<1>1. /\ TypeOK /\ RowsKept /\ BrowserTypeOK /\ Calm /\ [Next]_vars
      /\ jar \in [Browsers -> SUBSET DOMAIN tokens] /\ wire \in [Requests -> Wire]
  BY BrowserStepIsStep, Keeps DEF BInv, Typed, IInv, BrowserTypeOK
<1> PICK d, h : d = wire[r].browser /\ h = wire[r].header
  OBVIOUS
<1>2. /\ Open(r) /\ ~Open(r)' /\ reqs[r] = Idle
      /\ jar' = [jar EXCEPT ![d] = Applied(h, jar[d])]
      /\ \A q \in Requests \ {r} : wire'[q] = wire[q]
  BY <1>1 DEF Deliver, Open
<1>3. d \in Browsers /\ h \in {Keep, Clear} \cup {SetTo(x) : x \in DOMAIN tokens}
  BY <1>1, <1>2, WireFields
<1>4. ASSUME NEW q \in Requests
      PROVE  /\ \A c : q \in OpenFor(c)' <=> q \in OpenFor(c) /\ q # r
             /\ \A x : Sets(q, x)' <=> Sets(q, x) /\ q # r
             /\ \A x : On(q, x)' <=> On(q, x)
  BY <1>2, <1>4 DEF OpenFor, Sets, Open, On
<1>5. \A x : Exchanged(x)' <=> Exchanged(x)
  BY DEF Exchanged
<1>6. \A c : OpenFor(c) \subseteq Requests /\ OpenFor(c)' \subseteq Requests
  BY DEF OpenFor
<1>7. r \in OpenFor(d) /\ \A c : r \in OpenFor(c) => c = d
  BY <1>2 DEF OpenFor, Open
\* A cookie that a patient browser has now, it had before, or it was just set.
<1>8. ASSUME NEW c \in Patient, NEW x \in jar'[c]
      PROVE  /\ c \in Browsers /\ x \in DOMAIN tokens
             /\ x \in jar[c] \/ (c = d /\ h = SetTo(x) /\ Sets(r, x))
  <2>1. c \in Browsers
    BY BrowserAssumption DEF BrowserAssumption
  <2>2. CASE c # d
    BY <1>1, <1>2, <1>8, <2>1, <2>2
  <2>3. CASE c = d
    <3>1. jar'[c] = Applied(h, jar[d])
      BY <1>1, <1>2, <2>1, <2>3
    <3>2. CASE h \in {Keep, Clear}
      BY <1>1, <1>8, <2>1, <2>3, <3>1, <3>2, Headers DEF Applied
    <3>3. CASE h \in {SetTo(y) : y \in DOMAIN tokens}
      BY <1>2, <1>8, <2>1, <2>3, <3>1, <3>3, Headers DEF Applied, Sets
    <3> QED BY <1>3, <3>2, <3>3
  <2> QED BY <2>2, <2>3
<1>9. ASSUME NEW c \in Patient, c # d PROVE jar'[c] = jar[c]
  BY <1>1, <1>2, <1>9, BrowserAssumption DEF BrowserAssumption
<1>10. ASSUME d \in Patient PROVE OpenFor(d)' = {}
  BY <1>1, <1>4, <1>6, <1>7, <1>10 DEF Calm, OneOpen
<1>11. OneOpen'
  BY <1>1, <1>4, <1>6 DEF Calm, OneOpen
<1>12. LapsedOnItsWay'
  <2> SUFFICES ASSUME NEW c \in Patient, NEW q \in OpenFor(c)', wire'[q].what = "oauth",
                      NEW x \in jar'[c]
               PROVE  Expired(x)'
    BY DEF LapsedOnItsWay
  <2>1. c # d
    BY <1>10
  <2>2. q \in OpenFor(c) /\ wire[q].what = "oauth" /\ x \in jar[c] /\ x \in DOMAIN tokens
    BY <1>2, <1>4, <1>6, <1>8, <1>9, <2>1
  <2>3. Expired(x)
    BY <1>1, <2>2 DEF Calm, LapsedOnItsWay
  <2> QED BY <1>1, <2>2, <2>3, ExpiredStays
<1>13. FreshAnswer'
  BY <1>1, <1>4, <1>5, <1>6 DEF Calm, FreshAnswer
<1>14. OwnUse'
  <2> SUFFICES ASSUME NEW c \in Patient, NEW x \in jar'[c], NEW q \in Requests, On(q, x)
               PROVE  q \in OpenFor(c)'
    BY <1>4 DEF OwnUse
  <2>1. CASE x \in jar[c]
    <3>1. q \in OpenFor(c)
      BY <1>1, <2>1 DEF Calm, OwnUse
    <3>2. q # r
      BY <1>1, <1>2, OnStored
    <3> QED BY <1>4, <3>1, <3>2
  <2>2. CASE c = d /\ Sets(r, x)
    BY <1>1, <1>7, <1>8, <2>2 DEF Calm, FreshAnswer
  <2> QED BY <1>8, <2>1, <2>2
<1>15. Replaced'
  <2> SUFFICES ASSUME NEW c \in Patient, NEW x \in jar'[c], Exchanged(x)
               PROVE  \E q \in OpenFor(c)' : \E y \in DOMAIN tokens : Sets(q, y)'
    BY <1>5 DEF Replaced
  <2>1. ~(c = d /\ Sets(r, x))
    BY <1>1, <1>7, <1>8 DEF Calm, FreshAnswer
  <2>2. x \in jar[c]
    BY <1>8, <2>1
  <2>3. PICK q \in OpenFor(c), y \in DOMAIN tokens : Sets(q, y)
    BY <1>1, <2>2 DEF Calm, Replaced
  <2>4. q # r
    <3> SUFFICES ASSUME q = r PROVE FALSE
      OBVIOUS
    <3>1. c = d /\ h = SetTo(y)
      BY <1>7, <2>3 DEF Sets
    <3>2. jar'[c] = {y}
      BY <1>1, <1>2, <1>3, <3>1, Headers DEF Applied
    <3> QED BY <2>1, <2>3, <3>1, <3>2
  <2> QED BY <1>4, <1>6, <2>3, <2>4
<1> QED BY <1>11, <1>12, <1>13, <1>14, <1>15 DEF Calm

LEMMA InitBInv == BrowserInit => BInv
<1> SUFFICES ASSUME BrowserInit PROVE Rooted /\ SessionStaysInBrowser /\ Calm
  BY InitTyped DEF BInv
<1>1. /\ DOMAIN tokens = {} /\ \A q \in Requests : reqs[q] = Idle
      /\ \A c : OpenFor(c) = {} /\ \A b \in Browsers : jar[b] = {}
  BY DEF BrowserInit, Init, OpenFor
<1>2. Rooted /\ SessionStaysInBrowser
  BY <1>1 DEF Rooted, SessionStaysInBrowser, Idle
<1>3. Patient \subseteq Browsers
  BY BrowserAssumption DEF BrowserAssumption
<1>4. Calm
  BY <1>1, <1>3 DEF Calm, OneOpen, LapsedOnItsWay, FreshAnswer, OwnUse, Replaced
<1> QED BY <1>2, <1>4

LEMMA BInvStep == BInv /\ [BrowserNext]_browserVars => BInv'
<1> SUFFICES ASSUME BInv, [BrowserNext]_browserVars PROVE Calm'
  BY TypedStep, RootedStep, StaysStep DEF BInv
<1>1. BrowserTypeOK /\ TypeOK
  BY DEF BInv, Typed, IInv
<1>2. ASSUME NEW r \in Requests, NEW b \in Browsers,
             SignsIn(b, r) \/ SignsOut(b, r) \/ GoesToProvider(b, r)
      PROVE  Calm'
  <2>1. Others(r) /\ DOMAIN tokens' = DOMAIN tokens
    BY <1>2 DEF SignsIn, SignsOut, GoesToProvider, Others
  <2>2. \A t : ~On(r, t)'
    BY <1>2 DEF SignsIn, SignsOut, GoesToProvider, Opens, On, Idle
  <2>3. CASE SignsIn(b, r)
    BY <2>1, <2>2, <2>3, CalmOpens DEF SignsIn
  <2>4. CASE SignsOut(b, r)
    BY <2>1, <2>2, <2>4, CalmOpens DEF SignsOut
  <2>5. CASE GoesToProvider(b, r)
    BY <2>1, <2>2, <2>5, CalmOpens DEF GoesToProvider
  <2> QED BY <1>2, <2>3, <2>4, <2>5
<1>3. ASSUME NEW r \in Requests, NEW b \in Browsers, NEW t \in jar[b], Renews(b, r, t)
      PROVE  Calm'
  <2>1. Opens(b, r, "refresh", Keep) /\ Others(r) /\ DOMAIN tokens' = DOMAIN tokens
    BY <1>3 DEF Renews
  <2>2. \A x : On(r, x)' => x = t
    BY <1>3 DEF Renews, On
  <2> QED BY <2>1, <2>2, CalmOpens
<1>4. ASSUME NEW r \in Requests, Works(r) PROVE Calm'
  <2>1. \A x : On(r, x)' => On(r, x)
    <3>1. CASE Ends(r)
      BY <3>1 DEF Ends, Idle, On
    <3>2. CASE Issues(r)
      BY <3>2 DEF Issues, Save, On
    <3>3. CASE Rotates(r)
      BY <3>3 DEF Rotates, Save, On
    <3> QED BY <1>4, <3>1, <3>2, <3>3 DEF Works
  <2>2. \A q \in Requests : \A x : On(q, x)' => On(q, x)
    BY <1>4, <2>1 DEF Works, GoesOn, Others, On
  <2> QED BY <1>4, <2>2, CalmShrinks DEF Works, GoesOn
<1>5. ASSUME NEW r \in Requests, HangUp(r) PROVE Calm'
  <2>1. /\ UNCHANGED <<jar, reqs, tokens>> /\ wire[r].browser \notin Patient
        /\ wire' = [wire EXCEPT ![r] = Nobody] /\ wire \in [Requests -> Wire]
    BY <1>1, <1>5 DEF HangUp, vars, BrowserTypeOK
  <2>2. /\ \A q \in Requests : wire'[q] \in {wire[q], Nobody}
        /\ \A q \in Requests : wire'[q] # wire[q] => q = r
    BY <2>1
  <2>3. \A q \in Requests : \A t : On(q, t)' => On(q, t)
    BY <2>1 DEF On
  <2> QED BY <2>1, <2>2, <2>3, CalmShrinks
<1>6. CASE Stops
  <2>1. \A q \in Requests : \A t : ~On(q, t)'
    BY <1>6 DEF Stops, On, Idle
  <2> QED BY <1>6, <2>1, CalmShrinks DEF Stops
<1>7. CASE Rests
  BY <1>7, CalmShrinks DEF Rests, On
<1> QED
  BY <1>1, <1>2, <1>3, <1>4, <1>5, <1>6, <1>7, CalmStores, CalmDelivers, StepKinds

LEMMA BrowserInvariance == BrowserSpec => []BInv
  BY InitBInv, BInvStep, PTL DEF BrowserSpec

\* Two browsers never share a session.
THEOREM OneBrowserPerSession == BrowserSpec => []SessionStaysInBrowser
<1>1. BInv => SessionStaysInBrowser
  BY DEF BInv
<1> QED BY <1>1, BrowserInvariance, PTL

\* Only its own logout takes such a browser's cookies away.
THEOREM SignedOutByLogout == BrowserSpec => OnlyLogoutSignsOut
<1>1. ASSUME BInv, [BrowserNext]_browserVars, NEW b \in Patient,
             NEW t \in jar[b], ~Expired(t), jar'[b] = {}
      PROVE  \E r \in OpenFor(b) : wire[r].what = "logout" /\ wire'[r] = Nobody
  <2>1. /\ BrowserTypeOK /\ Quiet /\ Calm /\ b \in Browsers
        /\ jar \in [Browsers -> SUBSET DOMAIN tokens] /\ wire \in [Requests -> Wire]
    BY <1>1, BrowserAssumption DEF BInv, Typed, BrowserTypeOK, BrowserAssumption
  <2>2. jar' # jar
    BY <1>1
  <2>3. PICK r \in Requests : Deliver(r)
    BY <2>1, <2>2, <1>1, StepKinds
    DEF SignsIn, SignsOut, GoesToProvider, Renews, Opens, Works, GoesOn, Stores, HangUp,
        Stops, Rests
  <2>4. /\ Open(r) /\ wire'[r] = Nobody
        /\ jar' = [jar EXCEPT ![wire[r].browser] = Applied(wire[r].header, jar[wire[r].browser])]
    BY <2>1, <2>3 DEF Deliver, Open
  <2>5. wire[r].browser = b /\ Applied(wire[r].header, jar[b]) = {}
    BY <1>1, <2>1, <2>4, WireFields
  <2>6. wire[r].header = Clear
    <3>1. wire[r].header \in {Keep, Clear} \cup {SetTo(x) : x \in DOMAIN tokens}
      BY <2>1, <2>4, WireFields
    <3> QED BY <1>1, <2>5, <3>1, Headers DEF Applied
  <2>7. wire[r].what \in {"logout", "oauth"} /\ r \in OpenFor(b)
    BY <2>1, <2>4, <2>5, <2>6 DEF Quiet, OpenFor, Open
  <2>8. wire[r].what # "oauth"
    BY <1>1, <2>1, <2>7 DEF Calm, LapsedOnItsWay
  <2> QED BY <2>4, <2>7, <2>8
<1>2. BInv /\ [BrowserNext]_browserVars =>
        [\A b \in Patient :
           (\E t \in jar[b] : ~Expired(t)) /\ jar'[b] = {} =>
             \E r \in OpenFor(b) : wire[r].what = "logout" /\ wire'[r] = Nobody]_browserVars
  BY <1>1
<1> QED BY <1>2, BrowserInvariance, PTL DEF BrowserSpec, OnlyLogoutSignsOut

----------------------------------------------------------------------------
(* The session of such a browser does not fork *)

\* Whoever is about to exchange a token of its session is that browser itself, with the
\* token it has.
OwnSession ==
  \A b \in Patient, q \in Requests, t \in DOMAIN tokens :
    On(q, t) /\ Has(b, tokens[t].login) => q \in OpenFor(b) /\ t \in jar[b]

\* At most one token of its session has not been exchanged.
Unforked ==
  \A b \in Patient, login \in DOMAIN tokens : Has(b, login) =>
    \A s, t \in DOMAIN tokens :
      /\ tokens[s].login = login /\ tokens[t].login = login
      /\ ~Exchanged(s) /\ ~Exchanged(t)
      => s = t

FInv == BInv /\ HeirsInFlight /\ OwnSession /\ Unforked

\* A request comes to exchange a token only when its browser asks for it.
LEMMA NewUse ==
  ASSUME BInv, [BrowserNext]_browserVars, NEW q \in Requests, NEW t, On(q, t)'
  PROVE  On(q, t) \/ \E b \in Browsers : t \in jar[b] /\ Renews(b, q, t)
<1>1. BrowserTypeOK
  BY DEF BInv, Typed
<1>2. ASSUME NEW r \in Requests, NEW b \in Browsers,
             SignsIn(b, r) \/ SignsOut(b, r) \/ GoesToProvider(b, r)
      PROVE  On(q, t)
  BY <1>2 DEF SignsIn, SignsOut, GoesToProvider, Others, On
<1>3. ASSUME NEW r \in Requests, NEW b \in Browsers, NEW x \in jar[b], Renews(b, r, x)
      PROVE  On(q, t) \/ \E c \in Browsers : t \in jar[c] /\ Renews(c, q, t)
  <2>1. CASE q = r
    <3>1. t = x
      BY <1>3, <2>1 DEF Renews, On
    <3> QED BY <1>3, <2>1, <3>1
  <2>2. CASE q # r
    BY <1>3, <2>2 DEF Renews, Others, On
  <2> QED BY <2>1, <2>2
<1>4. ASSUME NEW r \in Requests, Works(r) PROVE On(q, t)
  <2>1. CASE q = r
    <3>1. CASE Ends(r)
      BY <2>1, <3>1 DEF Ends, Idle, On
    <3>2. CASE Issues(r)
      BY <2>1, <3>2 DEF Issues, Save, On
    <3>3. CASE Rotates(r)
      BY <2>1, <3>3 DEF Rotates, Save, On
    <3> QED BY <1>4, <3>1, <3>2, <3>3 DEF Works
  <2>2. CASE q # r
    BY <1>4, <2>2 DEF Works, GoesOn, Others, On
  <2> QED BY <2>1, <2>2
<1>5. ASSUME NEW r \in Requests, Stores(r) PROVE On(q, t)
  BY <1>5 DEF Stores, Others, Ends, Idle, On
<1>6. ASSUME NEW r \in Requests, HangUp(r) \/ (Deliver(r) /\ UNCHANGED <<reqs, tokens>>)
      PROVE  On(q, t)
  BY <1>6 DEF HangUp, vars, On
<1>7. CASE Stops \/ Rests
  BY <1>7 DEF Stops, Rests, Idle, On
<1> QED BY <1>1, <1>2, <1>3, <1>4, <1>5, <1>6, <1>7, StepKinds

LEMMA OwnSessionStep == BInv /\ OwnSession /\ [BrowserNext]_browserVars => OwnSession'
<1> SUFFICES ASSUME BInv, OwnSession, [BrowserNext]_browserVars,
                    NEW b \in Patient, NEW q \in Requests, NEW t \in DOMAIN tokens',
                    On(q, t)', NEW login, login = tokens'[t].login, Has(b, login)'
             PROVE  q \in OpenFor(b)' /\ t \in jar'[b]
  BY DEF OwnSession, Has, Continues
<1>1. /\ TypeOK /\ RowsKept /\ BrowserTypeOK /\ Rooted /\ SessionStaysInBrowser /\ NoneGained
      /\ jar \in [Browsers -> SUBSET DOMAIN tokens] /\ wire \in [Requests -> Wire]
      /\ OneOpen /\ b \in Browsers
  BY BrowserStepIsStep, Keeps, HasBefore, BrowserAssumption
  DEF BInv, Typed, IInv, BrowserTypeOK, Calm, BrowserAssumption
<1>2. t \in DOMAIN tokens => /\ tokens[t].login = login /\ login \in DOMAIN tokens
                            /\ Has(b, login)
  BY <1>1 DEF RowsKept, Rooted, NoneGained
<1>3. CASE On(q, t)
  <2>1. t \in DOMAIN tokens /\ reqs[q] # Idle
    BY <1>1, <1>3, OnStored
  <2>2. q \in OpenFor(b) /\ t \in jar[b]
    BY <1>2, <1>3, <2>1 DEF OwnSession
  <2>3. Open(q) /\ wire[q].browser = b
    BY <2>2 DEF OpenFor, Open
  <2>4. ASSUME NEW r \in Requests, NEW c \in Browsers,
               \/ SignsIn(c, r) \/ SignsOut(c, r) \/ GoesToProvider(c, r)
               \/ \E x \in jar[c] : Renews(c, r, x)
        PROVE  wire'[q] = wire[q] /\ jar' = jar
    BY <2>3, <2>4 DEF SignsIn, SignsOut, GoesToProvider, Renews, Opens
  <2>5. ASSUME NEW r \in Requests, Works(r) PROVE wire'[q] = wire[q] /\ jar' = jar
    BY <2>5 DEF Works, GoesOn
  <2>6. ASSUME NEW r \in Requests, Stores(r) PROVE wire'[q] = wire[q] /\ jar' = jar
    BY <2>6 DEF Stores, Ends, Idle, On
  <2>7. ASSUME NEW r \in Requests, HangUp(r) PROVE wire'[q] = wire[q] /\ jar' = jar
    BY <1>1, <2>3, <2>7 DEF HangUp
  <2>8. ASSUME NEW r \in Requests, Deliver(r)
        PROVE  wire'[q] = wire[q] /\ jar'[b] = jar[b]
    <3>1. r # q /\ Open(r)
      BY <2>1, <2>8 DEF Deliver, Open
    <3>2. wire[r].browser # b
      BY <1>1, <2>2, <3>1 DEF OneOpen, OpenFor, Open
    <3> QED BY <1>1, <2>8, <3>1, <3>2 DEF Deliver
  <2>9. ASSUME Stops \/ Rests PROVE wire'[q] = wire[q] /\ jar' = jar
    BY <2>9 DEF Stops, Rests, Idle, On
  <2>10. wire'[q] = wire[q] /\ jar'[b] = jar[b]
    BY <1>1, <2>4, <2>5, <2>6, <2>7, <2>8, <2>9, StepKinds
  <2> QED BY <2>2, <2>10 DEF OpenFor
<1>4. ASSUME NEW c \in Browsers, t \in jar[c], Renews(c, q, t)
      PROVE  q \in OpenFor(b)' /\ t \in jar'[b]
  <2>1. t \in DOMAIN tokens /\ Has(c, tokens[t].login)
    BY <1>1, <1>4 DEF Has
  <2>2. c = b
    BY <1>1, <1>2, <2>1 DEF Rooted, SessionStaysInBrowser
  <2> QED BY <1>4, <2>2 DEF Renews, Opens, OpenFor, Open
<1> QED BY <1>3, <1>4, NewUse

LEMMA UnforkedStep ==
  ASSUME FInv, [BrowserNext]_browserVars
  PROVE  Unforked'
<1>1. /\ TypeOK /\ RowsKept /\ BrowserTypeOK /\ Rooted /\ NoneGained /\ Quiet /\ Calm
      /\ HeirsInFlight /\ OwnSession /\ Unforked
  BY BrowserStepIsStep, Keeps, HasBefore DEF FInv, BInv, Typed, IInv
<1>2. Patient \subseteq Browsers
  BY BrowserAssumption DEF BrowserAssumption
<1>3. CASE DOMAIN tokens' = DOMAIN tokens
  <2>1. \A s : Exchanged(s)' <=> Exchanged(s)
    BY <1>1, <1>3 DEF Exchanged, RowsKept
  <2>2. \A s \in DOMAIN tokens : tokens'[s].login = tokens[s].login
    BY <1>1 DEF RowsKept
  <2> QED BY <1>1, <1>2, <1>3, <2>1, <2>2 DEF Unforked, NoneGained
<1>4. ASSUME NEW r \in Requests, Stores(r) PROVE Unforked'
  <2> PICK t : t = reqs[r].token
    OBVIOUS
  <2>1. /\ DOMAIN tokens' = DOMAIN tokens \cup {t} /\ t \notin DOMAIN tokens
        /\ reqs[r].at = "save" /\ reqs[r] # Idle
        /\ tokens'[t].login = reqs[r].login /\ tokens'[t].from = reqs[r].from
    BY <1>4, NotIdle DEF Stores
  <2>2. Inherits(reqs[r])
    BY <1>1, <2>1 DEF HeirsInFlight
  <2>3. /\ \A s : Exchanged(s)' <=> Exchanged(s) \/ s \in reqs[r].from
        /\ \A s \in DOMAIN tokens : tokens'[s].login = tokens[s].login
    BY <1>1, <2>1 DEF Exchanged, RowsKept
\* Nobody that is there before is of the session that t begins.
  <2>4. \A s \in DOMAIN tokens : tokens[s].login # t
    BY <1>1, <2>1 DEF Rooted
\* If t goes on with a session, the token it replaces was the only one that had no heir.
  <2>5. ASSUME NEW b \in Patient, NEW login \in DOMAIN tokens, Has(b, login),
               reqs[r].login = login,
               NEW s \in DOMAIN tokens, tokens[s].login = login, ~Exchanged(s)
        PROVE  s \in reqs[r].from
    <3>1. PICK x \in DOMAIN tokens : reqs[r].from = {x} /\ tokens[x].login = login
      BY <2>1, <2>2, <2>5 DEF Inherits
    <3>2. r \in OpenFor(b) /\ x \in jar[b]
      BY <1>1, <2>1, <2>5, <3>1 DEF OwnSession, On
    <3>3. ~Exchanged(x)
      <4> SUFFICES ASSUME Exchanged(x) PROVE FALSE
        OBVIOUS
      <4>1. PICK q \in OpenFor(b), y \in DOMAIN tokens : Sets(q, y)
        BY <1>1, <3>2 DEF Calm, Replaced
      <4>2. q = r
        BY <1>1, <3>2, <4>1 DEF Calm, OneOpen
      <4> QED BY <1>1, <2>1, <4>1, <4>2, Headers DEF Sets, Quiet
    <3> QED BY <1>1, <2>5, <3>1, <3>3 DEF Unforked
  <2> SUFFICES ASSUME NEW b \in Patient, NEW login \in DOMAIN tokens', Has(b, login)',
                      NEW s \in DOMAIN tokens', NEW u \in DOMAIN tokens',
                      tokens'[s].login = login, tokens'[u].login = login,
                      ~Exchanged(s)', ~Exchanged(u)'
               PROVE  s = u
    BY DEF Unforked
  <2>6. CASE login = t
    BY <2>1, <2>3, <2>4, <2>6
  <2>7. CASE login # t
    <3>1. login \in DOMAIN tokens /\ Has(b, login)
      BY <1>1, <1>2, <2>1, <2>7 DEF NoneGained
    <3>2. CASE reqs[r].login = login
      BY <2>1, <2>3, <2>5, <3>1, <3>2
    <3>3. CASE reqs[r].login # login
      BY <1>1, <2>1, <2>3, <3>1, <3>3 DEF Unforked
    <3> QED BY <3>2, <3>3
  <2> QED BY <2>6, <2>7
<1> QED BY <1>1, <1>3, <1>4, StepKinds
    DEF SignsIn, SignsOut, GoesToProvider, Renews, Works, HangUp, vars, Stops, Rests

LEMMA InitFInv == BrowserInit => FInv
<1> SUFFICES ASSUME BrowserInit PROVE OwnSession /\ Unforked
  BY InitBInv, InitHeirs DEF BrowserInit, FInv
<1>1. DOMAIN tokens = {}
  BY DEF BrowserInit, Init
<1> QED BY <1>1 DEF OwnSession, Unforked

LEMMA FInvInvariance == BrowserSpec => []FInv
<1>1. FInv /\ [BrowserNext]_browserVars => FInv'
  <2>1. FInv => IInv /\ BInv /\ HeirsInFlight /\ OwnSession
    BY DEF FInv, BInv, Typed
  <2>2. IInv => TypeOK
    BY DEF IInv
  <2> QED
    BY <2>1, <2>2, BInvStep, BrowserStepIsStep, HeirsStep, OwnSessionStep, UnforkedStep DEF FInv
<1> QED BY <1>1, InitFInv, PTL DEF BrowserSpec

\* A browser that waits for its answers never holds a token that was exchanged, and no
\* other token of its session can be used.
THEOREM AlwaysFresh == BrowserSpec => []NeverStale
<1>1. ASSUME FInv, NEW b \in Patient, OpenFor(b) = {}, NEW t \in jar[b], NEW s \in DOMAIN tokens
      PROVE  /\ t \notin tokens[s].from
             /\ tokens[s].login = tokens[t].login /\ Usable(s) => s = t
  <2>1. ~Exchanged(t)
    BY <1>1 DEF FInv, BInv, Calm, Replaced
  <2>2. b \in Browsers /\ t \in DOMAIN tokens /\ tokens[t].login \in DOMAIN tokens
    BY <1>1, BrowserAssumption
    DEF FInv, BInv, Typed, BrowserTypeOK, Rooted, BrowserAssumption
  <2>3. Has(b, tokens[t].login)
    BY DEF Has
  <2>4. Usable(s) => ~Exchanged(s)
    BY <1>1 DEF FInv, BInv, Typed, IInv, RotationReplaces, Exchanged, Usable
  <2> QED BY <1>1, <2>1, <2>2, <2>3, <2>4 DEF Exchanged, FInv, Unforked
<1>2. FInv => NeverStale
  BY <1>1 DEF NeverStale
<1> QED BY <1>2, FInvInvariance, PTL
=============================================================================
