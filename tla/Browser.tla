------------------------------ MODULE Browser ------------------------------
(***************************************************************************)
(* The browsers in front of Sessions.  The service keeps nothing about     *)
(* them: what a browser has of its session are two cookies, set together   *)
(* by the answer to a login or a refresh, and taken away together by the   *)
(* answer to a logout.  A browser sends the cookies it has when it sends,  *)
(* from several tabs at once, and applies answers in whatever order they   *)
(* arrive, if they do.                                                     *)
(*                                                                         *)
(* A request keeps its slot until its answer is delivered or lost.  An     *)
(* error answer carries no cookies, so a request that is refused at once   *)
(* is no action here either.                                               *)
(***************************************************************************)
EXTENDS Sessions

CONSTANTS
  Browsers,
  Owner,    \* the user in front of each browser
  Patient,  \* browsers that send one request at a time and lose no answer
  MaxOpen   \* bound: requests that any other browser has open at once

ASSUME BrowserAssumption ==
  /\ Owner \in [Browsers -> Users]
  /\ Patient \subseteq Browsers
  /\ MaxOpen \in Nat

VARIABLES
  jar,  \* the token cookies of each browser: {}, or the token they were set to
  wire  \* the connection that each slot's request came on

browserVars == <<vars, jar, wire>>

----------------------------------------------------------------------------
(* Cookies and connections *)

\* The Set-Cookie headers of an answer.
Keep == [cookies |-> "keep"]
Clear == [cookies |-> "clear"]
SetTo(t) == [cookies |-> "set", token |-> t]

Nobody == [what |-> "nobody"]
Wire ==
  {Nobody} \cup [what: {"login", "refresh", "logout", "oauth"}, browser: Browsers,
                 header: {Keep, Clear} \cup {SetTo(t) : t \in DOMAIN tokens}]

OpenFor(b) == {r \in Requests : wire[r] # Nobody /\ wire[r].browser = b}
MayOpen(b) == Cardinality(OpenFor(b)) < (IF b \in Patient THEN 1 ELSE MaxOpen)

\* Browser b sends a request on slot r; header is what a success will answer so far.
Send(b, r, what, header) ==
  /\ wire[r] = Nobody /\ reqs[r] = Idle
  /\ MayOpen(b)
  /\ wire' = [wire EXCEPT ![r] = [what |-> what, browser |-> b, header |-> header]]
  /\ UNCHANGED jar

\* What the browser's cookies become.
Applied(header, cookies) ==
  CASE header.cookies = "set" -> {header.token}
    [] header.cookies = "clear" -> {}
    [] OTHER -> cookies

----------------------------------------------------------------------------
(* What a browser sends *)

\* By password, code or Google's callback; cookies it may have do not matter.
SignIn(b, r) ==
  /\ Send(b, r, "login", Keep)
  /\ BeginLogin(r, Owner[b]) \/ BeginLoginOTP(r, Owner[b])

Renew(b, r) ==
  /\ Send(b, r, "refresh", Keep)
  /\ \E t \in jar[b] : BeginRefresh(r, t)

\* A browser shows its access cookie.  The answer takes the cookies away even when the
\* tokens could not be revoked.
SignOut(b, r) ==
  /\ \E t \in jar[b] : AccessPasses(t) /\ (Logout(t.user) \/ (Failures /\ UNCHANGED vars))
  /\ Send(b, r, "logout", Clear)

StartOAuthAlwaysReset(b, r) ==
  /\ Send(b, r, "oauth", Clear)
  /\ UNCHANGED vars

\* A browser without a refresh cookie (it lapses with its token) has both taken away on
\* its way to Google; any other goes there with the cookies it has.
StartOAuth(b, r) ==
  /\ \A t \in jar[b] : Expired(t)
  /\ Send(b, r, "oauth", Clear)
  /\ UNCHANGED vars

----------------------------------------------------------------------------
(* What becomes of a request *)

ServeLoginCookiesOnly(r) ==
  \/ /\ IssueTokens(r) \/ RevokeOld(r) \/ RevokeAllAfterReuse(r) \/ FailRequest(r)
     /\ UNCHANGED <<jar, wire>>
  \/ /\ SaveToken(r)
     /\ UNCHANGED jar
     /\ wire' = IF wire[r] = Nobody \/ reqs[r].token \in DOMAIN tokens \/ reqs[r].from # {}
                  THEN wire ELSE [wire EXCEPT ![r].header = SetTo(reqs[r].token)]

\* The cookies are set once the new token is stored.
Serve(r) ==
  \/ /\ IssueTokens(r) \/ RevokeOld(r) \/ RevokeAllAfterReuse(r) \/ FailRequest(r)
     /\ UNCHANGED <<jar, wire>>
  \/ /\ SaveToken(r)
     /\ UNCHANGED jar
     /\ wire' = IF wire[r] = Nobody \/ reqs[r].token \in DOMAIN tokens THEN wire
                  ELSE [wire EXCEPT ![r].header = SetTo(reqs[r].token)]

Deliver(r) ==
  /\ wire[r] # Nobody /\ reqs[r] = Idle
  /\ jar' = [jar EXCEPT ![wire[r].browser] = Applied(wire[r].header, @)]
  /\ wire' = [wire EXCEPT ![r] = Nobody]
  /\ UNCHANGED vars

\* The connection breaks, the tab is closed or the client gives up; the server goes on.
HangUp(r) ==
  /\ wire[r] # Nobody /\ wire[r].browser \notin Patient
  /\ wire' = [wire EXCEPT ![r] = Nobody]
  /\ UNCHANGED <<vars, jar>>

\* The process stops and starts again; requests that it cuts have no answer.
Crash ==
  /\ Restart
  /\ wire' = [r \in Requests |-> IF reqs[r] = Idle THEN wire[r] ELSE Nobody]
  /\ UNCHANGED jar

----------------------------------------------------------------------------
(* The specification *)

BrowserInit ==
  /\ Init
  /\ jar = [b \in Browsers |-> {}]
  /\ wire = [r \in Requests |-> Nobody]

BrowserNext ==
  \/ \E r \in Requests :
       \/ \E b \in Browsers :
            SignIn(b, r) \/ Renew(b, r) \/ SignOut(b, r) \/ StartOAuth(b, r)
       \/ Serve(r) \/ Deliver(r) \/ HangUp(r)
  \/ Crash
  \/ (Tick \/ \E u \in Users : SetStanding(u)) /\ UNCHANGED <<jar, wire>>

BrowserSpec == BrowserInit /\ [][BrowserNext]_browserVars

----------------------------------------------------------------------------
(* Properties *)

\* Cookies, answers and connections are well typed; a browser only ever gets tokens
\* that are stored, and those of its own user.
BrowserTypeOK ==
  /\ TypeOK
  /\ jar \in [Browsers -> SUBSET DOMAIN tokens]
  /\ \A b \in Browsers : \A s, t \in jar[b] : s = t /\ t.user = Owner[b]
  /\ wire \in [Requests -> Wire]

\* Browser b has a token of the session that login began, in its cookies or in an
\* answer on its way, or has asked to exchange one.
Has(b, login) ==
  \/ \E t \in jar[b] : tokens[t].login = login
  \/ \E r \in OpenFor(b) :
       \/ Continues(r, login)
       \/ wire[r].header.cookies = "set" /\ tokens[wire[r].header.token].login = login

\* A session is in one browser, although tokens have no random part: two browsers in
\* which one user signs in within a second never share a session, however their
\* requests overlap, fail or lose their answers.
SessionStaysInBrowser ==
  \A login \in DOMAIN tokens, b, c \in Browsers : Has(b, login) /\ Has(c, login) => b = c

\* A browser that waits for its answers and gets them never holds a token that was
\* exchanged: only a failure in the middle of its own refresh, or a logout or an alarm
\* elsewhere, can make its next refresh look like the reuse of a stolen token.  And its
\* session has not forked: no other token of it can be used.
NeverStale ==
  \A b \in Patient : OpenFor(b) = {} =>
    \A t \in jar[b], s \in DOMAIN tokens :
      /\ t \notin tokens[s].from
      /\ tokens[s].login = tokens[t].login /\ Usable(s) => s = t

\* Nothing but its own logout signs such a browser out: no refused refresh, no detour
\* to Google and no answer to a request of its past.
OnlyLogoutSignsOut ==
  [][\A b \in Patient :
       (\E t \in jar[b] : ~Expired(t)) /\ jar'[b] = {} =>
         \E r \in OpenFor(b) : wire[r].what = "logout" /\ wire'[r] = Nobody]_browserVars
=============================================================================
