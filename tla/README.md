# TLA+ specifications of hadaf-backend

hadaf-backend is a Go service (gin, pgx, Redis) for volunteers who help care
institutions.  Institutions publish *needs*; volunteers *book* them; staff
approve, reject and complete the bookings, and a completion adds the booked
quantity to what the need has received.  Around that there are accounts
(one-time passwords, JWT sessions with rotating refresh tokens, Google login), a
rate limiter in Redis, a directory of institutions, and events that volunteers join.

## 1. Inventory

| part | state | operations | who touches the state |
|---|---|---|---|
| bookings (`services/booking.go`, `repositories/booking.go`) | table `bookings` with the partial unique index `bookings_user_need_active_uniq` | create, approve, reject, complete, cancel own, update own, lists | volunteers' and staff's requests, concurrently |
| needs (`services/needs.go`, `repositories/needs.go`) | tables `needs`, `needs_history` | create, update, soft delete, lists | staff; **and** `CompleteBooking`, which increments `received_qty` |
| accounts (`services/auth.go`, `repositories/otp.go`, `repositories/user.go`) | tables `otp`, `users`; `pending_reg:*` keys in Redis | register, send and confirm a one-time password, OAuth login | anonymous requests |
| sessions (`services/auth.go`, `repositories/token.go`, `jwtToken.go`, `middlewares.go`) | table `refresh_tokens`; the role and approval frozen in JWT claims | login, refresh (rotation with reuse detection), logout, access check | every client |
| browsers (`handlers/auth.go`) | two cookies per browser, which the service sets and clears and keeps no record of | sign in, refresh, log out, start a Google login, from several tabs | the answers of the requests above, in any order |
| rate limiter (`customLimiter.go`, `redis.go`) | one counter with a TTL per key in Redis | `Allow`, `ResetAttempts` | login, register, OTP, refresh, booking handlers |
| events (`services/event.go`, `repositories/event.go`) | tables `events`, `event_participants` | create, approve, reject, join, leave, lists | staff and volunteers |
| institutions (`handlers/institution.go`, `repositories/institution.go`) | table `institutions` | create; the public list in three orders, with counts of needs and distances | super-admins, public; the order depends on what staff do with needs |
| server (`application/app.go`, `server/server.go`) | the process: serving, stopping, down; the open connections, and the goroutines that send one-time passwords | listen, catch a signal, wait five seconds, exit properly or by force | the operating system, every request |
| statistics, vacancies, team | none that this program writes | reads | public |
| SMTP, SMS, MinIO, Telegram | none of their own | send, store, notify | called from the above |

Every HTTP request runs in a goroutine of its own, handlers call services,
services call the repository, the cache, the token issuer and the mailer.
**No service opens a transaction**: every repository method is one SQL statement
on a shared pool, so the unit of atomicity of the whole system is one statement
(or one Redis command), and a service method that runs several can be
interleaved with any other, and can stop in the middle when a statement fails,
its client disconnects (the request's context is cancelled) or the process is
stopped (`application/app.go` waits five seconds for requests in flight; `Server`
models it).  That
is what is hard to test here, and what the modules are about.

What makes each part correct:

* bookings and needs: one live booking per volunteer and need; staff decisions
  and volunteers' edits do not overwrite one another; what a need has received is
  what completed bookings brought, each counted once; archived needs are left alone;
* accounts: an account is created once, and only after its code was confirmed; a code
  buys one session; a registration that was confirmed becomes an account;
* sessions: a refresh token yields one pair, or as many as refreshes of it overlap; a
  logout ends every session but for refreshes under way; a reused token is detected; a
  role or approval that was taken away is not given again once the sessions that have it
  are over, and the tokens that still tell of it run out (the middleware takes refresh
  tokens too, even revoked ones: it looks at the signature and the expiry only);
* browsers: two browsers never share a session; one that waits for its answers never
  presents a token that was exchanged and is signed out by its own logout only;
* server: an accepted request is answered or cut; a stop ends, whatever the requests wait
  for.  A proper exit cuts no request, but it does cut the goroutines that send one-time
  passwords after their requests were answered;
* rate limiter: at most `limit` admissions per window, and a refused client is
  admitted again some day;
* events: a past event gets only the participants whose joins were under way; a client that pages through the list sees each event
  once, and all of them, unless the list is moderated meanwhile;
* institutions: a client that pages through the list misses none and sees none twice,
  but for the reasons the order it asked for gives it.

`PROJECT.json` lists the components, the hazards line by line, and for every
definition of a module the source lines it stands for.

## 2. Plan

Most important behaviour first.  Done: 1 to 12.

1. **Bookings** (with needs): the statements of every request that writes a booking
   or a need, `Bookings.tla`.
2. **BookingLedger**: what the component promises with each effect in one atomic
   step; `BookingsRefinement.tla` composes the two and states that 1 implements 2.
3. **RateLimiter**: `Allow` and `ResetAttempts`, command by command.
4. **Sessions**: issue, rotation, reuse detection, logout, and the claims a token
   keeps while staff change the user's row.
5. **Accounts**: registration, one-time passwords, Google login.
6. **AccountsProofs**: the four invariants of Accounts.
7. **Events**: moderation, joining and leaving, paging through the list, with proofs.
8. **Browser**: the composition of Sessions with the browsers that hold its tokens;
   answers that are late, lost or out of order.
9. **Directory**: institutions, and paging through a list whose order moves.
10. **Server**: the composition of Bookings with connections and the life of the
    process; liveness under a stop.
11. **SessionLedger**: what Sessions promises with each effect in one atomic step;
    `SessionsRefinement.tla` states that 4 implements it.
12. **AccountRegistry**: the same for Accounts, `AccountsRefinement.tla`.
13. Left: an abstract specification of the rate limiter (a bounded number of admissions
    per life of the key); a limiter shared by several handlers' keys; an abstract pager
    that both lists implement.

Components share tables only in one place, the received quantity of a need, which is
why bookings and needs are one module.  Sessions and Accounts meet in
`SaveRefreshToken`: Accounts ends where Sessions' `BeginLogin` begins, and neither
reads the other's state.  Browser EXTENDS Sessions and Server EXTENDS Bookings: they add
state and actions, and their steps are steps of the component or leave it alone.
Directory takes of a need only whether it counts.  The limiter's keys are touched by
nobody else.

## 3. Modules and code

All modules follow one scheme.  A request in flight is a slot of `Requests`; `reqs[r]`
says which statement it runs next and holds what the Go code holds in local variables
at that point.  `Begin...` stands for the reads and checks before the request's first
write.  It is one action: what the later statements use of those reads is either
copied into the slot or never changes, and the rest only decides whether the request
goes on.  **Every later statement or Redis command
that matters is an action of its own**, so that anything may happen in between.
A request refused before its first write changes nothing and is no action.
`FailRequest` ends a request between two statements (an error, or a client that
disconnects and so cancels the context), `Restart` ends all of them; the tables and
Redis keep what was written.  A statement that was applied although its caller got an
error is the statement's action followed by the answer, or the end, of the request.

| module | state | actions and the code they stand for |
|---|---|---|
| `Bookings` | `needs`, `bookings` (rows by id), `reqs` | `BeginCreate`, `InsertBooking`, `SendEmail` (CreateBooking); `BeginUpdateMyBooking`, `UpdateQuantity`; `BeginCancelMyBooking`, `BeginDecide`, `UpdateStatus`; `BeginComplete`, `CompleteStatus`, `CreditNeed` (CompleteBooking); `CreateNeed`, `UpdateNeed`, `DeleteNeed` |
| `BookingLedger` | `ledger`, `received`, `closed`, `claims` | abstract: place, revise, decide, complete, pay, forfeit; open, edit, close a need |
| `BookingsRefinement` | that of `Bookings` | the mapping: a claim is a CompleteBooking request between its two writes |
| `RateLimiter` | `counter` (value and TTL as Redis reports it), `reqs`, history `admitted` | `BeginAllow` (GET), `SetCounter`, `IncrementCounter`, `FinishRequest`, `ResetAttempts`, `Tick` (expiry) |
| `Sessions` | `now`, `standing` (of a user's row: active, role and approval), `tokens` (rows of `refresh_tokens`), `reqs` | `BeginLogin`, `BeginLoginOTP`, `IssueTokens`, `SaveToken`; `BeginRefresh`, `RevokeOld`, `RevokeAllAfterReuse`; `Logout`; `SetStanding` (staff, in the database); `Tick` |
| `SessionLedger` | `issued`, `live`, `exchanges` | abstract: open a session, begin an exchange, redeem it, forfeit it; tokens die |
| `SessionsRefinement` | that of `Sessions` | the mapping: an exchange is a refresh between the check of its token and the INSERT of the new one; a token is live while `VerifyToken` and its row let it through |
| `Browser` | that of `Sessions`, `jar` (the cookies of each browser), `wire` (connections and answers on their way) | `SignIn`, `Renew`, `SignOut`, `StartOAuth`; `Serve` (the next statement, and the cookies of its answer), `Deliver`, `HangUp`, `Crash` |
| `Accounts` | `codes` (table `otp`), `users`, `pending` (Redis), `reqs` | `SendOTP`; `BeginRegister`, `StorePending`, `SendCode`; `BeginConfirm`, `MarkVerified`, `FindUser`, `RecallPending`, `InsertUser`, `ForgetPending`, `Activate`, `IssueTokens` (ConfirmOTP); `BeginLoginOAuth`, `LinkGoogle`; `ExpireCode`, `ExpirePending` |
| `AccountRegistry` | `accounts`, `sent`, `open`, `proven`, `pairs`, `confirms` | abstract: send a code, begin and prove a confirmation; enroll an applicant, welcome a newcomer, link, activate, issue; forfeit |
| `AccountsRefinement` | that of `Accounts` | the mapping: a confirmation is a ConfirmOTP request from the code it was let through with to its answer |
| `Events` | `now`, `events`, `participants`, `reqs`, and `walk`, a client that asks for page after page | `BeginCreate`, `InsertEvent`; `ApproveEvent`, `RejectEvent` (one `UPDATE`); `BeginJoin`, `InsertParticipant`; `BeginLeave`, `DeleteParticipant`; `BeginWalk`, `GetPage`, `CountEvents` (the two statements of GetAllEvents) |
| `Directory` | `institutions` (rows by id), `browse`, a client that asks for page after page | `CreateInstitution`, `CreateNeed`, `ArchiveNeed`; `BeginBrowse`, `GetInstitutions`, `CountInstitutions`, `FailCountInstitutions` (the two statements of GetAllInstitutions) |
| `Server` | that of `Bookings`, `phase`, `open` (connections), `codes` (goroutines that have a one-time password to send) | `Accept`, `Receive`, `Execute`, `Fail`, `Mail`; `SendOTP`, `SendCode`; `Stop`, `ExitProperly`, `ExitForced`, `Crash`, `Start` |

Conversions are modelled by what they do: `Round` is the rounding of a float64 into
DECIMAL(10,2) (inputs in thousandths, rows in hundredths), `Fits` its overflow;
`Lower` is the conversion of addresses, applied where the code applies it and not
where it does not; a token is its user, its claims and the *second* of its issue, because the
JWT has no random part and its times have no fractions; `Nearer` puts institutions
without coordinates last, as PostgreSQL orders NULL, and `Readable` says when scanning
such a distance into a float64 fails the page.

Constraints of the schema appear as operators of their own: `IndexConflict` (the
partial unique index of bookings), `SameKey`/`Clash` (UNIQUE columns of users), the
`IF t \in DOMAIN tokens` of `SaveToken` (UNIQUE `token_hash`), the `WHERE` clauses
`QuantityWritable`, `NeedWritable`.  `Events` and `Directory` count places instead of
cutting sequences: a page is what has a place in `offset .. offset + limit - 1`.

Some definitions stand in front of another one with a similar name and are used
nowhere (`FitsAlways`, `IndexConflictNever`, `DeleteNeedHard`, `BeginAllowUnlimited`,
`SaveTokenUpsert`, `MarkVerifiedForgotten`, ...).  They are mutants: plausible wrong
versions of the definition that follows.  `PROJECT.json` names, for each property of
each passing run, a mutant under which TLC finds that property violated, so that no
property holds whatever the code does.

The `MC...` modules give constants their values for TLC and hold the properties that
need an operator TLC has to evaluate by enumeration.

## 4. What the runs check

| run | question | instance | states |
|---|---|---|---|
| `bookings` | Does a quantity outgrow its column, or a request go on with a row that has gone (`TypeOK`)?  Is there ever more than one live booking per volunteer and need (`ActiveUnique`); a completion that credits something other than the booking's row, once the booking had left pending when it was read (`SettledCreditIsExact`); a change of a decided booking's quantity or a return to pending (`SettledBookingFrozen`); a change of an archived need (`ArchivedNeedFrozen`)?  Is every interleaving a behaviour of the ledger (`LedgerSpec`)? | 2 volunteers, 1 employee, 1 need, 2 bookings, 2 requests, failures | 220,729 |
| `bookings_live` | Is every accepted request answered or cut, unless it waits for the SMTP server with the mail of a booking, and these too if that server answers (`RequestsAnswered`)?  Does every stop end, even if it does not (`StopEnds`)? | `Server`: 1 volunteer, 1 employee, 2 bookings, 2 connections, 1 code to be sent, failures and crashes | 113,870 |
| `rate_limiter` | How far does the counter overshoot (`CounterBounded`), how many requests does one life of the key admit (`AdmissionsBounded`), and does a counter with a TTL go away (`CounterGoesAway`)? | 3 requests, limit 2, window 2, resets, failures | 2,311 |
| `sessions` | Is a token ever usable together with the one it replaced (`RotationReplaces`), and for how many new ones can it be exchanged (`HeirsBounded`)?  What brings back a session that is over (`SessionStaysOver`)?  Does anybody get new tokens with a role that was taken away, once his sessions with it are over (`LapsedClaimsStayLapsed`)?  Do two browsers ever share a session (`SessionStaysInBrowser`)?  Does a browser that waits for its answers ever hold a token that was exchanged, or one of several of its session that can be used (`NeverStale`), or lose its cookies to anything but its own logout (`OnlyLogoutSignsOut`)?  Is every interleaving a behaviour of the session ledger (`SessionLedgerSpec`)? | `Browser`: 1 user in 2 browsers, of which one waits for its answers and the other has 2 requests open and loses answers; 2 requests, 3 seconds, refresh tokens live 2, access tokens 1, 2 standings, failures | 505,034 |
| `accounts` | Is there an account nobody confirmed (`AccountConfirmed`)?  How many sessions does one code buy (`CodeUsesBounded`)?  Is every interleaving a behaviour of the account registry (`RegistrySpec`), in which no two accounts come to share an address, a phone or a Google identity, and an account is activated and tokens are issued only with a used-up code that was sent to it? | an address in two spellings, a deactivated user with a phone, 1 Google identity, 2 codes, 2 requests, failures | 440,887 |
| `events` | Which participants does a past event still get (`PastEventClosed`)?  When does a client that pages through the list see an event twice (`RepeatsOnlyAfterApproval`) or not at all (`MissesOnlyAfterRejection`), and when is the total of a page not the length of the list, or less than what it has seen (`TotalCoversSeen`)?  The same of institutions, in each order (`RepeatsOnlyAfterAddition`, `MissesOnlyAfterRecount`); and what do missing coordinates hide (`BlockedOnlyAtTheEnd`)? | `MCLists`, one list at a time: 2 events, 1 volunteer, pages of 1, 2 instants, 2 requests, failures; 3 institutions, 2 distances, pages of 1, at most 1 open need each | 1,173,542 |

Six runs end in a counterexample on purpose.  Each checks one thing the repository's
own text says and the code does not do:

| run | what the text says | what happens |
|---|---|---|
| `cancel_race` | CancelMyBooking cancels a *pending* booking (`services/booking.go:243`) | the status is checked in one statement and overwritten in another: a booking approved or completed in between becomes cancelled |
| `lost_credit` | CompleteBooking marks the booking completed *and* increments the received quantity (`services/booking.go:181`) | two statements without a transaction; the second fails for an archived need, and the booking stays completed |
| `double_credit` | `received_qty` is how much has been collected (schema, line 59) | completing a completed booking credits it again |
| `limiter_forgets` | max 5 attempts per 15 minutes (`handlers/auth.go:405`) | a key that expires between a GET and the INCR is created again without a TTL, and its client is refused for ever once it is full |
| `same_second` | RefreshTokens revokes the token and issues a new pair (`services/auth.go:397`) | within the second of the old token's issue the new token is the same one; UNIQUE refuses it, and the old one is revoked |
| `phoneless` | a confirmed code creates the user and issues tokens (`services/auth.go:75`, `448`) | a missing phone is stored as "" in a UNIQUE column: the second registrant without a phone cannot be stored, and the code is used up |

### Bounds, and why they are enough

* *Requests.* The hazards are races of two requests, one of which may restart: two
  slots.  The limiter has three, since its bounds grow with the requests in flight.
* *Bookings and needs.* Two bookings are what a violation of uniqueness takes; needs
  are independent of each other (no statement reads two), so one is enough.  Two
  volunteers tell "one per volunteer" from "one".  `QtyInputs = {4, 10}` are 0.004,
  which is stored as 0.00, and 0.010, stored as 0.01; `MaxNumeric = 2`, so that two
  credits fit and a third one overflows.  Admins pass the same checks as employees of
  the institution (`Manages`) and are left out of the instances.
* *Time.* One window of two ticks lets a key expire before, between and after the
  commands of a request.  Three seconds with tokens of two let a session be
  refreshed once in the same second, once later, and expire.
* *Browsers.* Two of one user are what sharing a session takes, and what a logout or an
  alarm elsewhere takes.  One is *patient* (one request at a time, every answer
  delivered): the properties about stale cookies hold of those only, and the other one
  supplies the lost, late and reordered answers that they must hold against.  Two
  standings let a claim lapse and come back.  The `same_second` run has `Sessions` alone.
* *Connections.* Two, of which one may wait for the SMTP server while the other is
  accepted during a stop's first moment, refused after it, or cut.  One code to be sent
  (`MaxCodes`) lets its goroutine outlive the request, the other connection and a proper
  exit; needs are not edited, and hold one hundredth (`MaxNumeric = 1`), so that a second
  credit overflows.
* *Institutions.* With pages of one, two institutions are what a repeat and a miss take;
  the third lets one be added in the middle, and lets located and unlocated ones tie.
  One open need at most: the order by needs asks only which of two has more.  Pages of
  two (650,430 states of `Directory` alone) were searched once without an error.
* *Codes and users.* Two codes let an older one be the newest unverified one again;
  as many user ids as spellings, since addresses are unique, never run out.
* *Events.* With pages of one event, two events are what a repeat takes (one is approved
  in front of the one just seen) and what a miss takes (the one just seen is taken off).
  Two instants tell past from upcoming.  Three events with one request make 6,033,642
  states, which were searched once without an error; that run is not kept.
* *Symmetry* is used in runs without liveness properties only, and over sets whose
  elements no definition names.

The proofs of section 6 do without these bounds.

## 5. Fairness

Clients owe nothing: no `Begin...` action, need request, logout, `FailRequest`, accepted
connection, signal or crash is fair anywhere.  What is assumed is that the process runs
and that the services it waits for answer:

* `HandlerFairness` (`Server`): weak fairness of a handler's start and of its next
  statement.  net/http runs each connection in a goroutine of its own.  A goroutine that
  has issued a statement waits for PostgreSQL, holds no lock across statements (there
  are no transactions), and each statement takes at most row locks that end with it.
* `GraceFairness`: the context of `Shutdown` ends after five seconds (`app.go:171`), and
  `Fatal` exits.
* The SMTP server is *not* assumed to answer, since `smtp.SendMail` has no deadline.
  Without that a CreateBooking waits for ever, although `services/booking.go:19` says that
  the mail goes out asynchronously.  So the first half of `RequestsAnswered` excepts
  requests that wait so, and only the second has `SmtpAnswers` as its premise.
  `StopEnds` does without it.
* `SendCode` is not fair either: the goroutine of SendOTP waits for the SMTP or the SMS
  service, and no request and no stop waits for it.
* the limiter: `WF(Tick)`, time passes and Redis expires keys, and weak fairness of each
  request's pending command.

Strong fairness is nowhere needed: a request that waits stays enabled until it is served.

## 6. What is proved

TLAPS checks the following for every value of the constants the ASSUMEs allow (any
number of users, needs, bookings, requests, any limit, window and TTL).  The ASSUMEs say
only what kind of value a constant is; TLC evaluates them in every run.

| module | theorem | says |
|---|---|---|
| `BookingsProofs` | `TypeCorrect`, `OneLiveBooking`, `CreditIsExact`, `DecidedBookingsFrozen`, `ArchivedNeedsFrozen` | `Spec` implies `TypeOK`, `ActiveUnique`, `SettledCreditIsExact`, and the two action properties |
| `BookingsProofs` | `CancelsPendingAlone` | if requests do not overlap, `Spec` implies `CancelOnlyPending`, which the run `cancel_race` refutes for two |
| `ServerProofs` | `BookingsImplementLedger` | `Spec => LedgerSpec`: every behaviour is one of the atomic ledger |
| `ServerProofs` | `ServerIsBookings`, `ServerKeepsBookings` | `ServerSpec` implies `Spec` and with it the properties of bookings |
| `RateLimiterProofs` | `TypeCorrect`, `CounterStaysBounded`, `AdmissionsStayBounded` | the types and the two bounds |
| `RateLimiterProofs` | `LimitIsExactAlone` | with one request at a time, `Limit` requests are admitted per life of the key and no more |
| `SessionsProofs` | `TypeCorrect`, `RotationAlwaysReplaces`, `HeirsStayBounded`, `OverForGood`, `LapsedForGood` | the types, `RotationReplaces`, `HeirsBounded`, `SessionStaysOver`, `LapsedClaimsStayLapsed` |
| `SessionsProofs` | `SessionsImplementLedger` | `Spec => SessionLedgerSpec`: every behaviour is one of the atomic session ledger |
| `BrowserProofs` | `BrowserIsSessions`, `SessionsBehindBrowsers`, `BrowserTypeCorrect`, `OneBrowserPerSession`, `AlwaysFresh`, `SignedOutByLogout` | `BrowserSpec` implies `Spec` and with it the properties of sessions; the types; the three properties of browsers |
| `AccountsProofs` | `TypeCorrect`, `AccountsStayUnique`, `AccountsAreConfirmed`, `CodeUsesStayBounded` | the types, `AccountsUnique`, `AccountConfirmed`, `CodeUsesBounded` |
| `AccountsProofs` | `AccountsImplementRegistry` | `Spec => RegistrySpec`: every behaviour is one of the atomic account registry |
| `EventsProofs` | `TypeCorrect`, `PastEventsStayClosed`, `RepeatsNeedApproval`, `MissesNeedRejection`, `TotalsCover` | the types and the four properties of `Events`, for any page size |
| `DirectoryProofs` | `DirectoryTypeCorrect`, `NoneMissed`, `RepeatsNeedAddition`, `BlockedAtTheEnd` | the types and the three properties of `Directory`, for any page size |

Each proof finds an inductive invariant `IInv`, shows that `Init` implies it and that
every action preserves it (one step per action), and draws the property from it.

* **Bookings.** Types alone are not inductive: a step reads `bookings[reqs[r].booking]`,
  which is a row only because requests refer to rows that exist and rows are never
  deleted.  So `TypeOK` has `References` as a conjunct.
  `ActiveUnique` is inductive over `TypeOK`, since both writes of a status go through
  `IndexConflict`.  `SettledCreditIsExact` is inductive because
  `QuantityWritable` refuses to write a row that has left pending; `DecidedBookingsFrozen`
  follows from the same `WHERE` clause.  `CancelsPendingAlone` says where the run
  `cancel_race` goes wrong: what a cancellation has read (`CancelsPending`) stays true
  until it writes unless *another* request writes in between; failures and restarts alone
  do no harm.
* **Refinement.** A `CreditNeed` step is `Pay` when the need is writable and the sum fits,
  else `Forfeit`; `FailRequest` and `Restart` forfeit what is in flight; `Begin...`
  steps and refused statements stutter.  `TypeOK` gives the rows the mapping reads.
* **Server.** Each step of the server is a step of Bookings or leaves it alone (an exit by
  force or a crash is a `Restart`), so `[][Next]_vars` and all that follows from it carry
  over; the assumption is `Failures`, that the process may end at all.
* **Rate limiter.** `CounterBounded` is not inductive: an INCR needs to know how many
  others will still come.  `PendingCounted` bounds the counter *plus* the requests past
  the GET.  `ForgottenBounded` does the same for admissions: a late SET forgets what
  the counter had counted, at most `Limit - 1 + N`, and uses up one of the pending
  SETs, of which no new one arises while the key exists.  For one request the bound is
  `Limit` itself (`LimitIsExactAlone`): what the limiter admits beyond it is the price of
  its two commands.
* **Sessions.** `RotationReplaces` speaks of rows; a refresh that has revoked but not
  saved yet is where it could go wrong, so `RevokedBeforeSave` says that what such a
  request will name as replaced is revoked, and no action un-revokes a row.
  `HeirsBounded` is inductive because it adds to the tokens stored in place of a token the
  refreshes that are exchanging it: while there is an heir the token is revoked
  (`RotationReplaces`), so no further refresh begins, and each one under way leaves when
  it stores its heir.  `SessionStaysOver` has `UnderWay` for the same reason: a logout that
  falls between the two writes of a refresh does *not* end the session, which comes back
  when that refresh stores its token; but a refresh begins only with a token that can be
  used, so the set of those under way only shrinks.  `LapsedForGood` is the same argument
  for a role: new tokens with it come from a row, a usable token or a refresh under way
  (`Renewable`), and what the middleware takes (`Accepted`) only runs out otherwise.
* **Sessions implement the ledger.** `BeginRefresh` is `Begin`; `RevokeOld`, a logout, an
  alarm and a tick of the clock are `Expire`; `SaveToken` is `Redeem` after a refresh and
  `Open` after a login, or `Forfeit` if the token is there already.  The ledger asks of a
  redeemed token that it has the user, the claims and the session of the one it replaces,
  and that this one is dead; between the two writes these are values in a goroutine, so
  `HeirsInFlight` says what they are, and `RevokedBeforeSave` that the old row is revoked.
* **Browsers.** Behind `Typed` (the cookies and answers of a browser name stored tokens
  of its own user), `Rooted` says that the first token of a session is stored, or is
  just being stored by its login: a login that finds its token stored already fails
  (UNIQUE), so a session begins in one place.  That gives `SessionStaysInBrowser`.
  `NeverStale` and `OnlyLogoutSignsOut` need `Calm`: a patient browser has one request
  open; a token on its way to it is not used yet; its own tokens are used by itself
  alone (here `SessionStaysInBrowser` is needed); and once its token is exchanged the
  answer that replaces it is on the connection.  That its session does not fork, the other
  half of `NeverStale`, needs two facts more: whoever is about to exchange a token of that
  session is this browser with the token it has (`OwnSession`), and of the session's
  tokens at most one has no heir (`Unforked`; `HeirsInFlight` says whose heir a row will
  be).  Of a browser with several tabs this is false: two refreshes of one token in
  different seconds leave two usable ones.
* **Accounts.** `AccountsUnique` (implied by `RegistrySpec`, and proved by itself) is
  inductive: every write of a key goes through `Clash`, the UNIQUE constraints.
  `AccountConfirmed` needs two facts about requests between their statements: past
  `MarkVerified` their code is verified (`UsedUp`), and who is about to be inserted has
  the address the code was sent to, or Google's (`Vouched`; this is where it matters that
  registrations wait under their own address). `CodeUsesBounded` needs `CodesPaid`: the
  pairs of a verified code *plus* the requests that still hold it are at most
  `Cardinality(Requests)`, since no new request takes up a verified code and each that
  holds it leaves with one pair at most.
* **Accounts implement the registry.** `MarkVerified` is `Prove`, `InsertUser` is `Enroll`
  or `Welcome`, `LinkGoogle`, `Activate` and `IssueTokens` are steps of the same name;
  what only moves a request stutters, and what ends it early is `Forfeit`.  The registry
  asks that the account which is activated or given tokens is one the code was sent to.
  The code found that account in an earlier statement, so the proof carries along
  `Rightful`: the user a request holds is still one its code's receiver finds (accounts
  keep their address and phone), the person it will insert has that receiver as address,
  and what waits in Redis is an applicant.
* **Events.** The invariant relates what a client has seen to the list as it is *now*.
  As long as no event has appeared, an event it has seen is off the list or has a rank
  below the offset: ranks only fall (`RanksFall`).  As long as none has vanished, the
  events of the start and the seen ones are still on the list, and each of them that has
  a rank below the offset has been seen: ranks only rise (`RanksRise`).  At the end,
  `EmptyPageIsLast` closes the argument: ranks have no gaps, so if a page is empty every
  rank is below its offset.  The total covers what was seen because either count takes in
  the whole list; and as long as nothing is moderated the list is the one the client
  started with, whose length every page that shows something brings along.
  `PastEventClosed` follows from the types: the check of `BeginJoin` keeps new joins out,
  and `InsertParticipant` ends the join it stores.
* **Directory.** Rows are never taken away, so as long as the order does not depend on
  needs that change, places only rise (`PlacesRise`).  `Front`: what was there at the
  start and now has a place below the offset has been shown.  `Behind`: if nothing was
  added, what was shown has a place below the offset.  An empty page is the last
  (`EmptyPageIsLast`: places have no gaps, which takes the least and the greatest
  element of a set of numbers, from the library's well-founded induction).
  `BlockedOnlyAtTheEnd` follows from `Front`, because located institutions precede all
  others.

Only model-checked: liveness (`RequestsAnswered`, `StopEnds`, `CounterGoesAway`), which
is outside the prover's reach (a leads-to under weak fairness rests on ENABLED); and the
six violations, of which a counterexample is the proof.

## 7. What is not modelled, and why

* Passwords, message texts, names, units, urgency, notes, and the histories of
  needs beyond the fact that they were written: no step reads them back.
* Of the cookies: their attributes, and the OAuth state cookie, which is compared with
  what Google sends back and then forgotten.  The exchange with Google itself.
* In `Accounts`, how approval and role change: no code of this repository does it, it
  happens in the database by hand.  `Seeded` stands for users changed that way.
  `Sessions` has it as `SetStanding`.
* The counter of wrong codes (`otp.attempt`): written, never read.
* The institution check of `Register` and `CreateNeed`'s category: institutions and
  categories are never deleted by this program.
* Handlers that let a request through when the limiter returns an error (login,
  register, refresh refuse it, createBooking does not): a policy of each handler, with
  no effect on the limiter's state.  `createBooking` passes 3600 where the others pass
  minutes; the window's unit is a parameter here.
* Of institutions: their details (a single read) and the search filter, which selects
  by columns that never change.  The distance is a number here; the arc cosine that
  computes it may be given an argument a little above 1 by rounding, which PostgreSQL
  refuses, and that is left out.
* Statistics, vacancies and team members are single reads of tables that this program
  does not write.  SMS, MinIO and Telegram are calls to external services; an alert goes
  out in a goroutine of its own that no shutdown waits for, and nothing reads whether it
  arrived.
* Configuration, logging and wiring: they run once, before the first request.
* Of events: their details and the list of an institution, single reads; `is_deleted`,
  which this program never sets; the check that the institution exists, since
  institutions are never deleted.
* The text of the SQL filters of institutions and needs: string building without state.
