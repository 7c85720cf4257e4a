---------------------------- MODULE RateLimiter ----------------------------
(***************************************************************************)
(* The rate limiter keeps one counter with a time to live per key in       *)
(* Redis.  Keys do not touch each other, so one of them is modelled, with  *)
(* the requests that use it at the same time.                              *)
(*                                                                         *)
(* Allow issues two Redis commands: a GET, which decides what the request  *)
(* does next, and a SET or an INCR.  Other requests, and the expiry of the *)
(* key, come in between.  A request that is refused changes nothing and is *)
(* not an action.                                                          *)
(***************************************************************************)
EXTENDS Integers, FiniteSets

CONSTANTS
  Requests,  \* bound: requests with this key that are in flight at once
  Limit,     \* attempts admitted per window
  Window,    \* the window, in ticks of the clock
  Resets,    \* does the handler reset the attempts of a request that succeeds?
  Failures   \* may commands fail and the server stop?

ASSUME RateLimiterAssumption ==
  /\ IsFiniteSet(Requests)
  /\ Limit \in Nat \ {0}
  /\ Window \in Nat \ {0}
  /\ Resets \in BOOLEAN
  /\ Failures \in BOOLEAN

VARIABLES
  counter,  \* the key's value and the ticks it has to live
  reqs,     \* what each request does next
  admitted  \* history: requests admitted since the key came into being

vars == <<counter, reqs, admitted>>

----------------------------------------------------------------------------
(* Redis answers TTL with -2 for a key that does not exist and with -1 for *)
(* one that never expires.                                                 *)

Gone == -2
Never == -1
NoKey == [value |-> 0, ttl |-> Gone]
Exists == counter.ttl # Gone

\* SET with a time to live.
Set(ttl) == [value |-> 1, ttl |-> ttl]

\* INCR keeps the time to live; it creates a key that is missing, without one.
IncrForgetsTtl == [value |-> counter.value + 1, ttl |-> Never]
Incr ==
  [value |-> counter.value + 1, ttl |-> IF Exists THEN counter.ttl ELSE Never]

Goto(r, next) == reqs' = [reqs EXCEPT ![r] = next]

\* Allow returns: true, or (Failures) an error although the command was applied.
Return(r) ==
  \/ Goto(r, "admitted") /\ admitted' = admitted + 1
  \/ Failures /\ Goto(r, "idle") /\ UNCHANGED admitted

----------------------------------------------------------------------------
(* The requests *)

\* The GET, and what Allow does with its answer.
BeginAllowUnlimited(r) ==
  /\ reqs[r] = "idle"
  /\ Goto(r, IF Exists THEN "increment" ELSE "set")
  /\ UNCHANGED <<counter, admitted>>

BeginAllow(r) ==
  /\ reqs[r] = "idle"
  /\ Exists => counter.value < Limit
  /\ Goto(r, IF Exists THEN "increment" ELSE "set")
  /\ UNCHANGED <<counter, admitted>>

SetCounter(r) ==
  /\ reqs[r] = "set"
  /\ counter' = Set(Window)
  /\ Return(r)

IncrementCounter(r) ==
  /\ reqs[r] = "increment"
  /\ counter' = Incr
  /\ Return(r)

\* The handler answers the admitted request.
FinishRequest(r) ==
  /\ reqs[r] = "admitted"
  /\ Goto(r, "idle")
  /\ UNCHANGED <<counter, admitted>>

ResetAttemptsToZero(r) ==
  /\ Resets
  /\ reqs[r] = "admitted"
  /\ counter' = [counter EXCEPT !.value = 0]
  /\ admitted' = 0
  /\ Goto(r, "idle")

\* confirmOTP deletes the key after a success.
ResetAttempts(r) ==
  /\ Resets
  /\ reqs[r] = "admitted"
  /\ counter' = NoKey
  /\ admitted' = 0
  /\ Goto(r, "idle")

\* A Redis command fails without having been applied: Allow returns the error.
FailRequest(r) ==
  /\ Failures
  /\ reqs[r] \in {"set", "increment"}
  /\ Goto(r, "idle")
  /\ UNCHANGED <<counter, admitted>>

\* The server stops and starts again; Redis keeps the key.
Restart ==
  /\ Failures
  /\ reqs' = [r \in Requests |-> "idle"]
  /\ UNCHANGED <<counter, admitted>>

----------------------------------------------------------------------------
(* Time *)

\* A tick brings a key with a time to live closer to its end.
Tick ==
  /\ counter.ttl > 0
  /\ IF counter.ttl = 1
       THEN counter' = NoKey /\ admitted' = 0
       ELSE counter' = [counter EXCEPT !.ttl = @ - 1] /\ UNCHANGED admitted
  /\ UNCHANGED reqs

----------------------------------------------------------------------------
(* The specification *)

Init ==
  /\ counter = NoKey
  /\ reqs = [r \in Requests |-> "idle"]
  /\ admitted = 0

RedisStep(r) == SetCounter(r) \/ IncrementCounter(r)

Next ==
  \/ \E r \in Requests :
       \/ BeginAllow(r) \/ RedisStep(r)
       \/ FinishRequest(r) \/ ResetAttempts(r) \/ FailRequest(r)
  \/ Restart
  \/ Tick

Spec == Init /\ [][Next]_vars

\* Time passes and Redis answers; clients need not send anything.
FairSpec == Spec /\ WF_vars(Tick) /\ \A r \in Requests : WF_vars(RedisStep(r))

----------------------------------------------------------------------------
(* Properties *)

\* A key that exists has counted something and has a time to live or lives for
\* ever; the requests are at a command of Allow or past it.
TypeOK ==
  /\ \/ counter = NoKey
     \/ counter \in [value: Nat \ {0}, ttl: {Never} \cup 1 .. Window]
  /\ reqs \in [Requests -> {"idle", "set", "increment", "admitted"}]
  /\ admitted \in Nat

N == Cardinality(Requests)

\* Requests that have passed the GET are not stopped any more, but no others get
\* past a full counter: it overshoots the limit by at most the other requests in
\* flight.
CounterBounded == counter.value <= Limit - 1 + N

\* A request that saw no key sets the counter back to 1 however late its SET is
\* applied.  Even so, from the moment a key comes into being to the moment it is
\* deleted Allow admits a bounded number of requests: each SET that was pending
\* buys one more counter.
AdmissionsBounded == admitted <= N * (Limit - 1 + N)

\* A counter that has a time to live is deleted in the end: what clients go on
\* sending, late SETs included, does not keep it alive.
CounterGoesAway == (counter.ttl > 0) ~> ~Exists

\* What the comments of the handlers say ("max 5 attempts per 15 minutes"): a
\* client that has used up its attempts is admitted again after the window.
AttemptsForgotten == []<>(counter.value < Limit)
=============================================================================
