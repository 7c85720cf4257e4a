------------------------------- MODULE Server -------------------------------
(***************************************************************************)
(* The process that serves the requests of Bookings.  A connection is      *)
(* accepted while the server listens and is open until its request has     *)
(* been answered.  On SIGINT or SIGTERM the server stops listening, waits  *)
(* for the open connections, but not longer than its grace period, and     *)
(* exits; it may also crash.  Something starts it again.                   *)
(*                                                                         *)
(* A completion, for one, takes two statements: what is open when the      *)
(* process ends is cut between them.  A goroutine that sends a one-time    *)
(* password has no connection any more, and even a proper exit cuts it.    *)
(***************************************************************************)
EXTENDS BookingsRefinement

CONSTANT MaxCodes  \* bound: one-time passwords that wait to be sent at once

ASSUME ServerAssumption == MaxCodes \in Nat

VARIABLES
  phase,  \* of the process: "serving", "stopping" or "down"
  open,   \* the requests whose connections are open
  codes   \* how many one-time passwords are stored and not yet sent

serverVars == <<vars, phase, open, codes>>

----------------------------------------------------------------------------
(* Requests *)

Accept(r) ==
  /\ phase = "serving"
  /\ r \notin open
  /\ open' = open \cup {r}
  /\ UNCHANGED <<vars, phase, codes>>

\* The code is stored and the request answered; a goroutine is left to send the code.
SendOTP(r) ==
  /\ codes < MaxCodes
  /\ codes' = codes + 1
  /\ open' = open \ {r}
  /\ UNCHANGED vars

\* The handler refuses, does what takes one statement, or begins what takes more.
Receive(r) ==
  /\ r \in open /\ reqs[r] = Idle
  /\ \/ Begin(r) /\ UNCHANGED <<open, codes>>
     \/ (NeedRequest \/ UNCHANGED vars) /\ open' = open \ {r} /\ UNCHANGED codes
     \/ SendOTP(r)
  /\ UNCHANGED phase

\* A connection is open until its handler has returned.
Closing(r) ==
  /\ open' = IF reqs'[r] = Idle THEN open \ {r} ELSE open
  /\ UNCHANGED <<phase, codes>>

Execute(r) == DatabaseStep(r) /\ Closing(r)
Fail(r) == FailRequest(r) /\ Closing(r)
Mail(r) == SendEmail(r) /\ Closing(r)

\* The goroutine sends the code by mail or SMS; if it cannot, it only logs the error.
SendCode ==
  /\ codes > 0
  /\ codes' = codes - 1
  /\ UNCHANGED <<vars, phase, open>>

----------------------------------------------------------------------------
(* The process *)

\* A signal.  The listener is closed, and Shutdown waits.
Stop ==
  /\ phase = "serving"
  /\ phase' = "stopping"
  /\ UNCHANGED <<vars, open, codes>>

\* Shutdown waits for connections; the goroutines that send codes are cut.
ExitProperly ==
  /\ phase = "stopping"
  /\ open = {}
  /\ phase' = "down"
  /\ codes' = 0
  /\ UNCHANGED <<vars, open>>

\* Whatever is open is cut.
CutAll ==
  /\ reqs' = [r \in Requests |-> Idle]
  /\ open' = {}
  /\ codes' = 0
  /\ UNCHANGED <<needs, bookings>>

ExitOnlyProperly == ExitProperly

\* Shutdown gives up when the grace period is over.
ExitForced ==
  /\ phase = "stopping"
  /\ phase' = "down"
  /\ CutAll

\* Without a signal that could be caught.
Crash ==
  /\ Failures
  /\ phase # "down"
  /\ phase' = "down"
  /\ CutAll

Start ==
  /\ phase = "down"
  /\ phase' = "serving"
  /\ UNCHANGED <<vars, open, codes>>

----------------------------------------------------------------------------
(* The specification *)

ServerInit == Init /\ phase = "serving" /\ open = {} /\ codes = 0

ServerNext ==
  \/ \E r \in Requests : Accept(r) \/ Receive(r) \/ Execute(r) \/ Fail(r) \/ Mail(r)
  \/ SendCode
  \/ Stop \/ ExitProperly \/ ExitForced \/ Crash \/ Start

\* A handler goes on by itself, and PostgreSQL answers every statement.
HandlerFairness ==
  \A r \in Requests : WF_serverVars(Receive(r)) /\ WF_serverVars(Execute(r))
\* The grace period ends.
GraceFairness == WF_serverVars(ExitForced)
\* The SMTP server answers every connection: not assumed, smtp.SendMail has no deadline.
SmtpAnswers == \A r \in Requests : WF_serverVars(Mail(r))

ServerSpec == ServerInit /\ [][ServerNext]_serverVars /\ HandlerFairness /\ GraceFairness

----------------------------------------------------------------------------
(* Properties *)

\* Every request that is accepted is answered or cut, unless it waits for the SMTP server
\* with the mail of a new booking; and if that server answers, these are answered too.
\* None waits for another one, for the database, for a stop or for its code to be sent.
RequestsAnswered ==
  /\ \A r \in Requests : r \in open ~> r \notin open \/ reqs[r] = Emailing
  /\ SmtpAnswers => \A r \in Requests : r \in open ~> r \notin open

\* A stop always comes to its end, even if a request waits for an SMTP server that
\* never answers.
StopEnds == phase = "stopping" ~> phase = "down"
=============================================================================
