------------------------------- MODULE Events -------------------------------
(***************************************************************************)
(* Staff propose events and moderate them; volunteers join and leave them, *)
(* and clients page through the approved ones.  Each statement is atomic   *)
(* by itself, as in Bookings; a request that is refused before it writes   *)
(* changes nothing and is not an action.                                   *)
(*                                                                         *)
(* A walk is a client that asks for one page after the other, while events *)
(* are created and moderated.                                              *)
(***************************************************************************)
EXTENDS Integers, Sequences, FiniteSets

CONSTANTS
  Users,      \* who may join
  Requests,   \* bound: creations, joins and leaves that are in flight at once
  Limit,      \* the page size a client asks for
  MaxTime,    \* bound: the last instant of the clock
  MaxEvents,  \* bound: rows of the events table
  Failures    \* may statements fail and the server stop?

ASSUME EventsAssumption ==
  /\ Limit \in Nat \ {0}
  /\ MaxTime \in Nat
  /\ MaxEvents \in Nat
  /\ IsFiniteSet(Requests)
  /\ Failures \in BOOLEAN

VARIABLES
  now,           \* the clock
  events,        \* rows of the events table, in the order of their ids
  participants,  \* rows of event_participants
  reqs,          \* the creations, joins and leaves in flight
  walk           \* what a client has seen of the list so far

vars == <<now, events, participants, reqs, walk>>

----------------------------------------------------------------------------
(* Rows, requests and walks *)

\* No update changes the date.
Event == [date: Nat, status: {"pending", "approved", "rejected"}]

Idle == [at |-> "idle"]
Request ==
  {Idle}
  \cup [at: {"create"}, date: Nat]
  \cup [at: {"join", "leave"}, event: DOMAIN events, user: Users]

Goto(r, next) == reqs' = [reqs EXCEPT ![r] = next]
Answer(r) == Goto(r, Idle)

Approved == {e \in DOMAIN events : events[e].status = "approved"}

\* Of a walk: the events its pages have listed, the last total, and, as history,
\* the events that were approved at its start, whether events have appeared in
\* the list or vanished from it since, and whether a page listed one again.
NewWalk(approved) ==
  [at |-> "page", offset |-> 0, seen |-> {}, total |-> 0, start |-> approved,
   appeared |-> FALSE, vanished |-> FALSE, repeated |-> FALSE]

Walk == [at: {"page", "count", "done"}, offset: Nat, seen: SUBSET DOMAIN events,
         total: Nat, start: SUBSET DOMAIN events,
         appeared: BOOLEAN, vanished: BOOLEAN, repeated: BOOLEAN]

----------------------------------------------------------------------------
(* Creating and moderating *)

\* A date that is now is "in the future".
BeginCreate(r, date) ==
  /\ reqs[r] = Idle
  /\ Len(events) + Cardinality({q \in Requests : reqs[q].at = "create"}) < MaxEvents
  /\ date >= now
  /\ Goto(r, [at |-> "create", date |-> date])
  /\ UNCHANGED <<now, events, participants, walk>>

InsertEventWithoutStatus(r) ==
  /\ reqs[r].at = "create"
  /\ events' = Append(events, [date |-> reqs[r].date, status |-> ""])
  /\ Answer(r)
  /\ UNCHANGED <<now, participants, walk>>

InsertEvent(r) ==
  /\ reqs[r].at = "create"
  /\ events' = Append(events, [date |-> reqs[r].date, status |-> "pending"])
  /\ Answer(r)
  /\ UNCHANGED <<now, participants, walk>>

\* One UPDATE, whatever the status is.
UpdateEventStatus(e, status) ==
  /\ events' = [events EXCEPT ![e].status = status]
  /\ walk' = IF walk.at = "done" THEN walk ELSE
                [walk EXCEPT !.appeared = @ \/ (e \notin Approved /\ status = "approved"),
                             !.vanished = @ \/ (e \in Approved /\ status # "approved")]
  /\ UNCHANGED <<now, participants, reqs>>

ApproveEvent(e) == UpdateEventStatus(e, "approved")
RejectEvent(e) == UpdateEventStatus(e, "rejected")

----------------------------------------------------------------------------
(* Joining and leaving *)

BeginJoinAnyTime(r, e, u) ==
  /\ reqs[r] = Idle
  /\ Goto(r, [at |-> "join", event |-> e, user |-> u])
  /\ UNCHANGED <<now, events, participants, walk>>

\* Neither the status nor the number of participants is looked at.
BeginJoin(r, e, u) ==
  /\ reqs[r] = Idle
  /\ events[e].date >= now
  /\ Goto(r, [at |-> "join", event |-> e, user |-> u])
  /\ UNCHANGED <<now, events, participants, walk>>

\* ON CONFLICT DO NOTHING.
InsertParticipant(r) ==
  /\ reqs[r].at = "join"
  /\ participants' = participants \cup {<<reqs[r].event, reqs[r].user>>}
  /\ Answer(r)
  /\ UNCHANGED <<now, events, walk>>

BeginLeave(r, e, u) ==
  /\ reqs[r] = Idle
  /\ Goto(r, [at |-> "leave", event |-> e, user |-> u])
  /\ UNCHANGED <<now, events, participants, walk>>

DeleteParticipant(r) ==
  /\ reqs[r].at = "leave"
  /\ participants' = participants \ {<<reqs[r].event, reqs[r].user>>}
  /\ Answer(r)
  /\ UNCHANGED <<now, events, walk>>

----------------------------------------------------------------------------
(* Paging *)

\* ORDER BY event_date, id.
Before(e, f) ==
  \/ events[e].date < events[f].date
  \/ events[e].date = events[f].date /\ e < f

Rank(e) == Cardinality({f \in Approved : Before(f, e)})

UpcomingPage(offset) ==
  LET upcoming == {e \in Approved : events[e].date >= now} IN
  {e \in upcoming :
     Cardinality({f \in upcoming : Before(f, e)}) \in offset .. offset + Limit - 1}
OneMorePage(offset) == {e \in Approved : Rank(e) \in offset .. offset + Limit}

\* LIMIT and OFFSET; the total is that of the list, in the same statement.
Page(offset) == {e \in Approved : Rank(e) \in offset .. offset + Limit - 1}

TotalOfPage(offset) == Cardinality(Page(offset))
Total(offset) == Cardinality(Approved)

BeginWalk ==
  /\ walk.at = "done"
  /\ walk' = NewWalk(Approved)
  /\ UNCHANGED <<now, events, participants, reqs>>

\* The first statement of GetAllEvents.
GetPage ==
  /\ walk.at = "page"
  /\ LET items == Page(walk.offset) IN
     IF items = {}
       THEN walk' = [walk EXCEPT !.at = "count"]
       ELSE walk' = [walk EXCEPT !.offset = @ + Limit,
                                 !.seen = @ \cup items,
                                 !.total = Total(walk.offset),
                                 !.repeated = @ \/ items \cap walk.seen # {}]
  /\ UNCHANGED <<now, events, participants, reqs>>

\* The second statement, for an empty page: all events are counted, whatever their
\* status.
CountEvents ==
  /\ walk.at = "count"
  /\ walk' = [walk EXCEPT !.at = "done", !.total = Len(events)]
  /\ UNCHANGED <<now, events, participants, reqs>>

----------------------------------------------------------------------------
(* Time and failures *)

Tick ==
  /\ now < MaxTime
  /\ now' = now + 1
  /\ UNCHANGED <<events, participants, reqs, walk>>

FailRequest(r) ==
  /\ Failures
  /\ reqs[r] # Idle
  /\ Answer(r)
  /\ UNCHANGED <<now, events, participants, walk>>

\* The count fails: the client asks for the page again.
FailCount ==
  /\ Failures
  /\ walk.at = "count"
  /\ walk' = [walk EXCEPT !.at = "page"]
  /\ UNCHANGED <<now, events, participants, reqs>>

Restart ==
  /\ Failures
  /\ reqs' = [r \in Requests |-> Idle]
  /\ walk' = [walk EXCEPT !.at = IF @ = "count" THEN "page" ELSE @]
  /\ UNCHANGED <<now, events, participants>>

----------------------------------------------------------------------------
(* The specification *)

Init ==
  /\ now = 0
  /\ events = <<>>
  /\ participants = {}
  /\ reqs = [r \in Requests |-> Idle]
  /\ walk = NewWalk({})

Begin(r) ==
  \/ \E date \in 0 .. MaxTime : BeginCreate(r, date)
  \/ \E e \in DOMAIN events, u \in Users : BeginJoin(r, e, u) \/ BeginLeave(r, e, u)

Continue(r) ==
  InsertEvent(r) \/ InsertParticipant(r) \/ DeleteParticipant(r) \/ FailRequest(r)

Next ==
  \/ \E r \in Requests : Begin(r) \/ Continue(r)
  \/ \E e \in DOMAIN events : ApproveEvent(e) \/ RejectEvent(e)
  \/ BeginWalk \/ GetPage \/ CountEvents
  \/ Tick \/ FailCount \/ Restart

Spec == Init /\ [][Next]_vars

----------------------------------------------------------------------------
(* Properties *)

\* Rows, requests and walks are well typed; participants, requests and pages name
\* events that exist.
TypeOK ==
  /\ now \in Nat
  /\ events \in Seq(Event)
  /\ participants \subseteq (DOMAIN events) \X Users
  /\ reqs \in [Requests -> Request]
  /\ walk \in Walk

Joins(e) == {r \in Requests : reqs[r].at = "join" /\ reqs[r].event = e}
ParticipantsOf(e) == {p \in participants : p[1] = e}

\* Past events cannot be joined (JoinEvent).  The check and the INSERT are two
\* statements, so the joins that are under way when an event becomes past may still be
\* stored, each as the one participant it asked for; but no other join begins, and nothing
\* else adds a participant, whoever leaves, fails or moderates the event.
PastEventClosed ==
  [][\A e \in DOMAIN events : events[e].date < now =>
       /\ Joins(e)' \subseteq Joins(e)
       /\ ParticipantsOf(e)' \subseteq
            ParticipantsOf(e) \cup {<<e, reqs[r].user>> : r \in Joins(e) \ Joins(e)'}]_vars

\* Pages are cut out of a list that changes between them.  A client sees an event
\* again only if an event has been approved since it started ...
RepeatsOnlyAfterApproval == walk.repeated => walk.appeared

\* ... and it misses one that was in the list all the time only if an event has
\* been taken off the list: dates that pass and events that appear do no harm.
MissesOnlyAfterRejection ==
  walk.at = "done" /\ ~walk.vanished => walk.start \subseteq walk.seen

\* The total a page comes with covers what the client has been shown, as long as
\* nothing has been taken off the list; and if nothing has been moderated at all it is the
\* length of the list.  Only the total of an empty page is another one: it counts events
\* that the list does not show.
TotalCoversSeen ==
  /\ ~walk.vanished => Cardinality(walk.seen) <= walk.total
  /\ ~walk.vanished /\ ~walk.appeared /\ walk.seen # {} /\ walk.at # "done" =>
       walk.total = Cardinality(walk.start)
=============================================================================
