---------------------------- MODULE EventsProofs ----------------------------
(***************************************************************************)
(* For any events, users, page size and number of concurrent requests:     *)
(* past events stay closed, and a client that pages through the list sees  *)
(* an event again, or misses one, only if the list was moderated meanwhile.*)
(***************************************************************************)
EXTENDS Events, FiniteSetTheorems, SequenceTheorems, WellFoundedInduction, TLAPS

\* A nonempty set of numbers has a smallest one.
LEMMA Smallest ==
  ASSUME NEW T, T \subseteq Nat, T # {}
  PROVE  \E x \in T : \A y \in T : x <= y
<1>1. PICK x \in T : \A y \in T : ~(<<y, x>> \in OpToRel(<, Nat))
  BY NatLessThanWellFounded, WFMin
<1>2. \A y \in T : ~(y < x)
  BY <1>1 DEF OpToRel
<1> QED BY <1>2

\* ... and, if it is bounded, a largest one.
LEMMA Largest ==
  ASSUME NEW T, T \subseteq Nat, T # {}, NEW n \in Nat, \A y \in T : y <= n
  PROVE  \E x \in T : \A y \in T : y <= x
<1> DEFINE D == {n - y : y \in T}
<1>1. D \subseteq Nat /\ D # {}
  <2>1. \A y \in T : n - y \in Nat
    OBVIOUS
  <2>2. PICK y \in T : TRUE
    OBVIOUS
  <2>3. n - y \in D
    OBVIOUS
  <2> QED BY <2>1, <2>3
<1>2. PICK d \in D : \A c \in D : d <= c
  BY <1>1, Smallest
<1>3. PICK x \in T : d = n - x
  OBVIOUS
<1>4. ASSUME NEW y \in T PROVE y <= x
  <2>1. d <= n - y
    BY <1>2
  <2> QED BY <1>3, <2>1
<1> QED BY <1>4

----------------------------------------------------------------------------
(* The list *)

LEMMA RowsTyped ==
  ASSUME TypeOK
  PROVE  /\ Len(events) \in Nat /\ DOMAIN events = 1 .. Len(events)
         /\ \A e \in DOMAIN events : e \in Nat /\ events[e] \in Event /\ events[e].date \in Nat
         /\ IsFiniteSet(DOMAIN events) /\ Cardinality(DOMAIN events) = Len(events)
<1>1. Len(events) \in Nat /\ DOMAIN events = 1 .. Len(events) /\ events \in [1 .. Len(events) -> Event]
  BY LenProperties DEF TypeOK
<1>2. IsFiniteSet(1 .. Len(events)) /\ Cardinality(1 .. Len(events)) = Len(events)
  BY <1>1, FS_Interval
<1> QED BY <1>1, <1>2 DEF Event

\* Sets of events are finite.
LEMMA SetsOfEvents ==
  ASSUME TypeOK, NEW A, A \subseteq DOMAIN events
  PROVE  /\ IsFiniteSet(A) /\ Cardinality(A) \in Nat /\ Cardinality(A) <= Len(events)
         /\ \A B \in SUBSET A : Cardinality(B) \in Nat /\ Cardinality(B) <= Cardinality(A)
<1>1. IsFiniteSet(A) /\ Cardinality(A) <= Len(events)
  BY RowsTyped, FS_Subset
<1> QED BY <1>1, FS_Subset, FS_CardinalityType

Ahead(e) == {f \in Approved : Before(f, e)}

\* The order is strict and total, and ranks agree with it.
LEMMA Order ==
  ASSUME TypeOK
  PROVE  /\ \A e \in DOMAIN events : ~Before(e, e)
         /\ \A e, f \in DOMAIN events : e # f => Before(e, f) \/ Before(f, e)
         /\ \A e, f, g \in DOMAIN events : Before(e, f) /\ Before(f, g) => Before(e, g)
         /\ Approved \subseteq DOMAIN events
         /\ \A e : Rank(e) = Cardinality(Ahead(e)) /\ Rank(e) \in Nat
<1>1. \A e \in DOMAIN events : e \in Nat /\ events[e].date \in Nat
  BY RowsTyped
<1>2. Approved \subseteq DOMAIN events /\ \A e : Ahead(e) \subseteq DOMAIN events
  BY DEF Approved, Ahead
<1>3. \A e : Rank(e) = Cardinality(Ahead(e))
  BY DEF Rank, Ahead
<1> QED BY <1>1, <1>2, <1>3, SetsOfEvents DEF Before

LEMMA RankOrder ==
  ASSUME TypeOK, NEW e \in Approved, NEW f \in Approved, Before(f, e)
  PROVE  Rank(f) < Rank(e)
<1>1. /\ Ahead(f) \subseteq Ahead(e) \ {f} /\ f \in Ahead(e)
      /\ Ahead(e) \subseteq DOMAIN events
  BY Order DEF Ahead
<1>2. /\ IsFiniteSet(Ahead(e)) /\ IsFiniteSet(Ahead(e) \ {f})
      /\ Cardinality(Ahead(e) \ {f}) = Cardinality(Ahead(e)) - 1
  BY <1>1, SetsOfEvents, FS_RemoveElement
<1>3. Cardinality(Ahead(f)) <= Cardinality(Ahead(e)) - 1
  BY <1>1, <1>2, FS_Subset
<1> QED BY <1>3, Order

\* Ranks have no gaps: a page is empty only at the end of the list.
LEMMA EmptyPageIsLast ==
  ASSUME TypeOK, NEW offset \in Nat, Page(offset) = {}
  PROVE  \A e \in Approved : Rank(e) < offset
<1> DEFINE A == {e \in Approved : Rank(e) < offset}
           B == {e \in Approved : Rank(e) >= offset}
<1> SUFFICES ASSUME B # {} PROVE FALSE
  BY Order
<1>1. PICK m \in B : \A e \in B : Rank(m) <= Rank(e)
  <2> DEFINE T == {Rank(e) : e \in B}
  <2>1. T \subseteq Nat /\ T # {}
    BY Order
  <2>2. PICK x \in T : \A y \in T : x <= y
    BY <2>1, Smallest
  <2> QED BY <2>2
<1>2. Ahead(m) \subseteq A
  <2> SUFFICES ASSUME NEW f \in Ahead(m) PROVE f \in A
    OBVIOUS
  <2>1. f \in Approved /\ Rank(f) < Rank(m) /\ Rank(f) \in Nat /\ Rank(m) \in Nat
    BY RankOrder, Order DEF Ahead
  <2> QED BY <1>1, <2>1
<1>3. IsFiniteSet(A) /\ Cardinality(A) \in Nat /\ Cardinality(Ahead(m)) <= Cardinality(A)
  BY <1>2, Order, SetsOfEvents
<1>4. Cardinality(A) <= offset
  <2>1. CASE A = {}
    BY <2>1, FS_EmptySet
  <2>2. CASE A # {}
    <3>1. PICK a \in A : \A e \in A : Rank(e) <= Rank(a)
      <4> DEFINE T == {Rank(e) : e \in A}
      <4>1. T \subseteq Nat /\ T # {} /\ \A y \in T : y <= offset
        BY <2>2, Order
      <4>2. PICK x \in T : \A y \in T : y <= x
        BY <4>1, Largest
      <4> QED BY <4>2
    <3>2. A \ {a} \subseteq Ahead(a)
      <4> SUFFICES ASSUME NEW e \in A, e # a PROVE Before(e, a)
        BY DEF Ahead
      <4>1. Before(e, a) \/ Before(a, e)
        BY Order
      <4>2. ~Before(a, e)
        BY <3>1, RankOrder, Order
      <4> QED BY <4>1, <4>2
    <3>3. Cardinality(A) - 1 <= Cardinality(Ahead(a))
      <4>1. Cardinality(A \ {a}) = Cardinality(A) - 1
        BY <1>3, FS_RemoveElement
      <4>2. Ahead(a) \subseteq DOMAIN events
        BY Order DEF Ahead
      <4>3. Cardinality(A \ {a}) <= Cardinality(Ahead(a))
        BY <3>2, <4>2, SetsOfEvents
      <4> QED BY <4>1, <4>3
    <3> QED BY <1>3, <3>3, Order
  <2> QED BY <2>1, <2>2
<1>5. Rank(m) = offset
  BY <1>1, <1>3, <1>4, Order
<1>6. m \in Page(offset)
  BY <1>5, EventsAssumption DEF Page, EventsAssumption
<1> QED BY <1>6

----------------------------------------------------------------------------
(* What a step does to the list *)

\* Events stay, and keep their date, so their order.
RowsKept ==
  /\ DOMAIN events \subseteq DOMAIN events'
  /\ \A e \in DOMAIN events : events'[e].date = events[e].date

LEMMA EventAppended ==
  ASSUME TypeOK, NEW row \in Event, events' = Append(events, row), row.status = "pending"
  PROVE  events' \in Seq(Event) /\ RowsKept /\ Approved' = Approved
<1>1. events \in Seq(Event)
  BY DEF TypeOK
<1>2. /\ events' \in Seq(Event) /\ Len(events') = Len(events) + 1
      /\ \A i \in 1 .. Len(events) : events'[i] = events[i]
      /\ events'[Len(events) + 1] = row
  BY <1>1, AppendProperties
<1>3. DOMAIN events = 1 .. Len(events) /\ DOMAIN events' = 1 .. (Len(events) + 1) /\ Len(events) \in Nat
  BY <1>1, <1>2, LenProperties
<1> QED BY <1>2, <1>3 DEF RowsKept, Approved

LEMMA EventModerated ==
  ASSUME TypeOK, NEW e \in DOMAIN events, NEW status \in {"approved", "rejected"},
         UpdateEventStatus(e, status)
  PROVE  /\ events' \in Seq(Event) /\ RowsKept /\ DOMAIN events' = DOMAIN events
         /\ Approved' = IF status = "approved" THEN Approved \cup {e} ELSE Approved \ {e}
<1> DEFINE row == [events[e] EXCEPT !.status = status]
<1>1. events \in Seq(Event) /\ DOMAIN events = 1 .. Len(events) /\ events[e] \in Event
  BY RowsTyped DEF TypeOK
<1>2. row \in Event /\ row.date = events[e].date /\ row.status = status
  BY <1>1 DEF Event
<1>3. events' = [events EXCEPT ![e] = row]
  BY DEF UpdateEventStatus
<1> HIDE DEF row
<1>4. events' \in Seq(Event)
  BY <1>1, <1>2, <1>3, ExceptSeq
<1>5. DOMAIN events' = DOMAIN events /\ \A f \in DOMAIN events : events'[f] = IF f = e THEN row ELSE events[f]
  BY <1>3
<1> QED BY <1>2, <1>4, <1>5 DEF RowsKept, Approved

\* Ranks only fall if nothing appears, and only rise if nothing vanishes.
LEMMA RanksFall ==
  ASSUME TypeOK, RowsKept, Approved' \subseteq Approved, NEW e \in DOMAIN events
  PROVE  Rank(e)' <= Rank(e) /\ Rank(e)' \in Nat
<1>1. Ahead(e)' \subseteq Ahead(e) /\ Ahead(e) \subseteq DOMAIN events
  BY Order DEF Ahead, Before, RowsKept
<1>2. Rank(e)' = Cardinality(Ahead(e)')
  BY DEF Rank, Ahead
<1> QED BY <1>1, <1>2, SetsOfEvents, Order

LEMMA RanksRise ==
  ASSUME TypeOK, TypeOK', RowsKept, Approved \subseteq Approved', NEW e \in DOMAIN events
  PROVE  Rank(e) <= Rank(e)' /\ Rank(e)' \in Nat
<1>1. Ahead(e) \subseteq Ahead(e)' /\ Ahead(e)' \subseteq DOMAIN events'
  BY Order DEF Ahead, Before, RowsKept, Approved
<1>2. Rank(e)' = Cardinality(Ahead(e)')
  BY DEF Rank, Ahead
<1>3. IsFiniteSet(Ahead(e)') /\ Cardinality(Ahead(e)') \in Nat
  <2>1. events' \in Seq(Event)
    BY DEF TypeOK
  <2>2. Len(events') \in Nat /\ DOMAIN events' = 1 .. Len(events')
    BY <2>1, LenProperties
  <2>3. IsFiniteSet(DOMAIN events')
    BY <2>2, FS_Interval
  <2> QED BY <1>1, <2>3, FS_Subset, FS_CardinalityType
<1> QED BY <1>1, <1>2, <1>3, FS_Subset, Order

----------------------------------------------------------------------------
(* Types *)

\* Requests and walks stay well typed while rows are only added.
LEMMA RequestGrows ==
  ASSUME DOMAIN events \subseteq DOMAIN events'
  PROVE  Request \subseteq Request' /\ Walk \subseteq Walk'
<1>1. ASSUME NEW q \in Request PROVE q \in Request'
  BY <1>1 DEF Request, Idle
<1>2. ASSUME NEW w \in Walk PROVE w \in Walk'
  BY <1>2 DEF Walk
<1> QED BY <1>1, <1>2

LEMMA RequestFields ==
  ASSUME TypeOK, NEW r \in Requests
  PROVE  /\ reqs[r].at = "create" => reqs[r].date \in Nat
         /\ reqs[r].at \in {"join", "leave"} =>
              reqs[r].event \in DOMAIN events /\ reqs[r].user \in Users
<1>1. reqs[r] \in Request
  BY DEF TypeOK
<1> QED BY <1>1 DEF Request, Idle

\* A request moves on.
LEMMA RequestMoves ==
  ASSUME TypeOK, DOMAIN events \subseteq DOMAIN events', NEW r \in Requests,
         NEW next \in Request', Goto(r, next)
  PROVE  reqs' \in [Requests -> Request']
<1>1. reqs \in [Requests -> Request']
  BY RequestGrows DEF TypeOK
<1> QED BY <1>1 DEF Goto

LEMMA Keeps == TypeOK /\ [Next]_vars => TypeOK' /\ RowsKept
<1> SUFFICES ASSUME TypeOK, [Next]_vars PROVE TypeOK' /\ RowsKept
  OBVIOUS
<1> USE DEF Answer
<1>0. /\ Idle \in Request' /\ walk \in Walk /\ now \in Nat /\ events \in Seq(Event)
      /\ participants \subseteq (DOMAIN events) \X Users
      /\ reqs \in [Requests -> Request]
      /\ (UNCHANGED events => RowsKept /\ Request' = Request /\ Walk' = Walk)
  BY DEF Request, Walk, TypeOK, RowsKept
<1>1. ASSUME NEW r \in Requests, NEW next \in Request', Goto(r, next),
             UNCHANGED <<now, events, participants, walk>>
      PROVE  TypeOK' /\ RowsKept
  <2>1. reqs' \in [Requests -> Request']
    BY <1>1, RequestMoves
  <2> QED BY <1>0, <1>1, <2>1 DEF TypeOK
<1>2. ASSUME NEW r \in Requests, NEW date \in 0 .. MaxTime, BeginCreate(r, date)
      PROVE  TypeOK' /\ RowsKept
  <2>1. date \in Nat
    BY EventsAssumption DEF EventsAssumption
  <2>2. [at |-> "create", date |-> date] \in Request'
    BY <2>1 DEF Request
  <2> QED BY <1>1, <1>2, <2>2 DEF BeginCreate
<1>3. ASSUME NEW r \in Requests, NEW e \in DOMAIN events, NEW u \in Users,
             BeginJoin(r, e, u) \/ BeginLeave(r, e, u)
      PROVE  TypeOK' /\ RowsKept
  <2>1. /\ UNCHANGED <<now, events, participants, walk>>
        /\ \E place \in {"join", "leave"} : Goto(r, [at |-> place, event |-> e, user |-> u])
    BY <1>3 DEF BeginJoin, BeginLeave
  <2>2. \A place \in {"join", "leave"} : [at |-> place, event |-> e, user |-> u] \in Request'
    BY <2>1 DEF Request
  <2> QED BY <1>1, <2>1, <2>2
<1>4. ASSUME NEW r \in Requests, InsertEvent(r)
      PROVE  TypeOK' /\ RowsKept
  <2> DEFINE row == [date |-> reqs[r].date, status |-> "pending"]
  <2>1. row \in Event /\ row.status = "pending"
    BY <1>4, RequestFields DEF InsertEvent, Event
  <2>2. events' = Append(events, row) /\ UNCHANGED <<now, participants, walk>>
    BY <1>4 DEF InsertEvent
  <2>3. events' \in Seq(Event) /\ RowsKept
    BY <2>1, <2>2, EventAppended
  <2>4. reqs' \in [Requests -> Request'] /\ walk' \in Walk'
    BY <1>0, <1>4, <2>2, <2>3, RequestMoves, RequestGrows DEF InsertEvent, RowsKept
  <2>5. participants' \subseteq (DOMAIN events') \X Users
    BY <1>0, <2>2, <2>3 DEF RowsKept
  <2> QED BY <1>0, <2>2, <2>3, <2>4, <2>5 DEF TypeOK
<1>5. ASSUME NEW e \in DOMAIN events, NEW status \in {"approved", "rejected"},
             UpdateEventStatus(e, status)
      PROVE  TypeOK' /\ RowsKept
  <2>1. events' \in Seq(Event) /\ RowsKept /\ DOMAIN events' = DOMAIN events
    BY <1>5, EventModerated
  <2>2. Request' = Request /\ Walk' = Walk
    BY <2>1 DEF Request, Walk
  <2>3. walk' \in Walk
    BY <1>0, <1>5 DEF UpdateEventStatus, Walk
  <2> QED BY <1>0, <1>5, <2>1, <2>2, <2>3 DEF UpdateEventStatus, TypeOK
<1>6. ASSUME NEW r \in Requests, InsertParticipant(r) \/ DeleteParticipant(r)
      PROVE  TypeOK' /\ RowsKept
  <2>1. UNCHANGED <<now, events, walk>> /\ Goto(r, Idle)
    BY <1>6 DEF InsertParticipant, DeleteParticipant
  <2>2. participants' \subseteq (DOMAIN events) \X Users
    BY <1>0, <1>6, RequestFields DEF InsertParticipant, DeleteParticipant
  <2>3. reqs' \in [Requests -> Request']
    BY <1>0, <2>1, RequestMoves
  <2> QED BY <1>0, <2>1, <2>2, <2>3 DEF TypeOK
<1>7. ASSUME NEW r \in Requests, FailRequest(r)
      PROVE  TypeOK' /\ RowsKept
  BY <1>0, <1>1, <1>7 DEF FailRequest
\* Steps of the walk.
<1>8. ASSUME walk' \in Walk, UNCHANGED <<now, events, participants>>,
             reqs' \in [Requests -> Request]
      PROVE  TypeOK' /\ RowsKept
  BY <1>0, <1>8 DEF TypeOK
<1>9. CASE BeginWalk
  <2>1. walk' \in Walk
    BY <1>9 DEF BeginWalk, NewWalk, Walk, Approved
  <2> QED BY <1>0, <1>8, <1>9, <2>1 DEF BeginWalk
<1>10. CASE GetPage
  <2> DEFINE items == Page(walk.offset)
  <2>1. items \subseteq DOMAIN events
    BY DEF Page, Approved
  <2>2. Limit \in Nat /\ Total(walk.offset) \in Nat
    BY Order, SetsOfEvents, EventsAssumption DEF Total, EventsAssumption
  <2>3. CASE items = {}
    <3>1. walk' \in Walk
      BY <1>0, <1>10, <2>3 DEF GetPage, Walk
    <3> QED BY <1>0, <1>8, <1>10, <3>1 DEF GetPage
  <2>4. CASE items # {}
    <3>1. walk' = [walk EXCEPT !.offset = @ + Limit,
                               !.seen = @ \cup items,
                               !.total = Total(walk.offset),
                               !.repeated = @ \/ items \cap walk.seen # {}]
      BY <1>10, <2>4 DEF GetPage
    <3> HIDE DEF items
    <3>2. /\ walk.offset + Limit \in Nat
          /\ walk.seen \cup items \in SUBSET DOMAIN events
          /\ (walk.repeated \/ items \cap walk.seen # {}) \in BOOLEAN
      BY <1>0, <2>1, <2>2 DEF Walk
    <3>3. walk' \in Walk
      BY <1>0, <2>2, <3>1, <3>2 DEF Walk
    <3> QED BY <1>0, <1>8, <1>10, <3>3 DEF GetPage
  <2> QED BY <2>3, <2>4
<1>11. CASE CountEvents
  <2>1. walk' \in Walk
    BY <1>0, <1>11, RowsTyped DEF CountEvents, Walk
  <2> QED BY <1>0, <1>8, <1>11, <2>1 DEF CountEvents
<1>12. CASE FailCount \/ Restart
  <2>1. walk' \in Walk
    BY <1>0, <1>12 DEF FailCount, Restart, Walk
  <2>2. reqs' \in [Requests -> Request]
    BY <1>0, <1>12 DEF FailCount, Restart, Request
  <2> QED BY <1>8, <1>12, <2>1, <2>2 DEF FailCount, Restart
<1>13. CASE Tick
  BY <1>0, <1>13 DEF Tick, TypeOK
<1>14. CASE UNCHANGED vars
  BY <1>0, <1>14 DEF vars, TypeOK
<1> QED
  BY <1>2, <1>3, <1>4, <1>5, <1>6, <1>7, <1>9, <1>10, <1>11, <1>12, <1>13, <1>14
  DEF Next, Begin, Continue, ApproveEvent, RejectEvent

----------------------------------------------------------------------------
(* The invariant of a walk *)

\* If nothing has appeared, all there is was there from the start and what was seen has
\* been passed; if nothing has vanished, what was there from the start and has been passed
\* was seen.
Passed ==
  /\ walk.at # "done" /\ ~walk.appeared =>
       /\ Approved \subseteq walk.start
       /\ \A e \in walk.seen : e \in Approved => Rank(e) < walk.offset
  /\ walk.at # "done" /\ ~walk.vanished =>
       /\ walk.start \subseteq Approved /\ walk.seen \subseteq Approved
       /\ \A e \in walk.start : Rank(e) < walk.offset => e \in walk.seen
  /\ walk.at = "count" /\ ~walk.vanished => walk.start \subseteq walk.seen

WalkInv ==
  /\ Passed /\ RepeatsOnlyAfterApproval /\ MissesOnlyAfterRejection /\ TotalCoversSeen

IInv == TypeOK /\ WalkInv

LEMMA WalkTyped ==
  ASSUME TypeOK
  PROVE  /\ walk.at \in {"page", "count", "done"} /\ walk.offset \in Nat
         /\ walk.seen \subseteq DOMAIN events /\ walk.start \subseteq DOMAIN events
         /\ walk.repeated \in BOOLEAN /\ walk.appeared \in BOOLEAN /\ walk.vanished \in BOOLEAN
  BY DEF TypeOK, Walk

\* The list changes under a walk.
LEMMA ListChanges ==
  ASSUME IInv, TypeOK', RowsKept,
         walk'.at = walk.at, walk'.offset = walk.offset, walk'.seen = walk.seen,
         walk'.total = walk.total, walk'.start = walk.start, walk'.repeated = walk.repeated,
         walk.appeared => walk'.appeared, walk.vanished => walk'.vanished,
         walk.at # "done" /\ ~walk'.appeared => Approved' \subseteq Approved,
         walk.at # "done" /\ ~walk'.vanished => Approved \subseteq Approved'
  PROVE  WalkInv'
<1>1. /\ walk.offset \in Nat /\ TypeOK
      /\ walk.seen \subseteq DOMAIN events /\ walk.start \subseteq DOMAIN events
      /\ \A e : Rank(e) \in Nat
  BY WalkTyped, Order DEF IInv
<1>2. ASSUME walk.at # "done", ~walk'.appeared, NEW e \in walk.seen, e \in Approved'
      PROVE  Rank(e)' < walk.offset
  <2>1. e \in Approved /\ Rank(e) < walk.offset
    BY <1>2 DEF IInv, WalkInv, Passed
  <2>2. Rank(e)' <= Rank(e) /\ Rank(e)' \in Nat
    BY <1>1, <1>2, RanksFall
  <2> QED BY <1>1, <2>1, <2>2
<1>3. ASSUME walk.at # "done", ~walk'.vanished
      PROVE  /\ walk.start \subseteq Approved' /\ walk.seen \subseteq Approved'
             /\ \A e \in walk.start : Rank(e)' < walk.offset => e \in walk.seen
  <2>1. /\ walk.start \subseteq Approved /\ walk.seen \subseteq Approved
        /\ \A e \in walk.start : Rank(e) < walk.offset => e \in walk.seen
    BY <1>3 DEF IInv, WalkInv, Passed
  <2>2. ASSUME NEW e \in walk.start, Rank(e)' < walk.offset
        PROVE  e \in walk.seen
    <3>1. Rank(e) <= Rank(e)' /\ Rank(e)' \in Nat
      BY <1>1, <1>3, RanksRise
    <3> QED BY <1>1, <2>1, <2>2, <3>1
  <2> QED BY <1>3, <2>1, <2>2
<1>4. ASSUME walk.at # "done", ~walk'.appeared
      PROVE  Approved' \subseteq walk.start
  BY <1>4 DEF IInv, WalkInv, Passed
<1>5. Passed'
  BY <1>2, <1>3, <1>4 DEF Passed, IInv, WalkInv
<1> QED
  BY <1>5 DEF IInv, WalkInv, RepeatsOnlyAfterApproval, MissesOnlyAfterRejection, TotalCoversSeen

\* The walk goes on in a list that stays.
LEMMA PageRead ==
  ASSUME IInv, GetPage
  PROVE  WalkInv'
<1> DEFINE items == Page(walk.offset)
<1>1. /\ TypeOK /\ walk.offset \in Nat /\ Limit \in Nat \ {0}
      /\ walk.seen \subseteq DOMAIN events /\ walk.start \subseteq DOMAIN events
      /\ UNCHANGED events /\ \A e : Rank(e) \in Nat /\ Rank(e)' = Rank(e)
      /\ Approved' = Approved /\ walk.at = "page" /\ walk \in Walk
  BY WalkTyped, Order, EventsAssumption
  DEF IInv, EventsAssumption, GetPage, Rank, Before, Approved, TypeOK
<1>2. CASE items = {}
  <2>1. walk' = [walk EXCEPT !.at = "count"]
    BY <1>2 DEF GetPage
  <2>2. /\ walk'.at = "count" /\ walk'.offset = walk.offset /\ walk'.seen = walk.seen
        /\ walk'.total = walk.total /\ walk'.start = walk.start /\ walk'.repeated = walk.repeated
        /\ walk'.appeared = walk.appeared /\ walk'.vanished = walk.vanished
    BY <1>1, <2>1 DEF Walk
  <2>3. ~walk.vanished => walk.start \subseteq walk.seen
    BY <1>1, <1>2, EmptyPageIsLast DEF IInv, WalkInv, Passed
  <2>4. Passed'
    BY <1>1, <2>2, <2>3 DEF IInv, WalkInv, Passed
  <2>5. walk.at # "done"
    BY <1>1
  <2> QED
    BY <2>2, <2>4, <2>5
    DEF IInv, WalkInv, RepeatsOnlyAfterApproval, MissesOnlyAfterRejection, TotalCoversSeen
<1>3. CASE items # {}
  <2>1. walk' = [walk EXCEPT !.offset = @ + Limit,
                             !.seen = @ \cup items,
                             !.total = Total(walk.offset),
                             !.repeated = @ \/ items \cap walk.seen # {}]
    BY <1>3 DEF GetPage
  <2> HIDE DEF items
  <2>2. /\ walk'.at = "page" /\ walk'.offset = walk.offset + Limit
        /\ walk'.seen = walk.seen \cup items /\ walk'.total = Cardinality(Approved)
        /\ walk'.start = walk.start /\ walk'.appeared = walk.appeared
        /\ walk'.vanished = walk.vanished
        /\ walk'.repeated <=> walk.repeated \/ items \cap walk.seen # {}
    BY <1>1, <2>1 DEF Walk, Total
  <2>3. \A e \in Approved :
          /\ e \in items <=> Rank(e) >= walk.offset /\ Rank(e) < walk.offset + Limit
          /\ Rank(e) < walk.offset => Rank(e) < walk.offset + Limit
    BY <1>1 DEF items, Page
  <2>4. items \subseteq Approved
    BY DEF items, Page
  <2>5. ~walk.appeared => items \cap walk.seen = {}
    BY <1>1, <2>3, <2>4 DEF IInv, WalkInv, Passed
  <2>6. ~walk.appeared =>
          /\ Approved \subseteq walk.start
          /\ \A e \in walk.seen \cup items : e \in Approved => Rank(e) < walk.offset + Limit
    BY <1>1, <2>3, <2>4 DEF IInv, WalkInv, Passed
  <2>7. ~walk.vanished =>
          /\ walk.start \subseteq Approved /\ walk.seen \cup items \subseteq Approved
          /\ \A e \in walk.start :
               Rank(e) < walk.offset + Limit => e \in walk.seen \cup items
    <3> SUFFICES ASSUME ~walk.vanished
                 PROVE  /\ walk.start \subseteq Approved /\ walk.seen \cup items \subseteq Approved
                        /\ \A e \in walk.start :
                             Rank(e) < walk.offset + Limit => e \in walk.seen \cup items
      OBVIOUS
    <3>1. /\ walk.start \subseteq Approved /\ walk.seen \subseteq Approved
          /\ \A e \in walk.start : Rank(e) < walk.offset => e \in walk.seen
      BY <1>1 DEF IInv, WalkInv, Passed
    <3>2. \A e \in walk.start : Rank(e) < walk.offset \/ Rank(e) >= walk.offset
      BY <1>1
    <3> QED BY <2>3, <2>4, <3>1, <3>2
  <2>8. Passed'
    BY <1>1, <2>2, <2>6, <2>7 DEF Passed
  <2>9. TotalCoversSeen'
    <3>1. Approved \subseteq DOMAIN events
      BY <1>1, Order
    <3>2. ~walk.vanished => Cardinality(walk.seen \cup items) <= Cardinality(Approved)
      BY <1>1, <2>7, <3>1, SetsOfEvents
    <3>3. ~walk.vanished /\ ~walk.appeared => walk.start = Approved
      BY <1>1, <2>7 DEF IInv, WalkInv, Passed
    <3> QED BY <2>2, <3>2, <3>3 DEF TotalCoversSeen
  <2>10. RepeatsOnlyAfterApproval' /\ MissesOnlyAfterRejection'
    BY <2>2, <2>5 DEF IInv, WalkInv, RepeatsOnlyAfterApproval, MissesOnlyAfterRejection
  <2> QED BY <2>8, <2>9, <2>10 DEF WalkInv
<1> QED BY <1>2, <1>3

LEMMA InitIInv == Init => IInv
<1> SUFFICES ASSUME Init PROVE IInv
  OBVIOUS
<1>1. /\ now = 0 /\ events = <<>> /\ participants = {} /\ DOMAIN events = {}
      /\ events \in Seq(Event) /\ walk = NewWalk({})
      /\ reqs \in [Requests -> Request]
  BY DEF Init, Request
<1>2. TypeOK
  BY <1>1 DEF TypeOK, NewWalk, Walk
<1>3. Cardinality({}) = 0
  BY FS_EmptySet
<1>4. Approved = {}
  BY <1>1 DEF Approved
<1>5. WalkInv
  BY <1>1, <1>3, <1>4
  DEF WalkInv, NewWalk, Passed, RepeatsOnlyAfterApproval, MissesOnlyAfterRejection,
      TotalCoversSeen
<1> QED BY <1>2, <1>5 DEF IInv

LEMMA IInvStep == IInv /\ [Next]_vars => IInv'
<1> SUFFICES ASSUME IInv, [Next]_vars PROVE WalkInv'
  BY Keeps DEF IInv
<1>0. /\ TypeOK /\ TypeOK' /\ RowsKept /\ walk \in Walk
      /\ (UNCHANGED events => Approved' = Approved /\ \A e : Rank(e)' = Rank(e))
  BY Keeps DEF IInv, TypeOK, Approved, Rank, Before
<1>1. CASE UNCHANGED <<events, walk>>
  BY <1>0, <1>1, ListChanges
<1>2. ASSUME NEW r \in Requests, InsertEvent(r)
      PROVE  WalkInv'
  <2> DEFINE row == [date |-> reqs[r].date, status |-> "pending"]
  <2>1. row \in Event /\ row.status = "pending"
    BY <1>0, <1>2, RequestFields DEF InsertEvent, Event
  <2>2. Approved' = Approved /\ UNCHANGED walk
    BY <1>0, <1>2, <2>1, EventAppended DEF InsertEvent
  <2> QED BY <1>0, <2>2, ListChanges
<1>3. ASSUME NEW e \in DOMAIN events, NEW status \in {"approved", "rejected"},
             UpdateEventStatus(e, status)
      PROVE  WalkInv'
  <2>1. Approved' = IF status = "approved" THEN Approved \cup {e} ELSE Approved \ {e}
    BY <1>0, <1>3, EventModerated
  <2>2. CASE walk.at = "done"
    <3>1. UNCHANGED walk
      BY <1>3, <2>2 DEF UpdateEventStatus
    <3> QED BY <1>0, <2>2, <3>1, ListChanges
  <2>3. CASE walk.at # "done"
    <3>1. walk' = [walk EXCEPT
                     !.appeared = @ \/ (e \notin Approved /\ status = "approved"),
                     !.vanished = @ \/ (e \in Approved /\ status # "approved")]
      BY <1>3, <2>3 DEF UpdateEventStatus
    <3>2. /\ walk'.at = walk.at /\ walk'.offset = walk.offset /\ walk'.seen = walk.seen
          /\ walk'.total = walk.total /\ walk'.start = walk.start
          /\ walk'.repeated = walk.repeated
      BY <1>0, <3>1 DEF Walk
    <3>3. /\ walk'.appeared <=> walk.appeared \/ (e \notin Approved /\ status = "approved")
          /\ walk'.vanished <=> walk.vanished \/ (e \in Approved /\ status # "approved")
      BY <1>0, <3>1 DEF Walk
    <3>4. /\ ~walk'.appeared => Approved' \subseteq Approved
          /\ ~walk'.vanished => Approved \subseteq Approved'
      BY <2>1, <3>3
    <3> QED BY <1>0, <3>2, <3>3, <3>4, ListChanges
  <2> QED BY <2>2, <2>3
<1>4. CASE BeginWalk
  <2>1. walk' = NewWalk(Approved) /\ UNCHANGED events
    BY <1>4 DEF BeginWalk
  <2>2. \A e : Rank(e) \in Nat
    BY <1>0, Order
  <2>3. /\ walk'.at = "page" /\ walk'.offset = 0 /\ walk'.seen = {} /\ walk'.total = 0
        /\ walk'.start = Approved /\ ~walk'.repeated
    BY <2>1 DEF NewWalk
  <2>4. Passed'
    BY <1>0, <2>1, <2>2, <2>3 DEF Passed
  <2> QED
    BY <2>3, <2>4, FS_EmptySet
    DEF WalkInv, RepeatsOnlyAfterApproval, MissesOnlyAfterRejection, TotalCoversSeen
<1>5. CASE GetPage
  BY <1>5, PageRead
<1>6. CASE CountEvents
  <2>1. /\ walk'.at = "done" /\ walk'.seen = walk.seen /\ walk'.total = Len(events)
        /\ walk'.start = walk.start /\ walk'.repeated = walk.repeated
        /\ walk'.appeared = walk.appeared /\ walk'.vanished = walk.vanished /\ walk.at = "count"
    BY <1>0, <1>6 DEF CountEvents, Walk
  <2>2. Cardinality(walk.seen) <= Len(events)
    BY <1>0, WalkTyped, SetsOfEvents
  <2> QED
    BY <2>1, <2>2
    DEF IInv, WalkInv, Passed, RepeatsOnlyAfterApproval, MissesOnlyAfterRejection,
        TotalCoversSeen
<1>7. CASE FailCount \/ Restart
  <2>1. /\ walk'.at = walk.at \/ (walk.at = "count" /\ walk'.at = "page")
        /\ walk'.offset = walk.offset /\ walk'.seen = walk.seen /\ walk'.total = walk.total
        /\ walk'.start = walk.start /\ walk'.repeated = walk.repeated
        /\ walk'.appeared = walk.appeared /\ walk'.vanished = walk.vanished
        /\ UNCHANGED events
    BY <1>0, <1>7 DEF FailCount, Restart, Walk
  <2>2. Passed'
    BY <1>0, <2>1 DEF IInv, WalkInv, Passed
  <2> QED
    BY <2>1, <2>2
    DEF IInv, WalkInv, RepeatsOnlyAfterApproval, MissesOnlyAfterRejection, TotalCoversSeen
<1>8. CASE ~UNCHANGED <<events, walk>>
  <2>1. \/ \E r \in Requests : InsertEvent(r)
        \/ \E e \in DOMAIN events : ApproveEvent(e) \/ RejectEvent(e)
        \/ BeginWalk \/ GetPage \/ CountEvents \/ FailCount \/ Restart
    BY <1>8, Zenon
    DEF Next, vars, Begin, Continue, BeginCreate, BeginJoin, BeginLeave, InsertParticipant,
        DeleteParticipant, FailRequest, Tick
  <2> QED BY <1>2, <1>3, <1>4, <1>5, <1>6, <1>7, <2>1 DEF ApproveEvent, RejectEvent
<1> QED BY <1>1, <1>8

----------------------------------------------------------------------------
(* Past events *)

\* What a step may do to an event that is past.
StaysClosed(e) ==
  /\ Joins(e)' \subseteq Joins(e)
  /\ ParticipantsOf(e)' \subseteq
       ParticipantsOf(e) \cup {<<e, reqs[r].user>> : r \in Joins(e) \ Joins(e)'}

LEMMA ClosedStep ==
  ASSUME TypeOK, [Next]_vars, NEW e \in DOMAIN events, events[e].date < now
  PROVE  StaysClosed(e)
<1> USE DEF Answer
<1>0. reqs \in [Requests -> Request] /\ now \in Nat /\ events[e].date \in Nat
  BY RowsTyped DEF TypeOK
<1>1. ASSUME participants' \subseteq participants,
             \A r \in Requests : reqs'[r] = reqs[r] \/ ~(reqs'[r].at = "join" /\ reqs'[r].event = e)
      PROVE  StaysClosed(e)
  BY <1>1 DEF StaysClosed, ParticipantsOf, Joins
<1>2. ASSUME NEW r \in Requests, NEW next, Goto(r, next), participants' \subseteq participants,
             ~(next.at = "join" /\ next.event = e)
      PROVE  StaysClosed(e)
  <2>1. \A q \in Requests : reqs'[q] = IF q = r THEN next ELSE reqs[q]
    BY <1>0, <1>2 DEF Goto
  <2> QED BY <1>1, <1>2, <2>1
<1>3. ASSUME NEW r \in Requests, NEW date, BeginCreate(r, date)
      PROVE  StaysClosed(e)
  BY <1>2, <1>3 DEF BeginCreate
<1>4. ASSUME NEW r \in Requests, NEW f \in DOMAIN events, NEW u \in Users, BeginJoin(r, f, u)
      PROVE  StaysClosed(e)
  <2>1. f # e
    BY <1>0, <1>4 DEF BeginJoin
  <2> QED BY <1>2, <1>4, <2>1 DEF BeginJoin
<1>5. ASSUME NEW r \in Requests, NEW f \in DOMAIN events, NEW u \in Users, BeginLeave(r, f, u)
      PROVE  StaysClosed(e)
  BY <1>2, <1>5 DEF BeginLeave
\* A join that is stored is no longer under way, and adds the participant it asked for.
<1>6. ASSUME NEW r \in Requests, InsertParticipant(r)
      PROVE  StaysClosed(e)
  <2>1. /\ reqs[r].at = "join"
        /\ participants' = participants \cup {<<reqs[r].event, reqs[r].user>>}
    BY <1>6 DEF InsertParticipant
  <2>2. \A q \in Requests : reqs'[q] = IF q = r THEN Idle ELSE reqs[q]
    BY <1>0, <1>6 DEF InsertParticipant, Goto
  <2>3. Joins(e)' = Joins(e) \ {r}
    BY <2>2 DEF Joins, Idle
  <2>4. reqs[r].event = e => r \in Joins(e) \ Joins(e)'
    BY <2>1, <2>3 DEF Joins
  <2>5. ASSUME NEW p \in ParticipantsOf(e)', p \notin ParticipantsOf(e)
        PROVE  p = <<e, reqs[r].user>> /\ reqs[r].event = e
    <3>1. p = <<reqs[r].event, reqs[r].user>> /\ p[1] = e
      BY <2>1, <2>5 DEF ParticipantsOf
    <3> QED BY <3>1
  <2> QED BY <2>3, <2>4, <2>5 DEF StaysClosed
<1>7. ASSUME NEW r \in Requests, InsertEvent(r) \/ DeleteParticipant(r) \/ FailRequest(r)
      PROVE  StaysClosed(e)
  <2>1. Goto(r, Idle) /\ participants' \subseteq participants
    BY <1>7 DEF InsertEvent, DeleteParticipant, FailRequest
  <2> QED BY <1>2, <2>1 DEF Idle
<1>8. CASE Restart
  BY <1>1, <1>8 DEF Restart, Idle
<1>9. CASE UNCHANGED <<participants, reqs>>
  BY <1>1, <1>9
<1>10. CASE \/ \E f \in DOMAIN events : ApproveEvent(f) \/ RejectEvent(f)
            \/ BeginWalk \/ GetPage \/ CountEvents \/ Tick \/ FailCount \/ UNCHANGED vars
  <2>1. UNCHANGED <<participants, reqs>>
    BY <1>10
    DEF ApproveEvent, RejectEvent, UpdateEventStatus, BeginWalk, GetPage, CountEvents, Tick,
        FailCount, vars
  <2> QED BY <1>9, <2>1
<1> QED
  BY <1>3, <1>4, <1>5, <1>6, <1>7, <1>8, <1>10 DEF Next, Begin, Continue

----------------------------------------------------------------------------
(* Theorems *)

LEMMA Invariance == Spec => []IInv
  BY InitIInv, IInvStep, PTL DEF Spec

\* Rows, requests and walks are well typed: what they name exists.
THEOREM TypeCorrect == Spec => []TypeOK
<1>1. IInv => TypeOK
  BY DEF IInv
<1> QED BY <1>1, Invariance, PTL

\* An event that is past gets no participant but those of the joins that were under way.
THEOREM PastEventsStayClosed == Spec => PastEventClosed
<1>1. IInv /\ [Next]_vars =>
        [\A e \in DOMAIN events : events[e].date < now =>
           /\ Joins(e)' \subseteq Joins(e)
           /\ ParticipantsOf(e)' \subseteq
                ParticipantsOf(e) \cup {<<e, reqs[r].user>> : r \in Joins(e) \ Joins(e)'}]_vars
  BY ClosedStep DEF IInv, StaysClosed
<1> QED BY <1>1, Invariance, PTL DEF Spec, PastEventClosed

\* A walk sees an event twice only after an approval.
THEOREM RepeatsNeedApproval == Spec => []RepeatsOnlyAfterApproval
<1>1. IInv => RepeatsOnlyAfterApproval
  BY DEF IInv, WalkInv
<1> QED BY <1>1, Invariance, PTL

\* A walk that is done has seen all that was in the list from its start, unless
\* something was taken off the list.
THEOREM MissesNeedRejection == Spec => []MissesOnlyAfterRejection
<1>1. IInv => MissesOnlyAfterRejection
  BY DEF IInv, WalkInv
<1> QED BY <1>1, Invariance, PTL

\* The total covers what was seen, unless something was taken off the list; and it is the
\* length of the list if nothing was moderated, but with an empty page.
THEOREM TotalsCover == Spec => []TotalCoversSeen
<1>1. IInv => TotalCoversSeen
  BY DEF IInv, WalkInv
<1> QED BY <1>1, Invariance, PTL
=============================================================================
