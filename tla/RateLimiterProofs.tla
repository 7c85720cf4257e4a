------------------------- MODULE RateLimiterProofs -------------------------
(***************************************************************************)
(* For any number of requests, any limit and any window the counter of the *)
(* rate limiter overshoots its limit, and Allow admits requests while the  *)
(* key lives, by no more than the requests in flight account for.          *)
(***************************************************************************)
EXTENDS RateLimiter, FiniteSetTheorems, TLAPS

At(p) == {r \in Requests : reqs[r] = p}
Count(p) == Cardinality(At(p))
Room == Limit - 1 + N

\* Requests that have passed the GET and are about to count themselves.
PendingCounted == counter.value + Count("increment") <= Room

\* What the counter no longer shows was counted before a late SET, and each of
\* them has left "set" since the key came into being.
ForgottenBounded ==
  /\ Exists => admitted - counter.value <= (N - 1 - Count("set")) * Room
  /\ ~Exists => admitted = 0

IInv == TypeOK /\ PendingCounted /\ ForgottenBounded

----------------------------------------------------------------------------
(* Counting requests *)

\* The number of requests at a place is a natural number, N at most.
LEMMA CountType ==
  ASSUME NEW p PROVE /\ N \in Nat
                     /\ Count(p) \in Nat
                     /\ Count(p) <= N
                     /\ IsFiniteSet(At(p))
<1>1. At(p) \subseteq Requests
  BY DEF At
<1>2. IsFiniteSet(Requests)
  BY RateLimiterAssumption DEF RateLimiterAssumption
<1>3. IsFiniteSet(At(p)) /\ Count(p) <= N
  BY <1>1, <1>2, FS_Subset DEF Count, N
<1>4. N \in Nat /\ Count(p) \in Nat
  BY <1>2, <1>3, FS_CardinalityType DEF Count, N
<1> QED BY <1>3, <1>4

LEMMA CountTypeNext == ASSUME NEW p PROVE Count(p)' \in Nat
<1>1. At(p)' \subseteq Requests
  BY DEF At
<1>2. IsFiniteSet(Requests)
  BY RateLimiterAssumption DEF RateLimiterAssumption
<1>3. IsFiniteSet(At(p)')
  BY <1>1, <1>2, FS_Subset
<1> QED BY <1>3, FS_CardinalityType DEF Count

\* A request that is not at p leaves room for one more there.
LEMMA CountRoom ==
  ASSUME NEW p, NEW r \in Requests, reqs[r] # p
  PROVE  Count(p) <= N - 1
<1>1. At(p) \subseteq Requests \ {r}
  BY DEF At
<1>2. IsFiniteSet(Requests)
  BY RateLimiterAssumption DEF RateLimiterAssumption
<1>3. /\ IsFiniteSet(Requests \ {r})
      /\ Cardinality(Requests \ {r}) = N - 1
  BY <1>2, FS_RemoveElement DEF N
<1>4. Count(p) <= Cardinality(Requests \ {r})
  BY <1>1, <1>3, FS_Subset DEF Count
<1> QED BY <1>3, <1>4

\* How a request that moves on changes the counts.
LEMMA CountMoves ==
  ASSUME reqs \in [Requests -> {"idle", "set", "increment", "admitted"}],
         NEW r \in Requests, NEW next, Goto(r, next), NEW p
  PROVE  /\ reqs[r] = p /\ next # p => Count(p)' = Count(p) - 1
         /\ reqs[r] # p /\ next = p => Count(p)' = Count(p) + 1
         /\ reqs[r] # p /\ next # p => Count(p)' = Count(p)
<1>1. \A q \in Requests : reqs'[q] = IF q = r THEN next ELSE reqs[q]
  BY DEF Goto
<1>2. IsFiniteSet(At(p))
  BY CountType
<1>3. CASE reqs[r] = p /\ next # p
  <2>1. At(p)' = At(p) \ {r} /\ r \in At(p)
    BY <1>1, <1>3 DEF At
  <2> QED BY <1>2, <1>3, <2>1, FS_RemoveElement DEF Count
<1>4. CASE reqs[r] # p /\ next = p
  <2>1. At(p)' = At(p) \cup {r} /\ r \notin At(p)
    BY <1>1, <1>4 DEF At
  <2> QED BY <1>2, <1>4, <2>1, FS_AddElement DEF Count
<1>5. CASE reqs[r] # p /\ next # p
  <2>1. At(p)' = At(p)
    BY <1>1, <1>5 DEF At
  <2> QED BY <1>5, <2>1 DEF Count
<1> QED BY <1>3, <1>4, <1>5

----------------------------------------------------------------------------
(* Arithmetic of the two bounds *)

LEMMA RoomType == Room \in Nat /\ Limit \in Nat \ {0} /\ Window \in Nat \ {0}
<1>1. N \in Nat
  BY CountType
<1> QED BY <1>1, RateLimiterAssumption DEF RateLimiterAssumption, Room

\* One pending SET fewer is one counter more that may have been forgotten.
LEMMA OneSetFewer ==
  ASSUME NEW s \in Int, NEW t \in Int, t = s - 1
  PROVE  (N - 1 - t) * Room = (N - 1 - s) * Room + Room
<1>1. N \in Nat /\ Room \in Nat
  BY CountType, RoomType
<1> QED BY <1>1

LEMMA ForgottenNatural ==
  ASSUME NEW s \in Int, s <= N - 1
  PROVE  (N - 1 - s) * Room \in Nat
<1>1. N \in Nat /\ Room \in Nat
  BY CountType, RoomType
<1>2. N - 1 - s \in Nat
  BY <1>1
<1>3. \A a, b \in Nat : a * b \in Nat
  OBVIOUS
<1> QED BY <1>1, <1>2, <1>3

----------------------------------------------------------------------------
(* The initial state, and the steps *)

LEMMA InitIInv == Init => IInv
<1> SUFFICES ASSUME Init PROVE IInv
  OBVIOUS
<1>1. TypeOK
  BY DEF Init, TypeOK
<1>2. Count("increment") = 0
  <2>1. At("increment") = {}
    BY DEF Init, At
  <2> QED BY <2>1, FS_EmptySet DEF Count
<1>3. PendingCounted
  BY <1>2, RoomType DEF Init, NoKey, PendingCounted
<1>4. ForgottenBounded
  BY DEF Init, NoKey, Exists, Gone, ForgottenBounded
<1> QED BY <1>1, <1>3, <1>4 DEF IInv

\* What the invariant says of the counter's fields.
LEMMA Fields ==
  ASSUME TypeOK
  PROVE  /\ counter.value \in Nat
         /\ ~Exists => counter = NoKey
         /\ Exists => /\ counter.ttl \in {Never} \cup 1 .. Window
                      /\ counter.value \in Nat \ {0}
         /\ admitted \in Nat
  BY RoomType DEF TypeOK, NoKey, Exists, Gone, Never

\* Requests that leave "set" or "increment" without a command, and keys that are
\* deleted, give both bounds more room.
LEMMA FewerPending ==
  ASSUME IInv, UNCHANGED <<counter, admitted>>,
         Count("set")' <= Count("set"), Count("set")' \in Nat,
         Count("increment")' <= Count("increment"), Count("increment")' \in Nat
  PROVE  PendingCounted' /\ ForgottenBounded'
<1>1. PendingCounted'
  BY CountType, RoomType, Fields DEF IInv, PendingCounted, Room, N
<1>2. ForgottenBounded'
  <2> DEFINE s == Count("set")
             t == Count("set")'
  <2>1. s \in Nat /\ t \in Nat /\ t <= s /\ N \in Nat /\ Room \in Nat
    BY CountType, RoomType
  <2>2. (N - 1 - t) * Room = (N - 1 - s) * Room + (s - t) * Room
    BY <2>1
  <2>3. (s - t) * Room \in Nat
    <3>1. s - t \in Nat
      BY <2>1
    <3>2. \A a, b \in Nat : a * b \in Nat
      OBVIOUS
    <3> QED BY <2>1, <3>1, <3>2
  <2>4. (N - 1 - s) * Room \in Int
    BY <2>1
  <2>5. Exists => admitted - counter.value <= (N - 1 - t) * Room
    BY <2>2, <2>3, <2>4, Fields DEF IInv, ForgottenBounded
  <2>6. Exists' = Exists /\ Room' = Room /\ N' = N
    BY DEF Exists, Room, N
  <2> QED BY <2>5, <2>6 DEF IInv, ForgottenBounded
<1> QED BY <1>1, <1>2
\* The type invariant is inductive by itself.
LEMMA TypeStep == TypeOK /\ [Next]_vars => TypeOK'
<1> SUFFICES ASSUME TypeOK, [Next]_vars PROVE TypeOK'
  OBVIOUS
<1> USE RoomType
<1>1. ASSUME NEW r \in Requests, BeginAllow(r) PROVE TypeOK'
  BY <1>1 DEF BeginAllow, Goto, TypeOK
<1>2. ASSUME NEW r \in Requests, SetCounter(r) PROVE TypeOK'
  BY <1>2 DEF SetCounter, Set, Return, Goto, TypeOK
<1>3. ASSUME NEW r \in Requests, IncrementCounter(r) PROVE TypeOK'
  <2>1. Incr \in [value: Nat \ {0}, ttl: {Never} \cup 1 .. Window]
    BY Fields DEF Incr, NoKey
  <2>2. counter' \in [value: Nat \ {0}, ttl: {Never} \cup 1 .. Window]
    BY <1>3, <2>1 DEF IncrementCounter
  <2> QED BY <1>3, <2>2 DEF IncrementCounter, Return, Goto, TypeOK
<1>4. ASSUME NEW r \in Requests, FinishRequest(r) PROVE TypeOK'
  BY <1>4 DEF FinishRequest, Goto, TypeOK
<1>5. ASSUME NEW r \in Requests, ResetAttempts(r) PROVE TypeOK'
  BY <1>5 DEF ResetAttempts, Goto, TypeOK
<1>6. ASSUME NEW r \in Requests, FailRequest(r) PROVE TypeOK'
  BY <1>6 DEF FailRequest, Goto, TypeOK
<1>7. CASE Restart
  BY <1>7 DEF Restart, TypeOK
<1>8. CASE Tick
  <2>1. CASE counter.ttl = 1
    BY <1>8, <2>1 DEF Tick, TypeOK
  <2>2. CASE counter.ttl # 1
    <3>1. counter \in [value: Nat \ {0}, ttl: 2 .. Window]
      BY <1>8, <2>2 DEF Tick, TypeOK, NoKey, Gone, Never
    <3>2. counter' \in [value: Nat \ {0}, ttl: 1 .. Window]
      BY <1>8, <2>2, <3>1 DEF Tick
    <3> QED BY <1>8, <2>2, <3>2 DEF Tick, TypeOK
  <2> QED BY <2>1, <2>2
<1>9. CASE UNCHANGED vars
  BY <1>9 DEF vars, TypeOK
<1> QED
  BY <1>1, <1>2, <1>3, <1>4, <1>5, <1>6, <1>7, <1>8, <1>9 DEF Next, RedisStep

\* A SET: one request fewer has its own pending, and what the counter showed is forgotten.
LEMMA SetStep ==
  ASSUME IInv, NEW r \in Requests, SetCounter(r)
  PROVE  PendingCounted' /\ ForgottenBounded'
<1> DEFINE s == Count("set")
           t == Count("set")'
<1>1. PICK next \in {"admitted", "idle"} : Goto(r, next)
  BY DEF SetCounter, Return
<1>2. t = s - 1 /\ Count("increment")' = Count("increment")
  BY <1>1, CountMoves DEF IInv, TypeOK, SetCounter
<1>3. Count("increment") <= N - 1
  BY CountRoom DEF SetCounter
<1>4. counter' = [value |-> 1, ttl |-> Window] /\ Exists' /\ counter'.value = 1
  BY RoomType DEF SetCounter, Set, Exists, Gone
<1>5. admitted' \in {admitted, admitted + 1}
  BY DEF SetCounter, Return
<1>6. s \in Nat /\ t \in Nat /\ N \in Nat /\ s <= N /\ Room \in Nat
  BY CountType, CountTypeNext, RoomType
<1>7. Room' = Room /\ N' = N
  BY DEF Room, N
<1>8. PendingCounted'
  BY <1>2, <1>3, <1>4, <1>6, <1>7, CountType, RoomType DEF PendingCounted, Room
<1>9. admitted' - counter'.value <= (N - 1 - t) * Room
  <2>1. (N - 1 - t) * Room \in Nat
    BY <1>2, <1>6, ForgottenNatural
  <2>2. CASE ~Exists
    <3>1. admitted = 0
      BY <2>2 DEF IInv, ForgottenBounded
    <3> QED BY <1>4, <1>5, <2>1, <3>1
  <2>3. CASE Exists
    <3>1. admitted - counter.value <= (N - 1 - s) * Room
      BY <2>3 DEF IInv, ForgottenBounded
    <3>2. (N - 1 - t) * Room = (N - 1 - s) * Room + Room
      BY <1>2, <1>6, OneSetFewer
    <3>3. counter.value <= Room
      BY <1>6, CountType, Fields DEF IInv, PendingCounted
    <3>4. (N - 1 - s) * Room \in Int
      BY <1>6
    <3>5. admitted \in Nat /\ counter.value \in Nat
      BY Fields DEF IInv
    <3>6. admitted <= (N - 1 - t) * Room
      BY <1>6, <2>1, <3>1, <3>2, <3>3, <3>4, <3>5
    <3> QED BY <1>4, <1>5, <2>1, <3>5, <3>6
  <2> QED BY <2>2, <2>3
<1> QED BY <1>4, <1>7, <1>8, <1>9 DEF ForgottenBounded

\* An INCR: a request that was pending is now counted.
LEMMA IncrementStep ==
  ASSUME IInv, NEW r \in Requests, IncrementCounter(r)
  PROVE  PendingCounted' /\ ForgottenBounded'
<1>1. PICK next \in {"admitted", "idle"} : Goto(r, next)
  BY DEF IncrementCounter, Return
<1>2. Count("set")' = Count("set") /\ Count("increment")' = Count("increment") - 1
  BY <1>1, CountMoves DEF IInv, TypeOK, IncrementCounter
<1>3. counter'.value = counter.value + 1 /\ Exists'
  BY Fields DEF IInv, IncrementCounter, Incr, Exists, Gone, Never
<1>4. admitted' \in {admitted, admitted + 1}
  BY DEF IncrementCounter, Return
<1>5. Room' = Room /\ N' = N /\ Room \in Nat
  BY RoomType DEF Room, N
<1>6. /\ admitted \in Nat
      /\ counter.value \in Nat
      /\ Count("increment") \in Nat
      /\ Count("set") \in Nat
      /\ N \in Nat
  BY CountType, Fields DEF IInv
<1>7. PendingCounted'
  BY <1>2, <1>3, <1>5, <1>6 DEF IInv, PendingCounted
<1>8. Count("set") <= N - 1
  BY CountRoom DEF IncrementCounter
<1>9. (N - 1 - Count("set")) * Room \in Nat
  BY <1>6, <1>8, ForgottenNatural
<1>10. admitted' - counter'.value <= (N - 1 - Count("set")) * Room
  <2>1. CASE ~Exists
    BY <1>3, <1>4, <1>6, <1>9, <2>1, Fields DEF IInv, ForgottenBounded, NoKey
  <2>2. CASE Exists
    BY <1>3, <1>4, <1>6, <1>9, <2>2 DEF IInv, ForgottenBounded
  <2> QED BY <2>1, <2>2
<1> QED BY <1>2, <1>3, <1>5, <1>7, <1>10 DEF ForgottenBounded

\* A key that goes away takes the admissions it counted with it.
LEMMA DeleteStep ==
  ASSUME IInv, counter' = NoKey, admitted' = 0,
         Count("increment")' <= Count("increment"), Count("increment")' \in Nat
  PROVE  PendingCounted' /\ ForgottenBounded'
<1>1. counter'.value = 0 /\ ~Exists'
  BY DEF NoKey, Exists, Gone
<1>2. Room' = Room
  BY DEF Room, N
<1>3. PendingCounted'
  BY <1>1, <1>2, CountType, RoomType, Fields DEF IInv, PendingCounted
<1>4. ForgottenBounded'
  BY <1>1 DEF ForgottenBounded
<1> QED BY <1>3, <1>4

LEMMA IInvStep == IInv /\ [Next]_vars => IInv'
<1> SUFFICES ASSUME IInv, [Next]_vars PROVE PendingCounted' /\ ForgottenBounded'
  BY TypeStep DEF IInv
<1> USE CountType, CountTypeNext
<1>1. ASSUME NEW r \in Requests, BeginAllow(r)
      PROVE  PendingCounted' /\ ForgottenBounded'
  <2>1. CASE Exists
    <3>1. Goto(r, "increment") /\ reqs[r] = "idle" /\ UNCHANGED <<counter, admitted>>
      BY <1>1, <2>1 DEF BeginAllow
    <3>2. /\ Count("increment")' = Count("increment") + 1
          /\ Count("set")' = Count("set")
      BY <3>1, CountMoves DEF IInv, TypeOK
    <3>3. Count("increment") <= N - 1
      BY <3>1, CountRoom
    <3>4. counter.value <= Limit - 1 /\ counter.value \in Nat
      BY <1>1, <2>1, RoomType, Fields DEF BeginAllow, IInv
    <3>5. PendingCounted'
      BY <3>1, <3>2, <3>3, <3>4, RoomType DEF PendingCounted, Room, N
    <3>6. ForgottenBounded'
      BY <3>1, <3>2 DEF IInv, ForgottenBounded, Exists, Room, N
    <3> QED BY <3>5, <3>6
  <2>2. CASE ~Exists
    <3>1. Goto(r, "set") /\ reqs[r] = "idle" /\ UNCHANGED <<counter, admitted>>
      BY <1>1, <2>2 DEF BeginAllow
    <3>2. Count("increment")' = Count("increment")
      BY <3>1, CountMoves DEF IInv, TypeOK
    <3>3. PendingCounted'
      BY <3>1, <3>2 DEF IInv, PendingCounted, Room, N
    <3>4. ForgottenBounded'
      BY <2>2, <3>1 DEF IInv, ForgottenBounded, Exists
    <3> QED BY <3>3, <3>4
  <2> QED BY <2>1, <2>2
<1>2. ASSUME NEW r \in Requests, FinishRequest(r)
      PROVE  PendingCounted' /\ ForgottenBounded'
  <2>1. Goto(r, "idle") /\ reqs[r] = "admitted" /\ UNCHANGED <<counter, admitted>>
    BY <1>2 DEF FinishRequest
  <2>2. /\ Count("increment")' = Count("increment")
        /\ Count("set")' = Count("set")
    BY <2>1, CountMoves DEF IInv, TypeOK
  <2> QED BY <2>1, <2>2, FewerPending
<1>3. ASSUME NEW r \in Requests, ResetAttempts(r)
      PROVE  PendingCounted' /\ ForgottenBounded'
  <2>1. Goto(r, "idle") /\ reqs[r] = "admitted" /\ counter' = NoKey /\ admitted' = 0
    BY <1>3 DEF ResetAttempts
  <2>2. Count("increment")' = Count("increment")
    BY <2>1, CountMoves DEF IInv, TypeOK
  <2> QED BY <2>1, <2>2, DeleteStep
<1>4. ASSUME NEW r \in Requests, FailRequest(r)
      PROVE  PendingCounted' /\ ForgottenBounded'
  <2>1. Goto(r, "idle") /\ UNCHANGED <<counter, admitted>>
    BY <1>4 DEF FailRequest
  <2>2. /\ Count("increment")' \in {Count("increment"), Count("increment") - 1}
        /\ Count("set")' \in {Count("set"), Count("set") - 1}
    BY <2>1, CountMoves DEF IInv, TypeOK
  <2> QED BY <2>1, <2>2, FewerPending
<1>5. CASE Restart
  <2>1. At("increment")' = {} /\ At("set")' = {}
    BY <1>5 DEF Restart, At
  <2>2. Count("increment")' = 0 /\ Count("set")' = 0
    BY <2>1, FS_EmptySet DEF Count
  <2> QED BY <1>5, <2>2, FewerPending DEF Restart
<1>6. CASE Tick
  <2>1. At("increment")' = At("increment") /\ At("set")' = At("set")
    BY <1>6 DEF Tick, At
  <2>2. Count("increment")' = Count("increment") /\ Count("set")' = Count("set")
    BY <2>1 DEF Count
  <2>3. CASE counter.ttl = 1
    BY <1>6, <2>2, <2>3, DeleteStep DEF Tick
  <2>4. CASE counter.ttl # 1
    <3>1. counter \in [value: Nat \ {0}, ttl: 2 .. Window]
      BY <1>6, <2>4 DEF Tick, IInv, TypeOK, NoKey, Gone, Never
    <3>2. /\ counter'.value = counter.value
          /\ counter'.ttl # Gone
          /\ counter.ttl # Gone
          /\ UNCHANGED admitted
      BY <1>6, <2>4, <3>1 DEF Tick, Gone
    <3> QED
      BY <2>2, <3>2 DEF IInv, PendingCounted, ForgottenBounded, Exists, Room, N
  <2> QED BY <2>3, <2>4
<1>7. CASE UNCHANGED vars
  <2>1. Count("increment")' = Count("increment") /\ Count("set")' = Count("set")
    BY <1>7 DEF vars, Count, At
  <2> QED BY <1>7, <2>1, FewerPending DEF vars
<1> QED
  BY <1>1, <1>2, <1>3, <1>4, <1>5, <1>6, <1>7, SetStep, IncrementStep
  DEF Next, RedisStep

----------------------------------------------------------------------------
(* Theorems *)

LEMMA Invariance == Spec => []IInv
  BY InitIInv, IInvStep, PTL DEF Spec

\* Type correctness of the key and of the requests, for any number of requests.
THEOREM TypeCorrect == Spec => []TypeOK
<1>1. IInv => TypeOK
  BY DEF IInv
<1> QED BY <1>1, Invariance, PTL

\* However requests interleave between their GET and their INCR, the counter
\* overshoots the limit by at most the other requests in flight.
THEOREM CounterStaysBounded == Spec => []CounterBounded
<1>1. IInv => CounterBounded
  BY CountType, RoomType, Fields DEF IInv, PendingCounted, CounterBounded, Room
<1> QED BY <1>1, Invariance, PTL

\* Between the creation of the key and its deletion Allow admits at most
\* N * (Limit - 1 + N) requests, late SETs included.
THEOREM AdmissionsStayBounded == Spec => []AdmissionsBounded
<1>1. IInv => AdmissionsBounded
  <2> SUFFICES ASSUME IInv PROVE admitted <= N * Room
    BY DEF AdmissionsBounded, Room
  <2> DEFINE s == Count("set")
  <2>1. N \in Nat /\ Room \in Nat /\ s \in Nat /\ admitted \in Nat
    BY CountType, RoomType, Fields DEF IInv
  <2>2. CASE ~Exists
    <3>1. \A a, b \in Nat : a * b \in Nat
      OBVIOUS
    <3> QED BY <2>1, <2>2, <3>1 DEF IInv, ForgottenBounded
  <2>3. CASE Exists
    <3>1. admitted - counter.value <= (N - 1 - s) * Room
      BY <2>3 DEF IInv, ForgottenBounded
    <3>2. counter.value <= Room /\ counter.value \in Nat
      BY <2>1, CountType, Fields DEF IInv, PendingCounted
    <3>3. N * Room = (N - 1 - s) * Room + Room + s * Room
      BY <2>1
    <3>4. s * Room \in Nat /\ (N - 1 - s) * Room \in Int
      <4>1. \A a, b \in Nat : a * b \in Nat
        OBVIOUS
      <4> QED BY <2>1, <4>1
    <3> QED BY <2>1, <3>1, <3>2, <3>3, <3>4
  <2> QED BY <2>2, <2>3
<1> QED BY <1>1, Invariance, PTL

\* Without overlapping requests the limiter is exact: from the creation of the key to its
\* deletion Allow admits Limit requests and no more, failures, expiry and restarts included.
THEOREM LimitIsExactAlone == Cardinality(Requests) = 1 => (Spec => [](admitted <= Limit))
<1> SUFFICES ASSUME Cardinality(Requests) = 1 PROVE Spec => [](admitted <= Limit)
  OBVIOUS
<1>1. N = 1 /\ Limit \in Nat
  BY RateLimiterAssumption DEF N, RateLimiterAssumption
<1>2. AdmissionsBounded => admitted <= Limit
  BY <1>1 DEF AdmissionsBounded
<1> QED BY <1>2, AdmissionsStayBounded, PTL
=============================================================================
