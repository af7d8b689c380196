-------------------------- MODULE RequestMemoProofs --------------------------
(***************************************************************************)
(* Proofs about the memo of a request, for any number of requests, calls   *)
(* and round trips, whether or not the store answers in order or at all.   *)
(***************************************************************************)
EXTENDS RequestMemo, TLAPS

-----------------------------------------------------------------------------
(* The round trips, when one changes and when one is made. *)

LEMMA ChangedTrip ==
    ASSUME trips \in Seq(Trip), NEW t \in DOMAIN trips, NEW row \in Trip,
           trips' = [trips EXCEPT ![t] = row]
    PROVE  /\ trips' \in Seq(Trip)
           /\ DOMAIN trips' = DOMAIN trips
           /\ trips'[t] = row
           /\ \A s \in DOMAIN trips : s # t => trips'[s] = trips[s]
OBVIOUS

LEMMA MadeTrip ==
    ASSUME trips \in Seq(Trip), NEW row \in Trip, trips' = Append(trips, row)
    PROVE  /\ trips' \in Seq(Trip)
           /\ Len(trips) + 1 \notin DOMAIN trips
           /\ DOMAIN trips' = DOMAIN trips \cup {Len(trips) + 1}
           /\ trips'[Len(trips) + 1] = row
           /\ \A s \in DOMAIN trips : trips'[s] = trips[s]
OBVIOUS

LEMMA NewTripType ==
    ASSUME TypeOK, NEW r \in Requests, NEW key \in Keys \cup {Write}
    PROVE  NewTrip(r, key) \in Trip
<1>1. Len(trips) \in Nat
  BY DEF TypeOK
<1> QED
  BY <1>1 DEF TypeOK, NewTrip, Trip, Phases

\* The trip of index t is the same call of the same request as before.
SameCall(t) ==
    /\ trips'[t].req = trips[t].req     /\ trips'[t].key = trips[t].key
    /\ trips'[t].from = trips[t].from   /\ trips'[t].epoch = trips[t].epoch

\* Of the trips only t may have changed, and that in what has become of it.
OnlyMoved(t) ==
    /\ trips' \in Seq(Trip)
    /\ DOMAIN trips' = DOMAIN trips
    /\ SameCall(t)
    /\ \A s \in DOMAIN trips : s # t => trips'[s] = trips[s]

LEMMA ServeMoves ==
    ASSUME TypeOK, NEW t \in DOMAIN trips, Serve(t)
    PROVE  /\ OnlyMoved(t)
           /\ trips'[t].floor = trips[t].floor
           /\ trips'[t].last = trips[t].last
           /\ trips[t].phase = "sent"
           /\ trips'[t].phase \in {"answered", "refused"}
           /\ version' \in Nat
           /\ version <= version'
           /\ trips'[t].phase = "answered" => trips'[t].value >= version
<1>1. trips \in Seq(Trip) /\ trips[t] \in Trip /\ version \in Nat
  BY DEF TypeOK
<1>2. trips[t].phase = "sent"
  BY DEF Serve, Turn
<1>3. ASSUME NEW phase \in {"answered", "refused"}, NEW value \in Nat, Served(t, phase, value)
      PROVE  /\ OnlyMoved(t)
             /\ trips'[t].floor = trips[t].floor
             /\ trips'[t].last = trips[t].last
             /\ trips'[t].phase = phase
             /\ trips'[t].value = value
  <2> DEFINE row == [trips[t] EXCEPT !.phase = phase, !.value = value]
  <2>1. row \in Trip
    BY <1>1 DEF Trip, Phases
  <2>2. trips' = [trips EXCEPT ![t] = row]
    BY <1>3 DEF Served
  <2>3. /\ row.req = trips[t].req     /\ row.key = trips[t].key
        /\ row.from = trips[t].from   /\ row.epoch = trips[t].epoch
        /\ row.floor = trips[t].floor   /\ row.last = trips[t].last
        /\ row.phase = phase          /\ row.value = value
    BY <1>1 DEF Trip
  <2> HIDE DEF row
  <2> QED
    BY <1>1, <2>1, <2>2, <2>3, ChangedTrip DEF OnlyMoved, SameCall
<1>4. \/ Served(t, "answered", version) /\ version' = version
      \/ Served(t, "answered", version + 1) /\ version' = version + 1
      \/ Served(t, "refused", version + 1) /\ version' = version + 1
      \/ Served(t, "refused", 0) /\ version' = version
  BY DEF Serve
<1> QED
  BY <1>1, <1>2, <1>3, <1>4

LEMMA PhaseMoves ==
    ASSUME TypeOK, NEW t \in DOMAIN trips, NEW phase \in Phases,
           trips' = [trips EXCEPT ![t].phase = phase]
    PROVE  /\ OnlyMoved(t)
           /\ trips'[t].floor = trips[t].floor
           /\ trips'[t].last = trips[t].last
           /\ trips'[t].phase = phase
           /\ trips'[t].value = trips[t].value
<1> DEFINE row == [trips[t] EXCEPT !.phase = phase]
<1>1. trips \in Seq(Trip) /\ trips[t] \in Trip
  BY DEF TypeOK
<1>2. row \in Trip
  BY <1>1 DEF Trip
<1>3. trips' = [trips EXCEPT ![t] = row]
  OBVIOUS
<1>4. /\ row.req = trips[t].req     /\ row.key = trips[t].key
      /\ row.from = trips[t].from   /\ row.epoch = trips[t].epoch
      /\ row.floor = trips[t].floor   /\ row.last = trips[t].last
      /\ row.phase = phase          /\ row.value = trips[t].value
  BY <1>1 DEF Trip
<1> HIDE DEF row
<1> QED
  BY <1>1, <1>2, <1>3, <1>4, ChangedTrip DEF OnlyMoved, SameCall

LEMMA JoinMoves ==
    ASSUME TypeOK, NEW t \in DOMAIN trips, NEW r \in Requests,
           trips' = [trips EXCEPT ![t].floor = floor[r], ![t].last = Len(trips)]
    PROVE  /\ OnlyMoved(t)
           /\ trips'[t].floor = floor[r]
           /\ trips'[t].last = Len(trips)
           /\ trips'[t].phase = trips[t].phase
           /\ trips'[t].value = trips[t].value
<1> DEFINE row == [trips[t] EXCEPT !.floor = floor[r], !.last = Len(trips)]
<1>1. trips \in Seq(Trip) /\ trips[t] \in Trip /\ floor[r] \in Nat /\ Len(trips) \in Nat
  BY DEF TypeOK
<1>2. row \in Trip
  BY <1>1 DEF Trip
<1>3. trips' = [trips EXCEPT ![t] = row]
  OBVIOUS
<1>4. /\ row.req = trips[t].req     /\ row.key = trips[t].key
      /\ row.from = trips[t].from   /\ row.epoch = trips[t].epoch
      /\ row.floor = floor[r]         /\ row.last = Len(trips)
      /\ row.phase = trips[t].phase /\ row.value = trips[t].value
  BY <1>1 DEF Trip
<1> HIDE DEF row
<1> QED
  BY <1>1, <1>2, <1>3, <1>4, ChangedTrip DEF OnlyMoved, SameCall

-----------------------------------------------------------------------------
LEMMA InitType == Init => TypeOK
BY DEF Init, TypeOK, EmptyMemo, NoTrip

LEMMA EmptiedType ==
    ASSUME TypeOK, NEW r \in Requests
    PROVE  /\ Emptied(r) \in [Requests -> [Keys -> Nat]]
           /\ \A q \in Requests, k \in Keys :
                 Emptied(r)[q][k] = IF q = r THEN NoTrip ELSE memo[q][k]
<1>1. EmptyMemo \in [Keys -> Nat] /\ \A k \in Keys : EmptyMemo[k] = NoTrip
  BY DEF EmptyMemo, NoTrip
<1> HIDE DEF EmptyMemo
<1> QED
  BY <1>1 DEF TypeOK, Emptied, ContextOf

LEMMA NextType == TypeOK /\ [Next]_vars => TypeOK'
<1> SUFFICES ASSUME TypeOK, [Next]_vars
             PROVE  TypeOK'
  OBVIOUS
<1>1. ASSUME NEW r \in Requests, Begin(r)
      PROVE  TypeOK'
  BY <1>1 DEF Begin, TypeOK
<1>2. ASSUME NEW r \in Requests, StartWrite(r)
      PROVE  TypeOK'
  <2>1. trips' \in Seq(Trip)
    BY <1>2, NewTripType, MadeTrip DEF StartWrite, TypeOK
  <2>2. memo' \in [Requests -> [Keys -> Nat]]
    BY <1>2, EmptiedType DEF StartWrite, EmptiedBefore
  <2>3. epoch' \in [Requests -> Nat]
    BY <1>2 DEF StartWrite, TypeOK
  <2> QED
    BY <1>2, <2>1, <2>2, <2>3 DEF StartWrite, TypeOK
<1>3. ASSUME NEW r \in Requests, NEW k \in Keys, Ask(r, k)
      PROVE  TypeOK'
  <2>1. CASE \E t \in DOMAIN trips :
                /\ trips' = [trips EXCEPT ![t].floor = floor[r], ![t].last = Len(trips)]
                /\ UNCHANGED memo
    <3>1. trips' \in Seq(Trip)
      BY <2>1, JoinMoves DEF OnlyMoved
    <3> QED
      BY <1>3, <2>1, <3>1 DEF Ask, Keeping, TypeOK
  <2>2. CASE /\ trips' = Append(trips, NewTrip(r, k))
             /\ memo' = [memo EXCEPT ![ContextOf(r)][k] = Len(trips) + 1]
    <3>1. trips' \in Seq(Trip)
      BY <2>2, NewTripType, MadeTrip DEF TypeOK
    <3>2. memo' \in [Requests -> [Keys -> Nat]]
      <4>1. Len(trips) + 1 \in Nat
        BY DEF TypeOK
      <4> QED
        BY <2>2, <4>1 DEF TypeOK, ContextOf
    <3> QED
      BY <1>3, <3>1, <3>2 DEF Ask, Keeping, TypeOK
  <2> QED
    BY <1>3, <2>1, <2>2 DEF Ask, Keeping
<1>4. ASSUME NEW t \in DOMAIN trips, Serve(t)
      PROVE  TypeOK'
  BY <1>4, ServeMoves DEF Serve, OnlyMoved, TypeOK
<1>5. ASSUME NEW t \in DOMAIN trips, WriteReturns(t)
      PROVE  TypeOK'
  <2>1. trips[t].req \in Requests
    <3>1. trips[t] \in Trip
      BY DEF TypeOK
    <3> QED
      BY <3>1 DEF Trip
  <2>2. trips' \in Seq(Trip)
    BY <1>5, PhaseMoves DEF WriteReturns, OnlyMoved, Phases, Settled
  <2>3. memo' \in [Requests -> [Keys -> Nat]]
    BY <1>5, <2>1, EmptiedType DEF WriteReturns, EmptiedAfter
  <2> QED
    BY <1>5, <2>1, <2>2, <2>3 DEF WriteReturns, TypeOK
<1>6. ASSUME NEW t \in DOMAIN trips, LoadReturns(t)
      PROVE  TypeOK'
  <2>1. trips' \in Seq(Trip)
    BY <1>6, PhaseMoves DEF LoadReturns, OnlyMoved, Phases, Settled
  <2> QED
    BY <1>6, <2>1 DEF LoadReturns, TypeOK
<1>7. ASSUME NEW t \in DOMAIN trips, Forget(t)
      PROVE  TypeOK'
  <2>1. trips' \in Seq(Trip)
    BY <1>7, PhaseMoves DEF Forget, OnlyMoved, Phases, Settled
  <2>2. memo' \in [Requests -> [Keys -> Nat]]
    BY <1>7 DEF Forget, Without, TypeOK, NoTrip
  <2> QED
    BY <1>7, <2>1, <2>2 DEF Forget, TypeOK
<1>8. CASE UNCHANGED vars
  BY <1>8 DEF vars, TypeOK
<1> QED
  BY <1>1, <1>2, <1>3, <1>4, <1>5, <1>6, <1>7, <1>8 DEF Next

\* The store, the memos and the round trips stay well formed.
THEOREM TypeCorrect == Spec => []TypeOK
BY InitType, NextType, PTL DEF Spec

-----------------------------------------------------------------------------
(* The inductive invariant: what is in a memo is of its request's present  *)
(* epoch and was asked no earlier than the request's floor; and a load of  *)
(* the present epoch that has not failed is in the memo.                   *)

FloorsReached == \A r \in Requests : floor[r] <= version

TripsInTime ==
    \A t \in DOMAIN trips :
        /\ trips[t].from <= version
        /\ trips[t].floor <= trips[t].from
        /\ trips[t].epoch <= epoch[trips[t].req]
        /\ t \in Loads /\ Known(t) => trips[t].value >= trips[t].from

KeptIsCurrent ==
    \A r \in Requests, k \in Keys :
        memo[r][k] # NoTrip =>
            /\ memo[r][k] \in DOMAIN trips
            /\ trips[memo[r][k]].req = r
            /\ trips[memo[r][k]].key = k
            /\ trips[memo[r][k]].from >= floor[r]
            /\ trips[memo[r][k]].epoch = epoch[r]
            /\ trips[memo[r][k]].phase # "failed"

NothingBeforeBegin == \A r \in Requests \ open, k \in Keys : memo[r][k] = NoTrip

IInv ==
    /\ TypeOK
    /\ NothingBeforeBegin
    /\ FloorsReached
    /\ TripsInTime
    /\ KeptIsCurrent
    /\ CurrentIsKept
    /\ OneLoadPerKey

LEMMA TripFields ==
    ASSUME TypeOK, NEW t \in DOMAIN trips
    PROVE  /\ trips[t].req \in Requests   /\ trips[t].key \in Keys \cup {Write}
           /\ trips[t].from \in Nat       /\ trips[t].value \in Nat
           /\ trips[t].floor \in Nat      /\ trips[t].epoch \in Nat
           /\ t # NoTrip
<1>1. trips[t] \in Trip /\ t # 0
  BY DEF TypeOK
<1> QED
  BY <1>1 DEF Trip, NoTrip

LEMMA InitInv == Init => IInv
BY InitType DEF Init, IInv, EmptyMemo, FloorsReached, TripsInTime, KeptIsCurrent, CurrentIsKept,
                OneLoadPerKey, Loads, NothingBeforeBegin

\* A trip that moves on, or is joined, and stays in its slot if it has one.
LEMMA MovedKeeps ==
    ASSUME IInv, TypeOK', NEW t \in DOMAIN trips, OnlyMoved(t),
           UNCHANGED <<open, floor, epoch, memo>>, version <= version',
           trips'[t].floor <= trips[t].from,
           trips[t].phase # "failed",
           t \in Loads => trips'[t].phase # "failed",
           t \in Loads /\ Known(t)' => trips'[t].value >= trips[t].from,
           Unfailed(t)' => Unfailed(t)
    PROVE  IInv'
<1>1. TypeOK /\ version \in Nat /\ version' \in Nat
  BY DEF IInv, TypeOK
<1>2. DOMAIN trips' = DOMAIN trips /\ Loads' = Loads
  BY DEF OnlyMoved, SameCall, Loads
<1>3. \A s \in DOMAIN trips : SameCall(s)
  BY DEF OnlyMoved, SameCall
<1>4. FloorsReached'
  BY <1>1 DEF IInv, FloorsReached, TypeOK
<1>5. TripsInTime'
  <2> SUFFICES ASSUME NEW s \in DOMAIN trips
               PROVE  /\ trips'[s].from <= version'
                      /\ trips'[s].floor <= trips'[s].from
                      /\ trips'[s].epoch <= epoch[trips'[s].req]
                      /\ s \in Loads /\ Known(s)' => trips'[s].value >= trips'[s].from
    BY <1>2 DEF TripsInTime
  <2>1. /\ trips[s].from <= version /\ trips[s].floor <= trips[s].from
        /\ trips[s].epoch <= epoch[trips[s].req]
        /\ s \in Loads /\ Known(s) => trips[s].value >= trips[s].from
    BY DEF IInv, TripsInTime
  <2>2. CASE s = t
    BY <1>1, <1>3, <2>1, <2>2, TripFields DEF SameCall
  <2>3. CASE s # t
    BY <1>1, <1>3, <2>1, <2>3, TripFields DEF OnlyMoved, Known
  <2> QED
    BY <2>2, <2>3
<1>6. KeptIsCurrent'
  <2> SUFFICES ASSUME NEW r \in Requests, NEW k \in Keys, memo[r][k] # NoTrip
               PROVE  /\ memo[r][k] \in DOMAIN trips
                      /\ trips'[memo[r][k]].req = r
                      /\ trips'[memo[r][k]].key = k
                      /\ trips'[memo[r][k]].from >= floor[r]
                      /\ trips'[memo[r][k]].epoch = epoch[r]
                      /\ trips'[memo[r][k]].phase # "failed"
    BY <1>2 DEF KeptIsCurrent
  <2> DEFINE s == memo[r][k]
  <2>1. /\ s \in DOMAIN trips /\ trips[s].req = r /\ trips[s].key = k
        /\ trips[s].from >= floor[r] /\ trips[s].epoch = epoch[r] /\ trips[s].phase # "failed"
    BY DEF IInv, KeptIsCurrent
  <2>2. s \in Loads
    BY <2>1, MemoAssumption DEF MemoAssumption, Loads
  <2>3. trips'[s].phase # "failed"
    BY <2>1, <2>2 DEF OnlyMoved
  <2> QED
    BY <1>3, <2>1, <2>3 DEF SameCall
<1>7. CurrentIsKept'
  <2> SUFFICES ASSUME NEW s \in Loads, trips'[s].phase # "failed",
                      trips'[s].epoch = epoch[trips'[s].req]
               PROVE  memo[trips'[s].req][trips'[s].key] = s
    BY <1>2 DEF CurrentIsKept
  <2>1. s \in DOMAIN trips
    BY DEF Loads
  <2>2. trips[s].phase # "failed"
    BY <2>1 DEF OnlyMoved
  <2> QED
    BY <1>3, <2>1, <2>2 DEF IInv, CurrentIsKept, SameCall
<1>8. OneLoadPerKey'
  <2>1. ASSUME NEW s \in Loads, Unfailed(s)'
        PROVE  Unfailed(s)
    BY <2>1 DEF OnlyMoved, Unfailed, Loads
  <2>2. \A s \in Loads : SameCall(s)
    BY <1>3 DEF Loads
  <2> QED
    BY <1>2, <2>1, <2>2 DEF IInv, OneLoadPerKey, SameCall
<1>9. NothingBeforeBegin'
  BY DEF IInv, NothingBeforeBegin
<1> QED
  BY <1>4, <1>5, <1>6, <1>7, <1>8, <1>9 DEF IInv

\* A request that begins has no memo yet.
LEMMA BeginKeeps ==
    ASSUME IInv, TypeOK', NEW r \in Requests, Begin(r)
    PROVE  IInv'
<1>1. version \in Nat /\ floor \in [Requests -> Nat]
  BY DEF IInv, TypeOK
<1>2. FloorsReached' /\ NothingBeforeBegin'
  BY <1>1 DEF Begin, IInv, FloorsReached, NothingBeforeBegin
<1>3. TripsInTime'
  BY DEF Begin, IInv, TripsInTime, Loads, Known
<1>4. KeptIsCurrent'
  <2>1. \A q \in Requests, k \in Keys : memo[q][k] # NoTrip => floor'[q] = floor[q]
    BY <1>1 DEF Begin, IInv, NothingBeforeBegin
  <2> QED
    BY <2>1 DEF Begin, IInv, KeptIsCurrent
<1>5. CurrentIsKept' /\ OneLoadPerKey'
  BY DEF Begin, IInv, CurrentIsKept, OneLoadPerKey, Loads, Unfailed
<1> QED
  BY <1>2, <1>3, <1>4, <1>5 DEF IInv

\* A new trip is as late as the store and belongs to the present epoch.
LEMMA NewTripFields ==
    ASSUME NEW r, NEW key
    PROVE  /\ NewTrip(r, key).req = r            /\ NewTrip(r, key).key = key
           /\ NewTrip(r, key).from = version     /\ NewTrip(r, key).floor = floor[r]
           /\ NewTrip(r, key).epoch = epoch[r]   /\ NewTrip(r, key).phase = "sent"
           /\ NewTrip(r, key).last = Len(trips) + 1
BY DEF NewTrip

LEMMA MadeInTime ==
    ASSUME IInv, NEW r \in Requests, NEW key \in Keys \cup {Write},
           trips' = Append(trips, NewTrip(r, key)),
           version' = version, epoch' \in [Requests -> Nat],
           \A q \in Requests : epoch[q] <= epoch'[q]
    PROVE  TripsInTime'
<1>1. TypeOK
  BY DEF IInv
<1>2. PICK n \in Nat : n = Len(trips) + 1
  BY <1>1 DEF TypeOK
<1>3. /\ DOMAIN trips' = DOMAIN trips \cup {n}
      /\ trips'[n] = NewTrip(r, key)
      /\ \A s \in DOMAIN trips : trips'[s] = trips[s]
  BY <1>1, <1>2, NewTripType, MadeTrip DEF TypeOK
<1>4. ASSUME NEW s \in DOMAIN trips
      PROVE  /\ trips'[s].from <= version'
             /\ trips'[s].floor <= trips'[s].from
             /\ trips'[s].epoch <= epoch'[trips'[s].req]
             /\ s \in Loads' /\ Known(s)' => trips'[s].value >= trips'[s].from
  <2>1. trips[s].epoch <= epoch'[trips[s].req]
    <3>1. /\ trips[s].req \in Requests /\ trips[s].epoch \in Nat
          /\ trips[s].epoch <= epoch[trips[s].req]
      BY <1>1, TripFields DEF IInv, TripsInTime
    <3> QED
      BY <1>1, <3>1 DEF TypeOK
  <2> QED
    BY <1>3, <2>1 DEF IInv, TripsInTime, Loads, Known
<1>5. /\ trips'[n].from = version    /\ trips'[n].floor = floor[r]
      /\ trips'[n].epoch = epoch[r]  /\ trips'[n].req = r
      /\ trips'[n].phase = "sent"
  BY <1>3, NewTripFields
<1>6. /\ version \in Nat /\ floor[r] <= version /\ epoch[r] \in Nat
      /\ epoch[r] <= epoch'[r]
  BY <1>1 DEF IInv, FloorsReached, TypeOK
<1>7. /\ trips'[n].from <= version'
      /\ trips'[n].floor <= trips'[n].from
      /\ trips'[n].epoch <= epoch'[trips'[n].req]
      /\ trips'[n].phase \notin {"answered", "resolved"}
  BY <1>5, <1>6
<1> QED
  BY <1>3, <1>4, <1>7 DEF TripsInTime, Known

\* A read that is not in the memo is asked, and is.
LEMMA AskKeeps ==
    ASSUME IInv, TypeOK', NEW r \in Requests, NEW k \in Keys, r \in open,
           UNCHANGED <<version, open, floor, epoch>>,
           memo[r][k] = NoTrip,
           trips' = Append(trips, NewTrip(r, k)),
           memo' = [memo EXCEPT ![r][k] = Len(trips) + 1]
    PROVE  IInv'
<1>0. PICK n \in Nat : n = Len(trips) + 1
  BY DEF IInv, TypeOK
<1>1. TypeOK /\ k # Write /\ n # NoTrip
  BY <1>0, MemoAssumption DEF IInv, TypeOK, MemoAssumption, NoTrip
<1>2. /\ n \notin DOMAIN trips
      /\ DOMAIN trips' = DOMAIN trips \cup {n}
      /\ trips'[n] = NewTrip(r, k)
      /\ \A s \in DOMAIN trips : trips'[s] = trips[s]
  BY <1>0, <1>1, NewTripType, MadeTrip DEF TypeOK
<1>3. /\ trips'[n].req = r /\ trips'[n].key = k /\ trips'[n].from = version
      /\ trips'[n].epoch = epoch[r] /\ trips'[n].phase = "sent"
  BY <1>2, NewTripFields
<1>4. memo'[r][k] = n
      /\ \A q \in Requests, j \in Keys : q # r \/ j # k => memo'[q][j] = memo[q][j]
  BY <1>0, <1>1 DEF TypeOK
<1>5. Loads' = Loads \cup {n}
  BY <1>1, <1>2, <1>3 DEF Loads
<1>6. FloorsReached' /\ NothingBeforeBegin'
  BY <1>4 DEF IInv, FloorsReached, NothingBeforeBegin
<1>7. TripsInTime'
  <2>1. epoch' \in [Requests -> Nat] /\ \A q \in Requests : epoch[q] <= epoch'[q]
    BY <1>1 DEF TypeOK
  <2> QED
    BY <2>1, MadeInTime
<1>8. KeptIsCurrent'
  <2> SUFFICES ASSUME NEW q \in Requests, NEW j \in Keys, memo'[q][j] # NoTrip
               PROVE  /\ memo'[q][j] \in DOMAIN trips'
                      /\ trips'[memo'[q][j]].req = q
                      /\ trips'[memo'[q][j]].key = j
                      /\ trips'[memo'[q][j]].from >= floor'[q]
                      /\ trips'[memo'[q][j]].epoch = epoch'[q]
                      /\ trips'[memo'[q][j]].phase # "failed"
    BY DEF KeptIsCurrent
  <2>1. CASE q = r /\ j = k
    BY <1>1, <1>2, <1>3, <1>4, <2>1 DEF IInv, FloorsReached, TypeOK
  <2>2. CASE q # r \/ j # k
    BY <1>2, <1>4, <2>2 DEF IInv, KeptIsCurrent
  <2> QED
    BY <2>1, <2>2
<1>9. CurrentIsKept'
  <2> SUFFICES ASSUME NEW s \in Loads', trips'[s].phase # "failed",
                      trips'[s].epoch = epoch'[trips'[s].req]
               PROVE  memo'[trips'[s].req][trips'[s].key] = s
    BY DEF CurrentIsKept
  <2>1. CASE s = n
    BY <1>3, <1>4, <2>1
  <2>2. CASE s \in Loads
    <3>1. s \in DOMAIN trips /\ s # NoTrip /\ trips[s].req \in Requests /\ trips[s].key \in Keys
      BY <1>1, <2>2, TripFields DEF Loads
    <3>2. memo[trips[s].req][trips[s].key] = s
      BY <1>2, <2>2, <3>1 DEF IInv, CurrentIsKept
    <3> QED
      BY <1>2, <1>4, <3>1, <3>2
  <2> QED
    BY <1>5, <2>1, <2>2
<1>10. OneLoadPerKey'
  <2>1. ASSUME NEW s \in Loads, Unfailed(s)', trips'[s].req = r, trips'[s].key = k
        PROVE  trips'[s].epoch # epoch[r]
    <3>1. s \in DOMAIN trips /\ s # NoTrip
      BY <1>1, TripFields DEF Loads
    <3>2. trips[s].phase # "failed"
      BY <1>2, <2>1, <3>1 DEF Unfailed
    <3> QED
      BY <1>2, <2>1, <3>1, <3>2 DEF IInv, CurrentIsKept
  <2>2. \A s \in Loads : trips'[s] = trips[s]
    BY <1>2 DEF Loads
  <2>3. ASSUME NEW s \in Loads, NEW t \in Loads, trips'[s].req = trips'[t].req,
               trips'[s].key = trips'[t].key, trips'[s].epoch = trips'[t].epoch,
               Unfailed(s)', Unfailed(t)'
        PROVE  s = t
    BY <2>2, <2>3 DEF IInv, OneLoadPerKey, Unfailed
  <2> SUFFICES ASSUME NEW s \in Loads', NEW t \in Loads', trips'[s].req = trips'[t].req,
                      trips'[s].key = trips'[t].key, trips'[s].epoch = trips'[t].epoch,
                      Unfailed(s)', Unfailed(t)'
               PROVE  s = t
    BY DEF OneLoadPerKey
  <2>4. CASE s \in Loads /\ t \in Loads
    BY <2>3, <2>4
  <2>5. CASE s = n /\ t \in Loads
    BY <1>3, <2>1, <2>5
  <2>6. CASE s \in Loads /\ t = n
    BY <1>3, <2>1, <2>6
  <2> QED
    BY <1>5, <2>4, <2>5, <2>6
<1> QED
  BY <1>6, <1>7, <1>8, <1>9, <1>10 DEF IInv

\* What emptying the memo of r leaves true, the trips' calls being the same.
LEMMA EmptiedKeeps ==
    ASSUME IInv, NEW r \in Requests, memo' = Emptied(r), Loads' = Loads,
           floor' \in [Requests -> Nat], UNCHANGED open,
           epoch' = [epoch EXCEPT ![r] = @ + 1],
           \A q \in Requests : q # r => floor'[q] = floor[q],
           DOMAIN trips \subseteq DOMAIN trips',
           \A s \in Loads : trips'[s] = trips[s]
    PROVE  KeptIsCurrent' /\ CurrentIsKept' /\ OneLoadPerKey' /\ NothingBeforeBegin'
<1>1. TypeOK
  BY DEF IInv
<1>2. \A q \in Requests, k \in Keys : memo'[q][k] = IF q = r THEN NoTrip ELSE memo[q][k]
  BY <1>1, EmptiedType
<1>3. epoch[r] \in Nat /\ epoch'[r] = epoch[r] + 1
      /\ \A q \in Requests : q # r => epoch'[q] = epoch[q]
  BY <1>1 DEF TypeOK
<1>4. KeptIsCurrent'
  <2> SUFFICES ASSUME NEW q \in Requests, NEW j \in Keys, memo'[q][j] # NoTrip
               PROVE  /\ memo'[q][j] \in DOMAIN trips'
                      /\ trips'[memo'[q][j]].req = q
                      /\ trips'[memo'[q][j]].key = j
                      /\ trips'[memo'[q][j]].from >= floor'[q]
                      /\ trips'[memo'[q][j]].epoch = epoch'[q]
                      /\ trips'[memo'[q][j]].phase # "failed"
    BY DEF KeptIsCurrent
  <2>1. q # r /\ memo'[q][j] = memo[q][j]
    BY <1>2
  <2>2. /\ memo[q][j] \in DOMAIN trips
        /\ trips[memo[q][j]].req = q
        /\ trips[memo[q][j]].key = j
        /\ trips[memo[q][j]].from >= floor[q]
        /\ trips[memo[q][j]].epoch = epoch[q]
        /\ trips[memo[q][j]].phase # "failed"
    BY <2>1 DEF IInv, KeptIsCurrent
  <2>3. memo[q][j] \in Loads
    BY <2>2, MemoAssumption DEF MemoAssumption, Loads
  <2> QED
    BY <1>3, <2>1, <2>2, <2>3
<1>5. CurrentIsKept'
  <2> SUFFICES ASSUME NEW s \in Loads, trips'[s].phase # "failed",
                      trips'[s].epoch = epoch'[trips'[s].req]
               PROVE  memo'[trips'[s].req][trips'[s].key] = s
    BY DEF CurrentIsKept
  <2>1. /\ s \in DOMAIN trips /\ trips[s].req \in Requests /\ trips[s].key \in Keys
        /\ trips[s].epoch \in Nat
    BY <1>1, TripFields DEF Loads
  <2>2. trips[s].epoch <= epoch[trips[s].req]
    BY <2>1 DEF IInv, TripsInTime
  <2>3. trips[s].req # r
    BY <1>3, <2>1, <2>2
  <2>4. memo[trips[s].req][trips[s].key] = s
    BY <1>3, <2>1, <2>3 DEF IInv, CurrentIsKept
  <2> QED
    BY <1>2, <2>1, <2>3, <2>4
<1>6. OneLoadPerKey'
  BY DEF IInv, OneLoadPerKey, Unfailed
<1>7. NothingBeforeBegin'
  BY <1>2 DEF IInv, NothingBeforeBegin
<1> QED
  BY <1>4, <1>5, <1>6, <1>7

\* A write is passed through, the memo emptied before it.
LEMMA StartWriteKeeps ==
    ASSUME IInv, TypeOK', NEW r \in Requests, StartWrite(r)
    PROVE  IInv'
<1>1. TypeOK
  BY DEF IInv
<1>2. PICK n \in Nat : n = Len(trips) + 1
  BY <1>1 DEF TypeOK
<1>3. /\ DOMAIN trips' = DOMAIN trips \cup {n}
      /\ trips'[n] = NewTrip(r, Write)
      /\ \A s \in DOMAIN trips : trips'[s] = trips[s]
  BY <1>1, <1>2, NewTripType, MadeTrip DEF StartWrite, TypeOK
<1>4. trips'[n].key = Write
  BY <1>3, NewTripFields
<1>5. Loads' = Loads /\ \A s \in Loads : trips'[s] = trips[s]
  BY <1>3, <1>4 DEF Loads
<1>6. epoch' \in [Requests -> Nat] /\ \A q \in Requests : epoch[q] <= epoch'[q]
  BY <1>1 DEF StartWrite, TypeOK
<1>7. TripsInTime'
  BY <1>6, MadeInTime DEF StartWrite
<1>8. KeptIsCurrent' /\ CurrentIsKept' /\ OneLoadPerKey' /\ NothingBeforeBegin'
  <2>1. /\ memo' = Emptied(r) /\ epoch' = [epoch EXCEPT ![r] = @ + 1]
        /\ floor' = floor /\ floor \in [Requests -> Nat] /\ UNCHANGED open
    BY <1>1 DEF StartWrite, EmptiedBefore, TypeOK
  <2> QED
    BY <1>3, <1>5, <2>1, EmptiedKeeps
<1>9. FloorsReached'
  BY DEF StartWrite, IInv, FloorsReached
<1> QED
  BY <1>7, <1>8, <1>9 DEF IInv

\* A write returns, however it went, and the memo is emptied after it.
LEMMA WriteReturnsKeeps ==
    ASSUME IInv, TypeOK', NEW t \in DOMAIN trips, WriteReturns(t)
    PROVE  IInv'
<1> DEFINE r == trips[t].req
<1>1. TypeOK /\ r \in Requests /\ version \in Nat
  BY TripFields DEF IInv, TypeOK
<1>2. /\ trips[t].key = Write
      /\ memo' = Emptied(r)
      /\ epoch' = [epoch EXCEPT ![r] = @ + 1]
      /\ floor' = [floor EXCEPT ![r] = version]
      /\ UNCHANGED <<version, open>>
  BY DEF WriteReturns, EmptiedAfter
<1>3. OnlyMoved(t) /\ trips'[t].floor = trips[t].floor
  BY <1>1, PhaseMoves DEF WriteReturns, Phases, Settled
<1>4. DOMAIN trips' = DOMAIN trips /\ \A s \in DOMAIN trips : SameCall(s)
  BY <1>3 DEF OnlyMoved, SameCall
<1> HIDE DEF r
<1>5. Loads' = Loads /\ t \notin Loads
  BY <1>2, <1>4 DEF Loads, SameCall
<1>6. \A s \in Loads : trips'[s] = trips[s]
  BY <1>3, <1>5 DEF OnlyMoved, Loads
<1>7. KeptIsCurrent' /\ CurrentIsKept' /\ OneLoadPerKey' /\ NothingBeforeBegin'
  <2>1. /\ floor' \in [Requests -> Nat]
        /\ \A q \in Requests : q # r => floor'[q] = floor[q]
    BY <1>1, <1>2 DEF TypeOK
  <2> QED
    BY <1>1, <1>2, <1>4, <1>5, <1>6, <2>1, EmptiedKeeps
<1>8. FloorsReached'
  BY <1>1, <1>2 DEF IInv, FloorsReached, TypeOK
<1>9. TripsInTime'
  <2> SUFFICES ASSUME NEW s \in DOMAIN trips
               PROVE  /\ trips'[s].from <= version'
                      /\ trips'[s].floor <= trips'[s].from
                      /\ trips'[s].epoch <= epoch'[trips'[s].req]
                      /\ s \in Loads /\ Known(s)' => trips'[s].value >= trips'[s].from
    BY <1>4, <1>5 DEF TripsInTime
  <2>1. /\ trips[s].from <= version /\ trips[s].floor <= trips[s].from
        /\ trips[s].epoch <= epoch[trips[s].req]
        /\ s \in Loads /\ Known(s) => trips[s].value >= trips[s].from
    BY DEF IInv, TripsInTime
  <2>2. trips[s].req \in Requests /\ trips[s].epoch \in Nat
    BY <1>1, TripFields
  <2>3. epoch[trips[s].req] <= epoch'[trips[s].req]
    BY <1>1, <1>2, <2>2 DEF TypeOK
  <2>4. trips[s].epoch <= epoch'[trips[s].req]
    BY <1>1, <2>1, <2>2, <2>3, TypeOK' DEF TypeOK
  <2>5. trips'[s].floor = trips[s].floor
    BY <1>3 DEF OnlyMoved
  <2>6. s \in Loads => trips'[s] = trips[s]
    BY <1>6
  <2> QED
    BY <1>2, <1>4, <2>1, <2>4, <2>5, <2>6 DEF SameCall, Known
<1> QED
  BY <1>7, <1>8, <1>9 DEF IInv

\* A rejected load is forgotten, if it is still the one kept.
LEMMA ForgetKeeps ==
    ASSUME IInv, TypeOK', NEW t \in DOMAIN trips, Forget(t)
    PROVE  IInv'
<1>1. TypeOK /\ trips[t].phase = "rejected"
  BY DEF IInv, Forget
<1>2. /\ OnlyMoved(t) /\ trips'[t].floor = trips[t].floor /\ trips'[t].phase = "failed"
      /\ trips'[t].value = trips[t].value
  BY <1>1, PhaseMoves DEF Forget, Phases, Settled
<1>3. /\ DOMAIN trips' = DOMAIN trips /\ Loads' = Loads
      /\ \A s \in DOMAIN trips : SameCall(s)
  BY <1>2 DEF OnlyMoved, SameCall, Loads
<1>4. UNCHANGED <<version, open, floor, epoch>>
  BY DEF Forget
<1>5. \A q \in Requests, k \in Keys :
         memo'[q][k] = IF q = trips[t].req /\ k = trips[t].key /\ memo[q][k] = t
                         THEN NoTrip ELSE memo[q][k]
  BY <1>1 DEF Forget, Without, ContextOf, TypeOK
<1>6. FloorsReached' /\ NothingBeforeBegin'
  BY <1>4, <1>5 DEF IInv, FloorsReached, NothingBeforeBegin
<1>7. TripsInTime'
  <2> SUFFICES ASSUME NEW s \in DOMAIN trips
               PROVE  /\ trips'[s].from <= version'
                      /\ trips'[s].floor <= trips'[s].from
                      /\ trips'[s].epoch <= epoch'[trips'[s].req]
                      /\ s \in Loads /\ Known(s)' => trips'[s].value >= trips'[s].from
    BY <1>3 DEF TripsInTime
  <2>1. /\ trips[s].from <= version /\ trips[s].floor <= trips[s].from
        /\ trips[s].epoch <= epoch[trips[s].req]
        /\ s \in Loads /\ Known(s) => trips[s].value >= trips[s].from
    BY DEF IInv, TripsInTime
  <2>2. trips'[s].floor = trips[s].floor /\ trips'[s].value = trips[s].value
    BY <1>2 DEF OnlyMoved
  <2>3. Known(s)' => Known(s)
    BY <1>2 DEF OnlyMoved, Known
  <2> QED
    BY <1>3, <1>4, <2>1, <2>2, <2>3 DEF SameCall
<1>8. KeptIsCurrent'
  <2> SUFFICES ASSUME NEW q \in Requests, NEW j \in Keys, memo'[q][j] # NoTrip
               PROVE  /\ memo'[q][j] \in DOMAIN trips'
                      /\ trips'[memo'[q][j]].req = q
                      /\ trips'[memo'[q][j]].key = j
                      /\ trips'[memo'[q][j]].from >= floor'[q]
                      /\ trips'[memo'[q][j]].epoch = epoch'[q]
                      /\ trips'[memo'[q][j]].phase # "failed"
    BY DEF KeptIsCurrent
  <2>1. memo'[q][j] = memo[q][j]
    BY <1>5
  <2>2. /\ memo[q][j] \in DOMAIN trips
        /\ trips[memo[q][j]].req = q
        /\ trips[memo[q][j]].key = j
        /\ trips[memo[q][j]].from >= floor[q]
        /\ trips[memo[q][j]].epoch = epoch[q]
        /\ trips[memo[q][j]].phase # "failed"
    BY <2>1 DEF IInv, KeptIsCurrent
  <2>3. memo[q][j] # t
    BY <1>5, <2>2
  <2>4. trips'[memo[q][j]] = trips[memo[q][j]]
    BY <1>2, <2>2, <2>3 DEF OnlyMoved
  <2> QED
    BY <1>3, <1>4, <2>1, <2>2, <2>4
<1>9. CurrentIsKept'
  <2> SUFFICES ASSUME NEW s \in Loads, trips'[s].phase # "failed",
                      trips'[s].epoch = epoch[trips'[s].req]
               PROVE  memo'[trips'[s].req][trips'[s].key] = s
    BY <1>3, <1>4 DEF CurrentIsKept
  <2>1. s \in DOMAIN trips /\ trips[s].req \in Requests /\ trips[s].key \in Keys
    BY <1>1, TripFields DEF Loads
  <2>2. s # t
    BY <1>2
  <2>3. trips'[s] = trips[s]
    BY <1>2, <2>1, <2>2 DEF OnlyMoved
  <2>4. memo[trips[s].req][trips[s].key] = s
    BY <2>3 DEF IInv, CurrentIsKept
  <2> QED
    BY <1>5, <2>1, <2>2, <2>3, <2>4
<1>10. OneLoadPerKey'
  <2>1. ASSUME NEW s \in Loads, Unfailed(s)'
        PROVE  trips'[s] = trips[s]
    BY <1>2, <2>1 DEF OnlyMoved, Unfailed, Loads
  <2> QED
    BY <1>3, <2>1 DEF IInv, OneLoadPerKey, Unfailed
<1> QED
  BY <1>6, <1>7, <1>8, <1>9, <1>10 DEF IInv

-----------------------------------------------------------------------------
LEMMA NextInv == IInv /\ [Next]_vars => IInv'
<1> SUFFICES ASSUME IInv, [Next]_vars
             PROVE  IInv'
  OBVIOUS
<1>1. TypeOK /\ TypeOK'
  BY NextType DEF IInv
<1>2. ASSUME NEW r \in Requests, Begin(r)
      PROVE  IInv'
  BY <1>1, <1>2, BeginKeeps
<1>3. ASSUME NEW r \in Requests, StartWrite(r)
      PROVE  IInv'
  BY <1>1, <1>3, StartWriteKeeps
<1>4. ASSUME NEW r \in Requests, NEW k \in Keys, Ask(r, k)
      PROVE  IInv'
  <2>1. r \in open /\ UNCHANGED <<version, open, floor, epoch>>
    BY <1>4 DEF Ask, Keeping
  <2>2. CASE memo[r][k] = NoTrip
    <3>1. /\ trips' = Append(trips, NewTrip(r, k))
          /\ memo' = [memo EXCEPT ![r][k] = Len(trips) + 1]
      BY <1>1, <1>4, <2>2, TripFields DEF Ask, Keeping, ContextOf
    <3> QED
      BY <1>1, <2>1, <2>2, <3>1, AskKeeps
  <2>3. ASSUME NEW t \in DOMAIN trips, memo[r][k] = t,
               trips' = [trips EXCEPT ![t].floor = floor[r], ![t].last = Len(trips)],
               UNCHANGED memo
        PROVE  IInv'
    <3>1. /\ OnlyMoved(t) /\ trips'[t].floor = floor[r]
          /\ trips'[t].phase = trips[t].phase /\ trips'[t].value = trips[t].value
      BY <1>1, <2>3, JoinMoves
    <3>2. trips[t].from >= floor[r] /\ trips[t].phase # "failed"
      BY <1>1, <2>3, TripFields DEF IInv, KeptIsCurrent
    <3>3. t \in Loads /\ Known(t)' => trips'[t].value >= trips[t].from
      BY <3>1 DEF Known, IInv, TripsInTime
    <3>4. Unfailed(t)' => Unfailed(t)
      BY <3>1 DEF Unfailed
    <3>5. trips'[t].floor <= trips[t].from /\ version <= version'
      BY <1>1, <2>1, <3>1, <3>2, TripFields DEF TypeOK
    <3> QED
      BY <1>1, <2>1, <2>3, <3>1, <3>2, <3>3, <3>4, <3>5, MovedKeeps
  <2> QED
    BY <1>4, <2>2, <2>3 DEF Ask, Keeping, ContextOf
<1>5. ASSUME NEW t \in DOMAIN trips, Serve(t)
      PROVE  IInv'
  <2>1. /\ OnlyMoved(t) /\ trips'[t].floor = trips[t].floor
        /\ trips[t].phase = "sent" /\ trips'[t].phase \in {"answered", "refused"}
        /\ version' \in Nat /\ version <= version'
        /\ trips'[t].phase = "answered" => trips'[t].value >= version
    BY <1>1, <1>5, ServeMoves
  <2>2. UNCHANGED <<open, floor, epoch, memo>>
    BY <1>5 DEF Serve
  <2>3. trips[t].from <= version /\ trips[t].floor <= trips[t].from
    BY DEF IInv, TripsInTime
  <2>4. trips'[t].value \in Nat
    <3>1. t \in DOMAIN trips' /\ trips' \in Seq(Trip)
      BY <2>1 DEF OnlyMoved
    <3>2. trips'[t] \in Trip
      BY <3>1
    <3> QED
      BY <3>2 DEF Trip
  <2>5. t \in Loads /\ Known(t)' => trips'[t].value >= trips[t].from
    BY <1>1, <2>1, <2>3, <2>4, TripFields DEF Known, TypeOK
  <2>6. Unfailed(t) /\ trips'[t].phase # "failed" /\ trips[t].phase # "failed"
    BY <2>1 DEF Unfailed
  <2> QED
    BY <1>1, <2>1, <2>2, <2>3, <2>5, <2>6, MovedKeeps
<1>6. ASSUME NEW t \in DOMAIN trips, WriteReturns(t)
      PROVE  IInv'
  BY <1>1, <1>6, WriteReturnsKeeps
<1>7. ASSUME NEW t \in DOMAIN trips, LoadReturns(t)
      PROVE  IInv'
  <2>1. /\ OnlyMoved(t) /\ trips'[t].floor = trips[t].floor
        /\ trips'[t].value = trips[t].value
        /\ \/ trips[t].phase = "answered" /\ trips'[t].phase = "resolved"
           \/ trips[t].phase = "refused" /\ trips'[t].phase = "rejected"
    BY <1>1, <1>7, PhaseMoves DEF LoadReturns, Phases, Settled
  <2>2. UNCHANGED <<version, open, floor, epoch, memo>>
    BY <1>7 DEF LoadReturns
  <2>3. version <= version' /\ trips'[t].floor <= trips[t].from
    BY <1>1, <2>1, <2>2 DEF IInv, TripsInTime, TypeOK
  <2>4. t \in Loads /\ Known(t)' => trips'[t].value >= trips[t].from
    BY <2>1 DEF IInv, TripsInTime, Known
  <2>5. /\ trips[t].phase # "failed" /\ trips'[t].phase # "failed"
        /\ Unfailed(t)' => Unfailed(t)
    BY <2>1 DEF Unfailed
  <2> QED
    BY <1>1, <2>1, <2>2, <2>3, <2>4, <2>5, MovedKeeps
<1>8. ASSUME NEW t \in DOMAIN trips, Forget(t)
      PROVE  IInv'
  BY <1>1, <1>8, ForgetKeeps
<1>9. CASE UNCHANGED vars
  BY <1>1, <1>9
     DEF vars, IInv, NothingBeforeBegin, FloorsReached, TripsInTime, KeptIsCurrent,
         CurrentIsKept, OneLoadPerKey, Loads, Known, Unfailed
<1> QED
  BY <1>2, <1>3, <1>4, <1>5, <1>6, <1>7, <1>8, <1>9 DEF Next

LEMMA Invariance == Spec => []IInv
BY InitInv, NextInv, PTL DEF Spec

\* A read that has not failed is the one kept until the next write of its
\* request: no late failure of another read takes its slot.
THEOREM CurrentKept == Spec => []CurrentIsKept
BY Invariance, PTL DEF IInv

\* However the round trips are ordered and whichever fail, no caller is
\* answered with less than its request could count on.
THEOREM AnswersFresh == Spec => []AnswersAreFresh
<1>1. IInv => AnswersAreFresh
  <2> SUFFICES ASSUME IInv, NEW t \in Loads, Known(t)
               PROVE  trips[t].value >= trips[t].floor
    BY DEF AnswersAreFresh
  <2>1. t \in DOMAIN trips /\ TypeOK
    BY DEF Loads, IInv
  <2>2. trips[t].floor <= trips[t].from /\ trips[t].value >= trips[t].from
    BY <2>1 DEF IInv, TripsInTime
  <2> QED
    BY <2>1, <2>2, TripFields
<1> QED
  BY <1>1, Invariance, PTL

\* Between its writes a request asks each thing once, and again only when the
\* round trip failed.
THEOREM OneLoadEach == Spec => []OneLoadPerKey
<1>1. IInv => OneLoadPerKey
  BY DEF IInv
<1> QED
  BY <1>1, Invariance, PTL

\* A failure that has been told is in no memo.
THEOREM FailuresForgotten == Spec => []FailureNotKept
<1>1. IInv => FailureNotKept
  <2> SUFFICES ASSUME IInv, NEW r \in Requests, NEW k \in Keys, NEW t \in DOMAIN trips,
                      memo[r][k] = t
               PROVE  trips[t].phase # "failed"
    BY DEF FailureNotKept
  <2>1. t # NoTrip
    BY TripFields DEF IInv
  <2> QED
    BY <2>1 DEF IInv, KeptIsCurrent
<1> QED
  BY <1>1, Invariance, PTL

-----------------------------------------------------------------------------
(* The order of a request's reads and writes: what is kept was sent after  *)
(* every write of its request, and nobody asks before what has been sent.  *)

KeptFollows ==
    \A r \in Requests, k \in Keys, w \in Writes :
        memo[r][k] # NoTrip /\ trips[w].req = r => w < memo[r][k]

AskedInTime == \A t \in DOMAIN trips : trips[t].last \in DOMAIN trips

OrderInv == KeptFollows /\ AskedInTime /\ ReadsFollowWrites

\* A trip moves on; no slot is given to another one.
LEMMA MovedInOrder ==
    ASSUME OrderInv, NEW t \in DOMAIN trips, OnlyMoved(t), trips'[t].last = trips[t].last,
           \A r \in Requests, k \in Keys : memo'[r][k] \in {memo[r][k], NoTrip}
    PROVE  OrderInv'
<1>1. /\ DOMAIN trips' = DOMAIN trips /\ Loads' = Loads /\ Writes' = Writes
      /\ \A s \in DOMAIN trips : trips'[s].req = trips[s].req /\ trips'[s].last = trips[s].last
  BY DEF OnlyMoved, SameCall, Loads, Writes
<1>2. KeptFollows'
  BY <1>1 DEF OrderInv, KeptFollows, Writes
<1>3. AskedInTime'
  BY <1>1 DEF OrderInv, AskedInTime
<1>4. ReadsFollowWrites'
  BY <1>1 DEF OrderInv, ReadsFollowWrites, Loads, Writes
<1> QED
  BY <1>2, <1>3, <1>4 DEF OrderInv

\* A read is handed the promise that is kept.
LEMMA JoinedInOrder ==
    ASSUME TypeOK, OrderInv, NEW r \in Requests, NEW k \in Keys, NEW t \in DOMAIN trips,
           memo[r][k] = t, trips[t].req = r, UNCHANGED memo,
           trips' = [trips EXCEPT ![t].floor = floor[r], ![t].last = Len(trips)]
    PROVE  OrderInv'
<1>1. OnlyMoved(t) /\ trips'[t].last = Len(trips) /\ t # NoTrip
  BY JoinMoves, TripFields
<1>2. /\ DOMAIN trips' = DOMAIN trips /\ Loads' = Loads /\ Writes' = Writes
      /\ \A s \in DOMAIN trips : trips'[s].req = trips[s].req
      /\ \A s \in DOMAIN trips : s # t => trips'[s].last = trips[s].last
  BY <1>1 DEF OnlyMoved, SameCall, Loads, Writes
<1>3. KeptFollows'
  BY <1>2 DEF OrderInv, KeptFollows, Writes
<1>4. AskedInTime'
  <2>1. Len(trips) \in DOMAIN trips
    BY DEF TypeOK
  <2> QED
    BY <1>1, <1>2, <2>1 DEF OrderInv, AskedInTime
<1>5. ReadsFollowWrites'
  <2>1. \A w \in Writes : trips[w].req = r => w < t
    BY <1>1 DEF OrderInv, KeptFollows
  <2> QED
    BY <1>2, <2>1 DEF OrderInv, ReadsFollowWrites, Loads, Writes
<1> QED
  BY <1>3, <1>4, <1>5 DEF OrderInv

\* A trip is made: a read takes a slot, a write leaves its request none.
LEMMA MadeInOrder ==
    ASSUME TypeOK, OrderInv, NEW r \in Requests, NEW key \in Keys \cup {Write},
           trips' = Append(trips, NewTrip(r, key)),
           \A q \in Requests, j \in Keys :
              \/ memo'[q][j] = NoTrip
              \/ memo'[q][j] = Len(trips) + 1 /\ key # Write
              \/ memo'[q][j] = memo[q][j] /\ ~(q = r /\ key = Write)
    PROVE  OrderInv'
<1>1. PICK n \in Nat : n = Len(trips) + 1
  BY DEF TypeOK
<1>2. /\ DOMAIN trips' = DOMAIN trips \cup {n}
      /\ trips'[n] = NewTrip(r, key)
      /\ \A s \in DOMAIN trips : trips'[s] = trips[s]
  BY <1>1, NewTripType, MadeTrip DEF TypeOK
<1>3. trips'[n].req = r /\ trips'[n].key = key /\ trips'[n].last = n
  BY <1>1, <1>2, NewTripFields
<1>4. \A s \in DOMAIN trips : s \in Nat /\ s < n
  BY <1>1 DEF TypeOK
<1>5. /\ Loads' = IF key = Write THEN Loads ELSE Loads \cup {n}
      /\ Writes' = IF key = Write THEN Writes \cup {n} ELSE Writes
  BY <1>2, <1>3, <1>4 DEF Loads, Writes
<1>6. KeptFollows'
  <2> SUFFICES ASSUME NEW q \in Requests, NEW j \in Keys, NEW w \in Writes',
                      memo'[q][j] # NoTrip, trips'[w].req = q
               PROVE  w < memo'[q][j]
    BY DEF KeptFollows
  <2>1. CASE w = n
    BY <1>1, <1>3, <1>4, <1>5, <2>1 DEF Writes
  <2>2. CASE w \in Writes
    BY <1>1, <1>2, <1>4, <2>2 DEF OrderInv, KeptFollows, Writes
  <2> QED
    BY <1>5, <2>1, <2>2
<1>7. AskedInTime'
  BY <1>2, <1>3 DEF OrderInv, AskedInTime
<1>8. ReadsFollowWrites'
  <2> SUFFICES ASSUME NEW w \in Writes', NEW t \in Loads',
                      trips'[w].req = trips'[t].req, w <= trips'[t].last
               PROVE  w < t
    BY DEF ReadsFollowWrites
  <2>1. CASE t = n
    BY <1>2, <1>3, <1>4, <1>5, <2>1 DEF Writes, Loads
  <2>2. CASE t \in Loads /\ w \in Writes
    BY <1>2, <2>2 DEF OrderInv, ReadsFollowWrites, Loads, Writes
  <2>3. CASE t \in Loads /\ w = n
    BY <1>2, <1>4, <2>3 DEF OrderInv, AskedInTime, Loads
  <2> QED
    BY <1>5, <2>1, <2>2, <2>3
<1> QED
  BY <1>6, <1>7, <1>8 DEF OrderInv

LEMMA NextInOrder == IInv /\ OrderInv /\ [Next]_vars => OrderInv'
<1> SUFFICES ASSUME IInv, OrderInv, [Next]_vars
             PROVE  OrderInv'
  OBVIOUS
<1>1. TypeOK
  BY DEF IInv
<1>2. ASSUME UNCHANGED <<memo, trips>>
      PROVE  OrderInv'
  BY <1>2 DEF OrderInv, KeptFollows, AskedInTime, ReadsFollowWrites, Loads, Writes
<1>3. ASSUME NEW r \in Requests, StartWrite(r)
      PROVE  OrderInv'
  BY <1>1, <1>3, EmptiedType, MadeInOrder DEF StartWrite, EmptiedBefore
<1>4. ASSUME NEW r \in Requests, NEW k \in Keys, Ask(r, k)
      PROVE  OrderInv'
  <2>1. CASE /\ trips' = Append(trips, NewTrip(r, k))
             /\ memo' = [memo EXCEPT ![ContextOf(r)][k] = Len(trips) + 1]
    <3>1. k # Write
      BY MemoAssumption DEF MemoAssumption
    <3>2. \A q \in Requests, j \in Keys : memo'[q][j] \in {Len(trips) + 1, memo[q][j]}
      BY <1>1, <2>1 DEF ContextOf, TypeOK
    <3> QED
      BY <1>1, <2>1, <3>1, <3>2, MadeInOrder
  <2>2. ASSUME NEW t \in DOMAIN trips, memo[r][k] = t, UNCHANGED memo,
               trips' = [trips EXCEPT ![t].floor = floor[r], ![t].last = Len(trips)]
        PROVE  OrderInv'
    <3>1. trips[t].req = r
      BY <1>1, <2>2, TripFields DEF IInv, KeptIsCurrent
    <3> QED
      BY <1>1, <2>2, <3>1, JoinedInOrder
  <2> QED
    BY <1>4, <2>1, <2>2 DEF Ask, Keeping, ContextOf
<1>5. ASSUME NEW t \in DOMAIN trips, Serve(t)
      PROVE  OrderInv'
  BY <1>1, <1>5, ServeMoves, MovedInOrder DEF Serve
<1>6. ASSUME NEW t \in DOMAIN trips, WriteReturns(t)
      PROVE  OrderInv'
  <2>1. OnlyMoved(t) /\ trips'[t].last = trips[t].last
    BY <1>1, <1>6, PhaseMoves DEF WriteReturns, Phases, Settled
  <2>2. \A q \in Requests, j \in Keys : memo'[q][j] \in {memo[q][j], NoTrip}
    BY <1>1, <1>6, TripFields, EmptiedType DEF WriteReturns, EmptiedAfter
  <2> QED
    BY <2>1, <2>2, MovedInOrder
<1>7. ASSUME NEW t \in DOMAIN trips, LoadReturns(t)
      PROVE  OrderInv'
  <2>1. OnlyMoved(t) /\ trips'[t].last = trips[t].last
    BY <1>1, <1>7, PhaseMoves DEF LoadReturns, Phases, Settled
  <2> QED
    BY <1>7, <2>1, MovedInOrder DEF LoadReturns
<1>8. ASSUME NEW t \in DOMAIN trips, Forget(t)
      PROVE  OrderInv'
  <2>1. OnlyMoved(t) /\ trips'[t].last = trips[t].last
    BY <1>1, <1>8, PhaseMoves DEF Forget, Phases, Settled
  <2>2. \A q \in Requests, j \in Keys : memo'[q][j] \in {memo[q][j], NoTrip}
    BY <1>1, <1>8 DEF Forget, Without, ContextOf, TypeOK
  <2> QED
    BY <2>1, <2>2, MovedInOrder
<1> QED
  BY <1>2, <1>3, <1>4, <1>5, <1>6, <1>7, <1>8 DEF Next, vars, Begin

\* No read asked since a write began is answered from before that write was
\* sent, for any number of requests and writes in flight.
THEOREM ReadsFollow == Spec => []ReadsFollowWrites
<1>1. Init => OrderInv
  BY DEF Init, OrderInv, KeptFollows, AskedInTime, ReadsFollowWrites, Loads, Writes
<1>2. OrderInv => ReadsFollowWrites
  BY DEF OrderInv
<1> QED
  BY <1>1, <1>2, NextInOrder, Invariance, PTL DEF Spec
=============================================================================
