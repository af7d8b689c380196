----------------------------- MODULE RequestMemo -----------------------------
(***************************************************************************)
(* One request's view of the store (src/store/request-scoped-store.ts):    *)
(* every read asked once and its promise shared, every write passed        *)
(* through and the memo emptied before and after it.  The store behind it  *)
(* is reached by round trips that are answered, or fail, one by one and    *)
(* in any order; its content is the number of writes it has done, so a     *)
(* value tells which writes it is from before and which it has seen.       *)
(***************************************************************************)
EXTENDS Integers, Sequences

CONSTANTS
    Requests,   \* GraphQL requests, each with a context object of its own
    Keys,       \* the distinct read calls: a method and its arguments
    Write,      \* what stands for a key in the round trip of a write
    Fallible,   \* TRUE of a store a call to which may fail
    MaxTrips    \* bound: how many round trips a behaviour makes

ASSUME MemoAssumption ==
    /\ Write \notin Keys
    /\ Fallible \in BOOLEAN
    /\ MaxTrips \in Nat

VARIABLES
    version,  \* how many writes the store has done
    open,     \* the requests that have begun
    floor,    \* the version as each request began, or as its last write returned
    epoch,    \* how often each request's memo has been emptied
    memo,     \* for each context and key the round trip whose promise is kept
    trips     \* every round trip, in the order they were made

vars == <<version, open, floor, epoch, memo, trips>>

NoTrip    == 0
EmptyMemo == [k \in Keys |-> NoTrip]

\* A promise is answered or refused by the store, and settles in the isolate
\* later: resolved, or rejected and, its catch handler having run, failed.
Settled == {"resolved", "failed"}
Phases  == {"sent", "answered", "refused", "rejected"} \cup Settled

Init ==
    /\ version = 0
    /\ open = {}
    /\ floor = [r \in Requests |-> 0]
    /\ epoch = [r \in Requests |-> 0]
    /\ memo = [r \in Requests |-> EmptyMemo]
    /\ trips = << >>

\* Mutant: one memo for every request.
OneContext(r) == CHOOSE other \in Requests : TRUE

\* The context a memo is found by: Yoga builds one for every request.
ContextOf(r) == r

Begin(r) ==
    /\ r \notin open
    /\ open' = open \cup {r}
    /\ floor' = [floor EXCEPT ![r] = version]
    /\ UNCHANGED <<version, epoch, memo, trips>>

\* from is the version as the trip is made; floor and last are what its last
\* caller may count on: the floor of its request and the trips made by then.
NewTrip(r, key) ==
    [req |-> r, key |-> key, from |-> version, phase |-> "sent", value |-> 0,
     floor |-> floor[r], last |-> Len(trips) + 1, epoch |-> epoch[r]]

\* Mutant: the promise is awaited, and not kept for the next caller.
NotKeeping(r, k, t) == memo

Keeping(r, k, t) == [memo EXCEPT ![ContextOf(r)][k] = t]

Ask(r, k) ==
    /\ r \in open
    /\ UNCHANGED <<version, open, floor, epoch>>
    /\ \/ \E t \in DOMAIN trips :
             /\ memo[ContextOf(r)][k] = t
             /\ trips' = [trips EXCEPT ![t].floor = floor[r], ![t].last = Len(trips)]
             /\ UNCHANGED memo
       \/ /\ memo[ContextOf(r)][k] = NoTrip
          /\ Len(trips) < MaxTrips
          /\ trips' = Append(trips, NewTrip(r, k))
          /\ memo' = Keeping(r, k, Len(trips) + 1)

Emptied(r) == [memo EXCEPT ![ContextOf(r)] = EmptyMemo]

\* Mutants: the memo is left as it is; or it is gone, not empty.
Kept(r) == memo
Gone(r) == [other \in Requests \ {ContextOf(r)} |-> memo[other]]

EmptiedBefore(r) == Emptied(r)
EmptiedAfter(r)  == Emptied(r)

StartWrite(r) ==
    /\ r \in open
    /\ Len(trips) < MaxTrips
    /\ trips' = Append(trips, NewTrip(r, Write))
    /\ memo' = EmptiedBefore(r)
    /\ epoch' = [epoch EXCEPT ![r] = @ + 1]
    /\ UNCHANGED <<version, open, floor>>

-----------------------------------------------------------------------------
(* The store, at its own time. *)

Served(t, phase, value) ==
    trips' = [trips EXCEPT ![t].phase = phase, ![t].value = value]

Turn(t) == trips[t].phase = "sent"

\* A refused write may have been done all the same: its answer was lost.
Serve(t) ==
    /\ Turn(t)
    /\ UNCHANGED <<open, floor, epoch, memo>>
    /\ \/ /\ trips[t].key # Write
          /\ Served(t, "answered", version)
          /\ UNCHANGED version
       \/ /\ trips[t].key = Write
          /\ version' = version + 1
          /\ \/ Served(t, "answered", version + 1)
             \/ Fallible /\ Served(t, "refused", version + 1)
       \/ /\ Fallible
          /\ Served(t, "refused", 0)
          /\ UNCHANGED version

-----------------------------------------------------------------------------
(* The isolate, as the answers come in. *)

\* The finally of a write runs before its caller goes on, whatever the outcome.
WriteReturns(t) ==
    LET r == trips[t].req IN
    /\ trips[t].key = Write
    /\ \/ /\ trips[t].phase = "answered"
          /\ trips' = [trips EXCEPT ![t].phase = "resolved"]
       \/ /\ trips[t].phase = "refused"
          /\ trips' = [trips EXCEPT ![t].phase = "failed"]
    /\ memo' = EmptiedAfter(r)
    /\ epoch' = [epoch EXCEPT ![r] = @ + 1]
    /\ floor' = [floor EXCEPT ![r] = version]
    /\ UNCHANGED <<version, open>>

\* Mutant: a refusal never reaches those who wait.
LoadReturnsIfAnswered(t) ==
    /\ trips[t].key # Write
    /\ trips[t].phase = "answered"
    /\ trips' = [trips EXCEPT ![t].phase = "resolved"]
    /\ UNCHANGED <<version, open, floor, epoch, memo>>

LoadReturns(t) ==
    /\ trips[t].key # Write
    /\ \/ /\ trips[t].phase = "answered"
          /\ trips' = [trips EXCEPT ![t].phase = "resolved"]
       \/ /\ trips[t].phase = "refused"
          /\ trips' = [trips EXCEPT ![t].phase = "rejected"]
    /\ UNCHANGED <<version, open, floor, epoch, memo>>

\* Mutants: whoever holds the slot is dropped; or nobody is.
WithoutKey(t) == [memo EXCEPT ![ContextOf(trips[t].req)][trips[t].key] = NoTrip]
WithAll(t)    == memo

\* The memo without the rejected promise, if it is still the one kept.
Without(t) ==
    [memo EXCEPT ![ContextOf(trips[t].req)][trips[t].key] = IF @ = t THEN NoTrip ELSE @]

\* The catch handler, registered before any caller awaits, runs before theirs.
Forget(t) ==
    /\ trips[t].phase = "rejected"
    /\ trips' = [trips EXCEPT ![t].phase = "failed"]
    /\ memo' = Without(t)
    /\ UNCHANGED <<version, open, floor, epoch>>

Progress(t) == Serve(t) \/ WriteReturns(t) \/ LoadReturns(t) \/ Forget(t)

Next ==
    \/ \E r \in Requests : Begin(r) \/ StartWrite(r)
    \/ \E r \in Requests, k \in Keys : Ask(r, k)
    \/ \E t \in DOMAIN trips : Serve(t) \/ WriteReturns(t) \/ LoadReturns(t) \/ Forget(t)

Spec == Init /\ [][Next]_vars

\* A call of the store is answered in the end, and promise jobs are run; no
\* request is obliged to ask anything.
Answering == \A t \in 1..MaxTrips : WF_vars(t \in DOMAIN trips /\ Progress(t))
FairSpec  == Spec /\ Answering

-----------------------------------------------------------------------------
Trip == [req: Requests, key: Keys \cup {Write}, from: Nat, phase: Phases, value: Nat,
         floor: Nat, last: Nat, epoch: Nat]

TypeOK ==
    /\ version \in Nat
    /\ open \subseteq Requests
    /\ floor \in [Requests -> Nat]
    /\ epoch \in [Requests -> Nat]
    /\ memo \in [Requests -> [Keys -> Nat]]
    /\ trips \in Seq(Trip)

Loads  == {t \in DOMAIN trips : trips[t].key # Write}
Writes == {t \in DOMAIN trips : trips[t].key = Write}

Known(t) == trips[t].phase \in {"answered", "resolved"}

\* The origin serves the newest value on the very next read: whatever a caller
\* of a read is answered with is no older than what the store held as its
\* request began, and as the last write of its request returned, be it with an
\* error (request-scoped-store.ts, #write and forRequest).
AnswersAreFresh == \A t \in Loads : Known(t) => trips[t].value >= trips[t].floor

\* A read asked since a write of its request began is sent after that write: no
\* promise from before it is handed on, not even while the write is under way
\* (#write empties the memo before it calls the store).  A store that does its
\* calls in the order they are made, as MemoryStore does, so answers each read
\* with the writes its own operation asked first.
ReadsFollowWrites ==
    \A w \in Writes, t \in Loads :
        trips[w].req = trips[t].req /\ w <= trips[t].last => w < t

Unfailed(t) == trips[t].phase \in {"sent", "answered", "resolved"}

\* What the memo is for: between two writes a request makes one round trip for
\* a call, however often it asks, unless the round trip fails.
OneLoadPerKey ==
    \A s, t \in Loads :
        /\ trips[s].req = trips[t].req
        /\ trips[s].key = trips[t].key
        /\ trips[s].epoch = trips[t].epoch
        /\ Unfailed(s) /\ Unfailed(t)
        => s = t

\* The promise of a read is kept until the next write of its request, whatever
\* becomes of older ones: the failure of a read from before that write, coming
\* late, does not take the slot of the read that replaced it (#read's handler
\* looks whether the promise kept is still its own).
CurrentIsKept ==
    \A t \in Loads :
        /\ trips[t].phase # "failed"
        /\ trips[t].epoch = epoch[trips[t].req]
        => memo[trips[t].req][trips[t].key] = t

\* A failure is not kept: once those who waited for a read know it has failed,
\* no later caller is handed that failure.
FailureNotKept ==
    \A r \in Requests, k \in Keys, t \in DOMAIN trips :
        memo[r][k] = t => trips[t].phase # "failed"

\* Whoever asked a read or a write is told how it ended.
EveryCallEnds ==
    \A t \in 1..MaxTrips : t \in DOMAIN trips ~> (t \in DOMAIN trips /\ trips[t].phase \in Settled)
=============================================================================
