----------------------------- MODULE OriginProofs -----------------------------
(***************************************************************************)
(* Proofs about a request's way through the entry points, for any calls,   *)
(* requests, deployments, retries, restarts and clocks: what is refused    *)
(* and sent again is written once, changes are admitted, levers follow the *)
(* edge's key, and the guard lets pass what the edge has signed, for as    *)
(* long as the edge may send it, and nothing else.                         *)
(***************************************************************************)
EXTENDS Origin, TLAPS

-----------------------------------------------------------------------------
(* The order of the checks. *)

LEMMA Positions ==
    /\ DOMAIN WorkerOrder = 1..12
    /\ DOMAIN NodeOrder = 1..9
    /\ DOMAIN Order \subseteq 1..12
BY DEF Order, WorkerOrder, NodeOrder

\* A set of positions has a least one.
LEMMA LeastPosition ==
    ASSUME NEW rest, rest \subseteq 1..12, NEW k \in rest
    PROVE  \E j \in rest : \A m \in rest : j <= m
<1>1. \A m \in rest : m \in {1, 2, 3, 4, 5, 6, 7, 8, 9, 10, 11, 12}
  OBVIOUS
<1> QED
  BY <1>1, SMTT(60)

\* From stops at a check that concerns the request, and no later than at any
\* other that does.
LEMMA FromStops ==
    ASSUME NEW i \in Nat, NEW q, NEW k \in DOMAIN Order, k >= i, Concerns(Order[k], q)
    PROVE  \E j \in DOMAIN Order : /\ j >= i /\ j <= k
                                   /\ From(i, q) = Order[j]
                                   /\ Concerns(Order[j], q)
<1> DEFINE rest == {j \in DOMAIN Order : j >= i /\ Concerns(Order[j], q)}
<1> DEFINE first == CHOOSE j \in rest : \A m \in rest : j <= m
<1>1. k \in rest
  OBVIOUS
<1>2. rest \subseteq 1..12
  BY Positions
<1>3. From(i, q) = Order[first]
  BY <1>1 DEF From
<1>4. first \in rest /\ \A m \in rest : first <= m
  <2> HIDE DEF rest
  <2> QED
    BY <1>1, <1>2, LeastPosition
<1> HIDE DEF first
<1> QED
  BY <1>1, <1>3, <1>4

\* No check comes twice: what comes after it is what comes after its place.
LEMMA AfterIsFrom ==
    ASSUME NEW p \in DOMAIN Order, NEW q
    PROVE  After(Order[p], q) = From(p + 1, q)
<1> DEFINE place == CHOOSE j \in DOMAIN Order : Order[j] = Order[p]
<1>1. \A j \in DOMAIN Order : Order[j] = Order[p] => j = p
  <2>1. CASE deployment.entry = "worker"
    BY <2>1, Positions DEF Order, WorkerOrder
  <2>2. CASE deployment.entry # "worker"
    BY <2>2, Positions DEF Order, NodeOrder
  <2> QED
    BY <2>1, <2>2
<1>2. place = p
  BY <1>1
<1>3. After(Order[p], q) = From(1 + place, q)
  BY DEF After
<1> HIDE DEF place
<1> QED
  BY <1>2, <1>3, Positions

\* Yoga is the last check of both orders, and concerns every request.
LEMMA YogaIsLast ==
    \E k \in DOMAIN Order :
        /\ Order[k] = "yoga"
        /\ \A p \in DOMAIN Order : Order[p] # "yoga" => p + 1 <= k
        /\ \A q : Concerns(Order[k], q)
<1>1. \A q : Concerns("yoga", q)
  BY DEF Concerns
<1>2. CASE deployment.entry = "worker"
  <2>1. 12 \in DOMAIN Order /\ Order[12] = "yoga"
    BY <1>2, Positions DEF Order, WorkerOrder
  <2>2. \A p \in DOMAIN Order : Order[p] # "yoga" => p + 1 <= 12
    BY <1>2, Positions DEF Order, WorkerOrder
  <2> QED
    BY <1>1, <2>1, <2>2
<1>3. CASE deployment.entry # "worker"
  <2>1. 9 \in DOMAIN Order /\ Order[9] = "yoga"
    BY <1>3, Positions DEF Order, NodeOrder
  <2>2. \A p \in DOMAIN Order : Order[p] # "yoga" => p + 1 <= 9
    BY <1>3, Positions DEF Order, NodeOrder
  <2> QED
    BY <1>1, <2>1, <2>2
<1> QED
  BY <1>2, <1>3

Run == {Order[j] : j \in DOMAIN Order}

\* The Worker answers what is asked elsewhere before these.
ApiOnly == {"delay", "fault", "claims", "yoga"}

\* A check a request for q may be at.
Reached(check, q) ==
    /\ check \in Run
    /\ Concerns(check, q)
    /\ deployment.entry = "worker" /\ check \in ApiOnly => Graphql(q)

\* Where a check passes a request on to.
LEMMA AfterReaches ==
    ASSUME NEW q, NEW check, Reached(check, q), check \notin {"yoga", "elsewhere"}
    PROVE  /\ Reached(After(check, q), q)
           /\ check # "configured" => After(check, q) \notin {"configured", "guard"}
<1>1. PICK p \in DOMAIN Order : Order[p] = check
  BY DEF Reached, Run
<1>2. p \in Nat /\ p + 1 \in Nat
  BY Positions
<1>3. After(check, q) = From(p + 1, q)
  BY <1>1, AfterIsFrom
<1>4. PICK j \in DOMAIN Order : /\ j >= p + 1
                                /\ From(p + 1, q) = Order[j]
                                /\ Concerns(Order[j], q)
  BY <1>1, <1>2, YogaIsLast, FromStops
<1>5. ASSUME deployment.entry = "worker", ~Graphql(q)
      PROVE  After(check, q) \notin ApiOnly
  <2>1. p + 1 <= 8 /\ 8 \in DOMAIN Order /\ Order[8] = "elsewhere"
    BY <1>1, <1>5, Positions DEF Reached, ApiOnly, Order, WorkerOrder
  <2>2. Concerns("elsewhere", q)
    BY <1>5 DEF Concerns
  <2>3. PICK m \in DOMAIN Order : m <= 8 /\ From(p + 1, q) = Order[m]
    BY <1>2, <2>1, <2>2, FromStops
  <2>4. Order[m] \notin ApiOnly
    BY <2>3, <1>5, Positions DEF Order, WorkerOrder, ApiOnly
  <2> QED
    BY <1>3, <2>3, <2>4
<1>6. check # "configured" => Order[j] \notin {"configured", "guard"}
  <2>1. CASE deployment.entry = "worker"
    BY <1>1, <1>4, <2>1, Positions DEF Order, WorkerOrder
  <2>2. CASE deployment.entry # "worker"
    BY <1>1, <1>4, <2>2, Positions DEF Order, NodeOrder
  <2> QED
    BY <2>1, <2>2
<1> QED
  BY <1>3, <1>4, <1>5, <1>6 DEF Reached, Run

Behind(check, q) ==
    deployment.signs /\ q.path \in SignedPaths => check \in {"configured", "guard"}

\* A request begins before the guard.
LEMMA SentReaches ==
    ASSUME NEW q
    PROVE  Reached(From(1, q), q) /\ Behind(From(1, q), q)
<1>1. PICK j \in DOMAIN Order : From(1, q) = Order[j] /\ Concerns(Order[j], q)
  <2>1. \A k \in DOMAIN Order : k >= 1
    BY Positions
  <2> QED
    BY <2>1, YogaIsLast, FromStops
<1>2. ASSUME deployment.entry = "worker", ~Graphql(q)
      PROVE  From(1, q) \notin ApiOnly
  <2>1. 8 \in DOMAIN Order /\ Order[8] = "elsewhere"
    BY <1>2, Positions DEF Order, WorkerOrder
  <2>2. Concerns("elsewhere", q)
    BY <1>2 DEF Concerns
  <2>3. PICK m \in DOMAIN Order : m <= 8 /\ From(1, q) = Order[m]
    BY <2>1, <2>2, FromStops
  <2>4. Order[m] \notin ApiOnly
    BY <2>3, <1>2, Positions DEF Order, WorkerOrder, ApiOnly
  <2> QED
    BY <2>3, <2>4
<1>3. ASSUME deployment.signs, q.path \in SignedPaths
      PROVE  From(1, q) \in {"configured", "guard"}
  <2>1. Concerns("guard", q)
    BY <1>3 DEF Concerns
  <2>2. PICK k \in DOMAIN Order : k >= 1 /\ Order[k] = "guard"
                                  /\ \A m \in DOMAIN Order : m <= k => Order[m] \in {"configured", "guard"}
    <3>1. CASE deployment.entry = "worker"
      <4>1. 2 \in DOMAIN Order /\ Order[2] = "guard" /\ Order[1] = "configured"
        BY <3>1, Positions DEF Order, WorkerOrder
      <4>2. \A m \in DOMAIN Order : m <= 2 => m = 1 \/ m = 2
        BY Positions
      <4> QED
        BY <4>1, <4>2
    <3>2. CASE deployment.entry # "worker"
      <4>1. 1 \in DOMAIN Order /\ Order[1] = "guard"
        BY <3>2, Positions DEF Order, NodeOrder
      <4>2. \A m \in DOMAIN Order : m <= 1 => m = 1
        BY Positions
      <4> QED
        BY <4>1, <4>2
    <3> QED
      BY <3>1, <3>2
  <2> QED
    BY <2>1, <2>2, FromStops
<1> QED
  BY <1>1, <1>2, <1>3 DEF Reached, Run, Behind

-----------------------------------------------------------------------------
(* What holds of every attempt, whatever the others do. *)

Extras == SUBSET (LeverHeaders \cup {Echo})

Shape ==
    [at: Run \cup {"answered", "died"}, status: Statuses, extra: Extras,
     verified: BOOLEAN, counted: BOOLEAN, wrote: BOOLEAN]

AtACheck(a, q) ==
    a.at \notin {"answered", "died"} =>
        /\ Reached(a.at, q)
        /\ a.verified \/ Behind(a.at, q)
        /\ a.at \in {"configured", "guard"} => ~a.verified
        /\ a.status = 0

\* What was written, and under which conditions.
WriteIsRight(a, q) ==
    a.wrote =>
        /\ a.at = "answered" /\ a.status \notin Retryable
        /\ Graphql(q) => q.body.op = "write"
        /\ deployment.signs => a.verified
        /\ q.path = "/admin/reset" => a.verified \/ (deployment.admin /\ q.admin)

CountIsRight(a) ==
    a.counted /\ deployment.signs /\ deployment.entry = "worker" => a.verified

ExtraIsRight(a, q) == a.extra # {} => Misbehaves(q) /\ a.extra = ExtraNames(q)

Good(a, q) ==
    /\ a \in Shape
    /\ AtACheck(a, q)
    /\ WriteIsRight(a, q)
    /\ CountIsRight(a)
    /\ ExtraIsRight(a, q)

LEMMA ExtraNamesTyped ==
    ASSUME NEW q
    PROVE  ExtraNames(q) \in Extras /\ (ExtraNames(q) # {} => Misbehaves(q))
BY DEF ExtraNames, HeadersAsked, Extras

LEMMA StatusTyped ==
    ASSUME NEW q, AsksFault(q)
    PROVE  FaultStatus(q) \in Retryable
BY DEF AsksFault, FaultStatus, Retryable

LEMMA SentIsGood ==
    ASSUME NEW q
    PROVE  Good(Sent(q), q)
<1>1. Sent(q) \in Shape /\ AtACheck(Sent(q), q)
  BY SentReaches DEF Sent, Shape, AtACheck, Reached, Extras, Statuses, Retryable
<1> QED
  BY <1>1 DEF Good, Sent, WriteIsRight, CountIsRight, ExtraIsRight

Waits(a) == a.at \notin {"answered", "died"}

\* A check other than the guard passes an attempt on.
LEMMA PassedIsGood ==
    ASSUME NEW c, NEW a, Good(a, Q(c)), Waits(a),
           a.at \notin {"configured", "guard", "elsewhere", "yoga"}
    PROVE  Good(Passed(c, a), Q(c))
<1>1. /\ Reached(After(a.at, Q(c)), Q(c))
      /\ After(a.at, Q(c)) \notin {"configured", "guard"}
  BY AfterReaches DEF Good, AtACheck, Waits
<1>2. /\ Passed(c, a) = [a EXCEPT !.at = After(a.at, Q(c))]
      /\ a \in Shape
  BY DEF Passed, Good
<1>3. a.verified \/ Behind(After(a.at, Q(c)), Q(c))
  BY DEF Good, AtACheck, Waits, Behind
<1>4. Passed(c, a) \in Shape
  BY <1>1, <1>2 DEF Shape, Reached
<1>5. AtACheck(Passed(c, a), Q(c))
  BY <1>1, <1>2, <1>3 DEF AtACheck, Good, Waits, Shape
<1> QED
  BY <1>2, <1>4, <1>5
     DEF Good, Waits, Shape, WriteIsRight, CountIsRight, ExtraIsRight

\* The guard passes one on, verified.
LEMMA VerifiedIsGood ==
    ASSUME NEW c, NEW a, Good(a, Q(c)), a.at = "guard"
    PROVE  Good([Passed(c, a) EXCEPT !.verified = TRUE], Q(c))
<1> DEFINE b == [Passed(c, a) EXCEPT !.verified = TRUE]
<1>1. /\ Reached(After(a.at, Q(c)), Q(c))
      /\ After(a.at, Q(c)) \notin {"configured", "guard"}
  BY AfterReaches DEF Good, AtACheck
<1>2. /\ b = [a EXCEPT !.at = After(a.at, Q(c)), !.verified = TRUE]
      /\ a \in Shape
  BY DEF Passed, Good, Shape
<1>3. b \in Shape
  BY <1>1, <1>2 DEF Shape, Reached
<1>4. AtACheck(b, Q(c))
  BY <1>1, <1>2 DEF AtACheck, Good, Shape
<1>5. b.status = 0 /\ ~b.wrote /\ b.extra = a.extra /\ b.verified
  BY <1>2 DEF Good, Shape, AtACheck, WriteIsRight
<1> HIDE DEF b
<1>6. Good(b, Q(c))
  BY <1>3, <1>4, <1>5 DEF Good, WriteIsRight, CountIsRight, ExtraIsRight
<1> QED
  BY <1>6 DEF b

\* A check answers.
LEMMA AnsweredIsGood ==
    ASSUME NEW c, NEW a, Good(a, Q(c)), Waits(a), NEW status \in Statuses
    PROVE  /\ Good(Answered(c, a, status), Q(c))
           /\ Answered(c, a, status).at = "answered"
           /\ Answered(c, a, status).status = status
           /\ Answered(c, a, status).verified = a.verified
<1> DEFINE b == Answered(c, a, status)
<1>1. a \in Shape /\ ~a.wrote
  BY DEF Good, Waits, WriteIsRight
<1>2. PICK extra \in Extras :
         /\ b = [a EXCEPT !.at = "answered", !.status = status, !.extra = extra]
         /\ extra = ExtraNames(Q(c)) \/ extra = a.extra
  <2>1. CASE Graphql(Q(c)) /\ a.at \in Levered
    BY <2>1, ExtraNamesTyped DEF Answered
  <2>2. CASE ~(Graphql(Q(c)) /\ a.at \in Levered)
    BY <1>1, <2>2 DEF Answered, Shape
  <2> QED
    BY <2>1, <2>2
<1> HIDE DEF b
<1>3. /\ b \in Shape /\ b.at = "answered" /\ b.status = status
      /\ b.verified = a.verified /\ b.counted = a.counted /\ ~b.wrote
      /\ b.extra = ExtraNames(Q(c)) \/ b.extra = a.extra
  BY <1>1, <1>2 DEF Shape
<1>4. ExtraIsRight(b, Q(c))
  BY <1>3, ExtraNamesTyped DEF ExtraIsRight, Good
<1>5. Good(b, Q(c))
  BY <1>3, <1>4 DEF Good, AtACheck, WriteIsRight, CountIsRight
<1> QED
  BY <1>3, <1>5 DEF b

\* A check fails, and the platform answers for it.
LEMMA FailedIsGood ==
    ASSUME NEW q, NEW a, Good(a, q), Waits(a)
    PROVE  \A b : b = [a EXCEPT !.at = "answered", !.status = 500] => Good(b, q)
<1>1. a \in Shape /\ ~a.wrote
  BY DEF Good, Waits, WriteIsRight
<1>2. ASSUME NEW b, NEW status \in Statuses,
             b = [a EXCEPT !.at = "answered", !.status = status]
      PROVE  /\ b \in Shape
             /\ b.at = "answered" /\ b.status = status /\ b.wrote = a.wrote
             /\ b.verified = a.verified /\ b.counted = a.counted /\ b.extra = a.extra
  <2>1. b \in Shape
    BY <1>1, <1>2 DEF Shape
  <2> QED
    BY <1>1, <1>2, <2>1 DEF Shape
<1>3. PICK status \in Statuses : status = 500
  BY DEF Statuses
<1>4. ASSUME NEW b, b = [a EXCEPT !.at = "answered", !.status = 500]
      PROVE  Good(b, q)
  <2>1. b = [a EXCEPT !.at = "answered", !.status = status]
    BY <1>3, <1>4
  <2>2. /\ b \in Shape
        /\ b.at = "answered" /\ b.status = status /\ b.wrote = a.wrote
        /\ b.verified = a.verified /\ b.counted = a.counted /\ b.extra = a.extra
    BY <1>2, <2>1
  <2> QED
    BY <1>1, <1>3, <2>2
       DEF Good, AtACheck, WriteIsRight, CountIsRight, ExtraIsRight
<1> QED
  BY <1>4

-----------------------------------------------------------------------------
(* The inductive invariant. *)

CallOf(c) ==
    [state: {"waiting", "answered", "gaveUp", "served"}, asked: Requests[deployment][c],
     began: Nat, silent: BOOLEAN, extra: Extras]

Typed ==
    /\ now \in Nat
    /\ deployment \in Deployments
    /\ DOMAIN call = Calls
    /\ call = [c \in Calls |-> call[c]]
    /\ \A c \in Calls : call[c] = NoCall \/ call[c] \in CallOf(c)
    /\ attempts \in [Calls -> Seq(Shape)]
    /\ \A c \in Calls : call[c] = NoCall => attempts[c] = << >>
    /\ \A c \in Called : call[c].state # "served" => attempts[c] # << >>

AllGood == \A c \in Called : \A i \in Made(c) : Good(attempts[c][i], Q(c))

\* The attempts before the last were refused, where none was given up in
\* silence; and only what may be sent again has been.
Retried ==
    \A c \in Called : \A i \in Made(c) : i < Len(attempts[c]) =>
        /\ ~call[c].silent => attempts[c][i].at = "answered" /\ attempts[c][i].status \in Retryable
        /\ Graphql(Q(c))
        /\ Q(c).body.op = "write" => deployment.retryMutations

\* Whose levers an answer stored under key, or to a request with it, carries.
Owned(extra, key) ==
    extra # {} => \E d \in Called : /\ Misbehaves(Q(d))
                                    /\ KeyOf(Q(d)) = key
                                    /\ extra = ExtraNames(Q(d))

AllOwned ==
    /\ \A c \in Called : Owned(call[c].extra, KeyOf(Q(c)))
    /\ \A key \in DOMAIN stored : Owned(stored[key], key)
    /\ \A key \in DOMAIN stored : stored[key] \in Extras

IInv == Typed /\ AllGood /\ Retried /\ AllOwned

LEMMA InitHolds == Init => IInv
<1> SUFFICES ASSUME Init
             PROVE  IInv
  OBVIOUS
<1>1. Called = {}
  BY DEF Init, Called
<1> QED
  BY <1>1 DEF Init, IInv, Typed, AllGood, Retried, AllOwned

\* An attempt that waits belongs to a call.
LEMMA WaitingIsCalled ==
    ASSUME Typed, NEW c \in Calls, NEW i \in DOMAIN attempts[c]
    PROVE  c \in Called /\ attempts[c][i] \in Shape
BY DEF Typed, Called

\* The deployment alone says what an attempt may look like.
LEMMA SameShape ==
    ASSUME UNCHANGED deployment
    PROVE  Shape' = Shape
BY DEF Shape, Run, Order

LEMMA SameGood ==
    ASSUME UNCHANGED deployment, NEW a, NEW q
    PROVE  Good(a, q)' <=> Good(a, q)
<1>1. Shape' = Shape
  BY SameShape
<1>2. AtACheck(a, q)' <=> AtACheck(a, q)
  <2>1. \A check : Reached(check, q)' <=> Reached(check, q)
    BY DEF Reached, Run, Order, Concerns, SignedPaths
  <2>2. \A check : Behind(check, q)' <=> Behind(check, q)
    BY DEF Behind, SignedPaths
  <2> QED
    BY <2>1, <2>2 DEF AtACheck
<1>3. /\ WriteIsRight(a, q)' <=> WriteIsRight(a, q)
      /\ CountIsRight(a)' <=> CountIsRight(a)
      /\ ExtraIsRight(a, q)' <=> ExtraIsRight(a, q)
  BY DEF WriteIsRight, CountIsRight, ExtraIsRight
<1> QED
  BY <1>1, <1>2, <1>3 DEF Good

\* A handler's step changes one attempt, which stays good.
LEMMA HandlerKeeps ==
    ASSUME IInv, NEW c \in Calls, NEW i \in DOMAIN attempts[c], NEW b,
           Waits(attempts[c][i]), Good(b, Q(c)), Become(c, i, b), OriginOnly
    PROVE  IInv'
<1>1. /\ c \in Called /\ Called' = Called
      /\ \A d \in Calls : Q(d)' = Q(d)
  BY WaitingIsCalled DEF IInv, OriginOnly, Called, Q
<1>2. /\ attempts' = [attempts EXCEPT ![c] = [attempts[c] EXCEPT ![i] = b]]
      /\ b \in Shape
      /\ attempts \in [Calls -> Seq(Shape)]
  BY DEF Become, Good, IInv, Typed
<1>3. /\ attempts' \in [Calls -> Seq(Shape)]
      /\ \A d \in Calls : DOMAIN attempts'[d] = DOMAIN attempts[d] /\ Len(attempts'[d]) = Len(attempts[d])
      /\ \A d \in Calls : attempts[d] # << >> => attempts'[d] # << >>
      /\ \A d \in Calls : attempts[d] = << >> => attempts'[d] = << >>
      /\ \A d \in Calls : \A j \in DOMAIN attempts[d] :
            attempts'[d][j] = IF d = c /\ j = i THEN b ELSE attempts[d][j]
  BY <1>2
<1>4. Typed'
  <2>1. \A d \in Calls : call'[d] = NoCall \/ call'[d] \in CallOf(d)'
    BY DEF IInv, Typed, OriginOnly, CallOf
  <2>2. Shape' = Shape
    BY SameShape DEF OriginOnly
  <2>3. attempts' \in [Calls -> Seq(Shape')]
    BY <1>3, <2>2
  <2>4. /\ \A d \in Calls : call'[d] = NoCall => attempts'[d] = << >>
        /\ \A d \in Called' : call'[d].state # "served" => attempts'[d] # << >>
    BY <1>1, <1>3 DEF IInv, Typed, OriginOnly, Called
  <2> QED
    BY <1>1, <2>1, <2>3, <2>4 DEF IInv, Typed, OriginOnly
<1>5. AllGood'
  <2> SUFFICES ASSUME NEW d \in Called, NEW j \in DOMAIN attempts[d]
               PROVE  Good(attempts[d][j], Q(d))'
    BY <1>1, <1>3 DEF AllGood, Made, Called
  <2>1. Good(attempts'[d][j], Q(d))
    BY <1>3 DEF IInv, AllGood, Made, Called
  <2> QED
    BY <1>1, <2>1, SameGood DEF OriginOnly, Called
<1>6. Retried'
  BY <1>1, <1>3 DEF IInv, Retried, Made, Waits, OriginOnly, Called
<1>8. AllOwned'
  BY <1>1 DEF IInv, AllOwned, Owned, OriginOnly, Called
<1> QED
  BY <1>4, <1>5, <1>6, <1>8 DEF IInv

\* The checks, one by one.
LEMMA StepKeeps ==
    ASSUME IInv, NEW c \in Calls, NEW i \in DOMAIN attempts[c], Step(c, i)
    PROVE  IInv'
<1> DEFINE a == attempts[c][i]
<1>1. /\ c \in Called
      /\ Good(a, Q(c))
      /\ a \in Shape
  BY WaitingIsCalled DEF IInv, AllGood, Made, Good
<1>2. ASSUME NEW status \in Statuses, Waits(a), Answer(c, i, status), OriginOnly
      PROVE  IInv'
  BY <1>1, <1>2, AnsweredIsGood, HandlerKeeps DEF Answer
<1>3. ASSUME Waits(a), Pass(c, i), OriginOnly,
             a.at \notin {"configured", "guard", "elsewhere", "yoga"}
      PROVE  IInv'
  BY <1>1, <1>3, PassedIsGood, HandlerKeeps DEF Pass
<1>4. {200, 400, 401, 403, 404, 405, 500} \subseteq Statuses /\ Retryable \subseteq Statuses
  BY DEF Statuses
<1>5. CASE Configured(c, i)
  BY <1>2, <1>4, <1>5 DEF Configured, At, Waits
<1>6. CASE Guard(c, i)
  <2>1. a.at = "guard" /\ Waits(a) /\ OriginOnly
    BY <1>6 DEF Guard, At, Waits
  <2>2. CASE Become(c, i, [Passed(c, a) EXCEPT !.verified = TRUE])
    BY <1>1, <2>1, <2>2, VerifiedIsGood, HandlerKeeps
  <2>3. CASE Answer(c, i, 401)
    BY <1>2, <1>4, <2>1, <2>3
  <2> QED
    BY <1>6, <2>2, <2>3 DEF Guard
<1>7. CASE Health(c, i)
  BY <1>2, <1>4, <1>7 DEF Health, At, Waits
<1>8. CASE AdminReset(c, i)
  <2>1. a.at = "reset" /\ Waits(a) /\ OriginOnly
    BY <1>8 DEF AdminReset, At, Waits
  <2>2. CASE Answer(c, i, 405) \/ Answer(c, i, 403)
    BY <1>2, <1>4, <2>1, <2>2
  <2>3. ASSUME Admitted(Q(c), a), NEW status \in {200, 500}, NEW wrote \in BOOLEAN,
               Become(c, i, [Answered(c, a, status) EXCEPT !.wrote = wrote])
        PROVE  IInv'
    <3> DEFINE b == Answered(c, a, status)
    <3>1. Good(b, Q(c)) /\ b.at = "answered" /\ b.status = status /\ b.verified = a.verified
      BY <1>1, <1>4, <2>1, AnsweredIsGood
    <3> HIDE DEF b
    <3>2. Q(c).path = "/admin/reset" /\ ~Graphql(Q(c))
      BY <1>1, <2>1 DEF Good, AtACheck, Reached, Concerns, Graphql
    <3>3. deployment.signs => a.verified
      BY <1>1, <2>1, <3>2 DEF Good, AtACheck, Behind, Reached, Run, SignedPaths, Order, NodeOrder
    <3>4. Good([b EXCEPT !.wrote = wrote], Q(c))
      BY <2>3, <3>1, <3>2, <3>3
         DEF Good, Shape, AtACheck, WriteIsRight, CountIsRight, ExtraIsRight,
             Admitted, Retryable
    <3> QED
      BY <2>1, <2>3, <3>4, HandlerKeeps DEF b
  <2>4. CASE /\ Admitted(Q(c), a)
             /\ \E status \in {200, 500}, wrote \in BOOLEAN :
                   Become(c, i, [Answered(c, a, status) EXCEPT !.wrote = wrote])
    BY <2>3, <2>4
  <2> HIDE DEF a
  <2> QED
    BY <1>8, <2>2, <2>4 DEF AdminReset, a
<1>9. CASE LoadKeys(c, i)
  BY <1>2, <1>3, <1>4, <1>9 DEF LoadKeys, At, Waits
<1>10. CASE Jwks(c, i)
  BY <1>2, <1>4, <1>10 DEF Jwks, At, Waits
<1>11. CASE Token(c, i)
  BY <1>2, <1>4, <1>11 DEF Token, At, Waits
<1>12. CASE NotFound(c, i)
  BY <1>2, <1>4, <1>12 DEF NotFound, At, Waits
<1>13. CASE Delay(c, i)
  BY <1>3, <1>13 DEF Delay, At, Waits
<1>14. CASE SetHeaders(c, i)
  BY <1>3, <1>14 DEF SetHeaders, At, Waits
<1>15. CASE Claims(c, i)
  <2>1. a.at = "claims" /\ Waits(a) /\ OriginOnly
    BY <1>15 DEF Claims, At, Waits
  <2>2. CASE Pass(c, i)
    BY <1>3, <2>1, <2>2
  <2>3. CASE Answer(c, i, 401)
    BY <1>2, <1>4, <2>1, <2>3
  <2> QED
    BY <1>15, <2>2, <2>3 DEF Claims
<1>16. CASE Fault(c, i)
  <2> DEFINE times == FaultTimes(Q(c))
             nonce == Q(c).fault.nonce.nonce
  <2>1. a.at = "fault" /\ Waits(a) /\ OriginOnly
    BY <1>16 DEF Fault, At, Waits
  <2>2. Reached("fault", Q(c)) /\ (a.verified \/ Behind("fault", Q(c)))
    BY <1>1, <2>1 DEF Good, AtACheck
  <2>3. AsksFault(Q(c))
    BY <2>2 DEF Reached, Concerns
  <2>4. deployment.signs /\ deployment.entry = "worker" => a.verified
    BY <2>2 DEF Reached, ApiOnly, Behind, Graphql, SignedPaths
  <2>5. CASE Become(c, i, Refused(c, a))
    <3> DEFINE b == Answered(c, a, FaultStatus(Q(c)))
    <3>1. FaultStatus(Q(c)) \in Statuses
      BY <2>3, <1>4, StatusTyped
    <3>2. Good(b, Q(c)) /\ b.verified = a.verified
      BY <1>1, <2>1, <3>1, AnsweredIsGood
    <3>3. Refused(c, a) = [b EXCEPT !.counted = TRUE]
      BY DEF Refused
    <3> HIDE DEF b
    <3>4. Good([b EXCEPT !.counted = TRUE], Q(c))
      BY <2>4, <3>2
         DEF Good, Shape, AtACheck, WriteIsRight, CountIsRight, ExtraIsRight
    <3> QED
      BY <2>1, <2>5, <3>3, <3>4, HandlerKeeps
  <2>6. CASE Pass(c, i)
    BY <1>3, <2>1, <2>6
  <2>7. CASE Become(c, i, [a EXCEPT !.at = "answered", !.status = 500])
    <3>1. Good([a EXCEPT !.at = "answered", !.status = 500], Q(c))
      BY <1>1, <2>1, FailedIsGood
    <3> QED
      BY <2>1, <2>7, <3>1, HandlerKeeps
  <2> QED
    BY <1>16, <2>5, <2>6, <2>7 DEF Fault
<1>17. CASE Yoga(c, i)
  <2> DEFINE q == Q(c)
             status == IF ~Graphql(q) THEN 404
                       ELSE IF q.body.op \in {"query", "write"} THEN 200 ELSE 400
             b == Answered(c, a, status)
  <2>1. a.at = "yoga" /\ Waits(a) /\ OriginOnly
    BY <1>17 DEF Yoga, At, Waits
  <2>2. PICK wrote \in BOOLEAN : /\ wrote => status = 200 /\ q.body.op = "write"
                                 /\ Become(c, i, [b EXCEPT !.wrote = wrote])
    BY <1>17 DEF Yoga
  <2>3. status \in Statuses /\ status \notin Retryable
    BY <1>4 DEF Retryable
  <2>4. Good(b, q) /\ b.at = "answered" /\ b.status = status /\ b.verified = a.verified
    BY <1>1, <2>1, <2>3, AnsweredIsGood
  <2>5. wrote => Graphql(q) /\ q.body.op = "write"
    BY <2>2
  <2>6. Graphql(q) => (deployment.signs => a.verified) /\ q.path # "/admin/reset"
    BY <1>1, <2>1 DEF Good, AtACheck, Behind, Graphql, SignedPaths
  <2> HIDE DEF b, status
  <2>7. Good([b EXCEPT !.wrote = wrote], q)
    BY <2>3, <2>4, <2>5, <2>6
       DEF Good, Shape, AtACheck, WriteIsRight, CountIsRight, ExtraIsRight
  <2> QED
    BY <2>1, <2>2, <2>7, HandlerKeeps
<1> QED
  BY <1>5, <1>6, <1>7, <1>8, <1>9, <1>10, <1>11, <1>12, <1>13, <1>14, <1>15, <1>16, <1>17 DEF Step

-----------------------------------------------------------------------------
(* The edge and the processes. *)

\* A step that leaves the deployment and the attempts, or adds to
\* the attempts of one call an attempt that was just sent.
SendsOne(c, q) == attempts' = [attempts EXCEPT ![c] = Append(@, Sent(q))]

LEMMA AppendSent ==
    ASSUME Typed, UNCHANGED deployment, NEW c \in Calls, NEW q, SendsOne(c, q)
    PROVE  /\ attempts' \in [Calls -> Seq(Shape)]
           /\ Shape' = Shape
           /\ \A d \in Calls : d # c => attempts'[d] = attempts[d]
           /\ attempts'[c] # << >>
           /\ Len(attempts'[c]) = Len(attempts[c]) + 1
           /\ DOMAIN attempts'[c] = DOMAIN attempts[c] \cup {Len(attempts[c]) + 1}
           /\ \A i \in DOMAIN attempts[c] : attempts'[c][i] = attempts[c][i]
           /\ attempts'[c][Len(attempts[c]) + 1] = Sent(q)
<1>1. Sent(q) \in Shape /\ attempts \in [Calls -> Seq(Shape)]
  BY SentIsGood DEF Good, Typed
<1>2. Shape' = Shape
  BY SameShape
<1> QED
  BY <1>1, <1>2 DEF SendsOne

LEMMA AskKeeps ==
    ASSUME IInv, NEW c \in Calls, NEW q \in Requests[deployment][c], Ask(c, q)
    PROVE  IInv'
<1>1. /\ call[c] = NoCall /\ c \notin Called /\ attempts[c] = << >>
      /\ UNCHANGED <<now, deployment, stored>>
  BY DEF Ask, IInv, Typed, Called
<1>2. /\ {} \in Extras
      /\ KeyOf(q) \in DOMAIN stored => stored[KeyOf(q)] \in Extras
  BY DEF IInv, AllOwned, Extras
<1>3. PICK state \in {"waiting", "served"}, extra \in Extras :
         /\ call' = [call EXCEPT ![c] = [state |-> state, asked |-> q, began |-> now,
                                         silent |-> FALSE, extra |-> extra]]
         /\ \/ state = "waiting" /\ extra = {} /\ attempts' = [attempts EXCEPT ![c] = <<Sent(q)>>]
            \/ /\ state = "served" /\ KeyOf(q) \in DOMAIN stored /\ extra = stored[KeyOf(q)]
               /\ UNCHANGED attempts
  BY <1>2 DEF Ask
<1>4. /\ Called' = Called \cup {c}
      /\ call'[c] \in CallOf(c)' /\ call'[c].asked = q /\ call'[c].state = state
      /\ call'[c].extra = extra /\ call'[c].silent = FALSE
      /\ \A d \in Calls : d # c => call'[d] = call[d]
      /\ DOMAIN call' = Calls /\ call' = [d \in Calls |-> call'[d]]
  <2>1. DOMAIN call = Calls /\ now \in Nat
    BY DEF IInv, Typed
  <2>2. /\ DOMAIN call' = Calls
        /\ \A d \in Calls : d # c => call'[d] = call[d]
        /\ call'[c] = [state |-> state, asked |-> q, began |-> now,
                       silent |-> FALSE, extra |-> extra]
    BY <1>3, <2>1
  <2>3. call' = [d \in Calls |-> call'[d]]
    BY <1>3, <2>1, <2>2
  <2>4. call'[c].asked = q /\ call'[c].state = state
        /\ call'[c].extra = extra /\ call'[c].silent = FALSE
    BY <2>2
  <2>5. call'[c] \in CallOf(c)'
    BY <1>1, <1>3, <2>1, <2>2 DEF CallOf
  <2>6. Called' = Called \cup {c}
    <3>1. call'[c] # NoCall
      BY <2>2 DEF NoCall
    <3> QED
      BY <2>2, <3>1 DEF Called
  <2> QED
    BY <2>2, <2>3, <2>4, <2>5, <2>6
<1>5. \A d \in Called : Q(d)' = Q(d)
  BY <1>1, <1>4 DEF Q, Called
<1>6. Q(c)' = q
  BY <1>4 DEF Q
<1>7. /\ \A d \in Calls : d # c => attempts'[d] = attempts[d]
      /\ state = "waiting" => attempts'[c] = <<Sent(q)>>
      /\ state = "served" => attempts'[c] = << >>
      /\ attempts' \in [Calls -> Seq(Shape')]
  <2>1. Sent(q) \in Shape /\ Shape' = Shape /\ attempts \in [Calls -> Seq(Shape)]
    BY <1>1, SentIsGood, SameShape DEF Good, IInv, Typed
  <2>2. CASE state = "waiting"
    <3>1. attempts' = [attempts EXCEPT ![c] = <<Sent(q)>>] /\ <<Sent(q)>> \in Seq(Shape)
      BY <1>3, <2>1, <2>2
    <3> QED
      BY <2>1, <2>2, <3>1
  <2>3. CASE state = "served"
    BY <1>1, <1>3, <2>1, <2>3
  <2> QED
    BY <2>2, <2>3
<1>8. Typed'
  <2>1. \A d \in Calls : call'[d] = NoCall \/ call'[d] \in CallOf(d)'
    BY <1>1, <1>4 DEF IInv, Typed, CallOf
  <2>2. \A d \in Calls : call'[d] = NoCall => attempts'[d] = << >>
    BY <1>4, <1>7 DEF IInv, Typed, Called
  <2>3. \A d \in Called' : call'[d].state # "served" => attempts'[d] # << >>
    <3> SUFFICES ASSUME NEW d \in Called', call'[d].state # "served"
                 PROVE  attempts'[d] # << >>
      OBVIOUS
    <3>1. CASE d = c
      <4>1. attempts'[c] = <<Sent(q)>>
        BY <1>4, <1>7, <3>1
      <4>2. <<Sent(q)>> # << >>
        OBVIOUS
      <4> QED
        BY <3>1, <4>1, <4>2
    <3>2. CASE d # c
      BY <1>4, <1>7, <3>2 DEF IInv, Typed, Called
    <3> QED
      BY <3>1, <3>2
  <2> QED
    BY <1>1, <1>4, <1>7, <2>1, <2>2, <2>3 DEF IInv, Typed
<1>9. AllGood'
  <2> SUFFICES ASSUME NEW d \in Called', NEW j \in DOMAIN attempts'[d]
               PROVE  Good(attempts[d][j], Q(d))'
    BY DEF AllGood, Made
  <2>1. CASE d = c
    <3>1. attempts'[c][j] = Sent(q)
      BY <1>3, <1>7, <2>1
    <3>2. Good(Sent(q), q)
      BY SentIsGood
    <3> QED
      BY <1>1, <1>6, <2>1, <3>1, <3>2, SameGood
  <2>2. CASE d # c
    BY <1>1, <1>4, <1>5, <1>7, <2>2, SameGood DEF IInv, AllGood, Made, Called
  <2> QED
    BY <2>1, <2>2
<1>10. Retried'
  <2> SUFFICES ASSUME NEW d \in Called', NEW j \in DOMAIN attempts'[d], j < Len(attempts'[d])
               PROVE  /\ ~call'[d].silent => /\ attempts'[d][j].at = "answered"
                                             /\ attempts'[d][j].status \in Retryable
                      /\ Graphql(Q(d))'
                      /\ Q(d)'.body.op = "write" => deployment'.retryMutations
    BY DEF Retried, Made
  <2>1. CASE d = c
    <3>1. attempts'[c] = <<Sent(q)>> \/ attempts'[c] = << >>
      BY <1>3, <1>7
    <3>2. PICK n \in {0, 1} : Len(attempts'[c]) = n /\ DOMAIN attempts'[c] = 1..n
      <4>1. CASE attempts'[c] = <<Sent(q)>>
        BY <4>1
      <4>2. CASE attempts'[c] = << >>
        BY <4>2
      <4> QED
        BY <3>1, <4>1, <4>2
    <3>3. j \in 1..n /\ j < n
      BY <2>1, <3>2
    <3> QED
      BY <3>3
  <2>2. CASE d # c
    BY <1>1, <1>4, <1>5, <1>7, <2>2 DEF IInv, Retried, Made, Graphql, Called
  <2> QED
    BY <2>1, <2>2
<1>12. AllOwned'
  <2>1. \A d \in Called' : Owned(call[d].extra, KeyOf(Q(d)))'
    <3> SUFFICES ASSUME NEW d \in Called'
                 PROVE  Owned(call[d].extra, KeyOf(Q(d)))'
      OBVIOUS
    <3>1. CASE d = c
      BY <1>1, <1>3, <1>4, <1>5, <1>6, <3>1 DEF IInv, AllOwned, Owned
    <3>2. CASE d # c
      BY <1>1, <1>4, <1>5, <3>2 DEF IInv, AllOwned, Owned, Called
    <3> QED
      BY <3>1, <3>2
  <2>2. \A key \in DOMAIN stored : Owned(stored[key], key)'
    BY <1>1, <1>4, <1>5 DEF IInv, AllOwned, Owned
  <2> QED
    BY <1>1, <2>1, <2>2 DEF IInv, AllOwned, Extras
<1> QED
  BY <1>8, <1>9, <1>10, <1>12 DEF IInv

\* The edge changes what it keeps of one call, and may send that once more.
LEMMA EdgeKeeps ==
    ASSUME IInv, NEW c \in Called, NEW r \in CallOf(c),
           UNCHANGED <<now, deployment>>,
           r.asked = call[c].asked, call[c].silent => r.silent,
           call[c].state # "served", r.state # "served", Owned(r.extra, KeyOf(Q(c))),
           call' = [call EXCEPT ![c] = r],
           \A key \in DOMAIN stored' : stored'[key] \in Extras /\ Owned(stored'[key], key),
           \/ UNCHANGED attempts
           \/ /\ Resend(c) /\ Resendable(c)
              /\ ~r.silent => Latest(c).at = "answered" /\ Latest(c).status \in Retryable
    PROVE  IInv'
<1>1. /\ c \in Calls /\ call[c] # NoCall
      /\ attempts \in [Calls -> Seq(Shape)] /\ attempts[c] # << >>
  BY DEF IInv, Typed, Called
<1>2. /\ \A d \in Calls : d # c => call'[d] = call[d]
      /\ call'[c] = r /\ r # NoCall
      /\ DOMAIN call' = Calls /\ call' = [d \in Calls |-> call'[d]]
  <2>1. call = [d \in Calls |-> call[d]] /\ DOMAIN call = Calls
    BY DEF IInv, Typed
  <2>2. r # NoCall
    <3>1. r.state # "none" /\ NoCall.state = "none"
      BY DEF CallOf, NoCall
    <3> QED
      BY <3>1
  <2> QED
    BY <1>1, <2>1, <2>2
<1>3. /\ Called' = Called
      /\ \A d \in Calls : Q(d)' = Q(d)
  BY <1>1, <1>2 DEF Called, Q
<1>4. /\ attempts' \in [Calls -> Seq(Shape')]
      /\ \A d \in Calls : d # c => attempts'[d] = attempts[d]
      /\ attempts'[c] # << >>
      /\ \A i \in DOMAIN attempts'[c] :
            IF i \in DOMAIN attempts[c] THEN attempts'[c][i] = attempts[c][i]
                                       ELSE attempts'[c][i] = Sent(Q(c))
  <2>1. CASE UNCHANGED attempts
    BY <1>1, <2>1, SameShape
  <2>2. CASE Resend(c)
    <3>1. SendsOne(c, Q(c))
      BY <2>2 DEF Resend, SendsOne
    <3> QED
      BY <1>1, <3>1, AppendSent DEF IInv
  <2> QED
    BY <2>1, <2>2
<1>5. Typed'
  <2>1. \A d \in Calls : call'[d] = NoCall \/ call'[d] \in CallOf(d)'
    BY <1>2 DEF IInv, Typed, CallOf
  <2>2. \A d \in Calls : call'[d] = NoCall => attempts'[d] = << >>
    BY <1>2, <1>4 DEF IInv, Typed
  <2>3. \A d \in Called' : call'[d].state # "served" => attempts'[d] # << >>
    BY <1>2, <1>3, <1>4 DEF IInv, Typed, Called
  <2> QED
    BY <1>2, <1>4, <2>1, <2>2, <2>3 DEF IInv, Typed
<1>6. AllGood'
  <2> SUFFICES ASSUME NEW d \in Called, NEW j \in DOMAIN attempts'[d]
               PROVE  Good(attempts[d][j], Q(d))'
    BY <1>3 DEF AllGood, Made
  <2>1. Good(attempts'[d][j], Q(d))
    <3>1. CASE d = c /\ j \notin DOMAIN attempts[c]
      BY <1>4, <3>1, SentIsGood
    <3>2. CASE ~(d = c /\ j \notin DOMAIN attempts[c])
      BY <1>4, <3>2 DEF IInv, AllGood, Made, Called
    <3> QED
      BY <3>1, <3>2
  <2> QED
    BY <1>3, <2>1, SameGood DEF Called
<1>7. Retried'
  <2> SUFFICES ASSUME NEW d \in Called, NEW j \in DOMAIN attempts'[d], j < Len(attempts'[d])
               PROVE  /\ ~call'[d].silent => /\ attempts'[d][j].at = "answered"
                                             /\ attempts'[d][j].status \in Retryable
                      /\ Graphql(Q(d))
                      /\ Q(d).body.op = "write" => deployment.retryMutations
    BY <1>3 DEF Retried, Made, Called, Graphql
  <2>1. CASE d # c \/ UNCHANGED attempts
    BY <1>2, <1>4, <2>1 DEF IInv, Retried, Made, Called
  <2>2. CASE /\ d = c /\ Resend(c) /\ Resendable(c)
             /\ ~r.silent => Latest(c).at = "answered" /\ Latest(c).status \in Retryable
    <3>1. SendsOne(c, Q(c))
      BY <2>2 DEF Resend, SendsOne
    <3>2. /\ Len(attempts'[c]) = Len(attempts[c]) + 1
          /\ \A i \in DOMAIN attempts[c] : attempts'[c][i] = attempts[c][i]
          /\ DOMAIN attempts'[c] = DOMAIN attempts[c] \cup {Len(attempts[c]) + 1}
      BY <1>1, <3>1, AppendSent DEF IInv
    <3>3. Len(attempts[c]) \in Nat /\ DOMAIN attempts[c] = 1..Len(attempts[c])
      BY <1>1
    <3>4. j \in DOMAIN attempts[c] /\ attempts'[c][j] = attempts[c][j]
      BY <2>2, <3>2, <3>3
    <3>5. Graphql(Q(c)) /\ (Q(c).body.op = "write" => deployment.retryMutations)
      BY <2>2 DEF Resendable
    <3>6. ~r.silent => attempts[c][j].at = "answered" /\ attempts[c][j].status \in Retryable
      <4>1. CASE j < Len(attempts[c])
        BY <3>4, <4>1 DEF IInv, Retried, Made
      <4>2. CASE ~(j < Len(attempts[c]))
        <5>1. j = Len(attempts[c])
          BY <3>3, <3>4, <4>2
        <5> QED
          BY <2>2, <5>1 DEF Latest
      <4> QED
        BY <4>1, <4>2
    <3> QED
      BY <1>2, <2>2, <3>4, <3>5, <3>6
  <2> QED
    BY <2>1, <2>2
<1>9. AllOwned'
  <2>1. ASSUME NEW extra, NEW key, Owned(extra, key)
        PROVE  Owned(extra, key)'
    BY <1>3, <2>1 DEF Owned, Called
  <2>2. ASSUME NEW d \in Called
        PROVE  Owned(call[d].extra, KeyOf(Q(d)))'
    <3>1. CASE d = c
      BY <1>1, <1>2, <1>3, <3>1 DEF Owned, Called
    <3>2. CASE d # c
      BY <1>2, <1>3, <3>2 DEF IInv, AllOwned, Owned, Called
    <3> QED
      BY <3>1, <3>2
  <2>3. \A key \in DOMAIN stored' : Owned(stored[key], key)'
    BY <1>3 DEF Owned, Called
  <2> QED
    BY <1>3, <2>2, <2>3 DEF AllOwned, Extras
<1> QED
  BY <1>5, <1>6, <1>7, <1>9 DEF IInv

\* The latest attempt of a call the edge waits for, and whose levers it has.
LEMMA LatestIsGood ==
    ASSUME IInv, NEW c \in Waiting
    PROVE  /\ c \in Called /\ call[c] \in CallOf(c) /\ call[c].state # "served"
           /\ Latest(c).extra \in Extras
           /\ Owned(Latest(c).extra, KeyOf(Q(c)))
<1>1. c \in Called /\ call[c] \in CallOf(c) /\ call[c].state = "waiting"
  BY DEF Waiting, Called, IInv, Typed
<1>2. attempts[c] \in Seq(Shape) /\ attempts[c] # << >>
  BY <1>1 DEF IInv, Typed, Called
<1>3. Len(attempts[c]) \in DOMAIN attempts[c]
  BY <1>2
<1>4. Good(Latest(c), Q(c))
  BY <1>1, <1>3 DEF IInv, AllGood, Made, Latest
<1> QED
  BY <1>1, <1>4 DEF Good, Shape, ExtraIsRight, Owned

LEMMA HearKeeps ==
    ASSUME IInv, NEW c \in Calls, Hear(c)
    PROVE  IInv'
<1>1. /\ c \in Waiting /\ c \in Called
      /\ Latest(c).at = "answered"
      /\ UNCHANGED <<now, deployment>>
  BY DEF Hear, Waiting
<1>2. CASE Latest(c).status \in Retryable /\ Resendable(c) /\ Resend(c) /\ UNCHANGED <<call, stored>>
  <2>1. call' = [call EXCEPT ![c] = call[c]]
    BY <1>2 DEF IInv, Typed
  <2>2. \A key \in DOMAIN stored' : stored'[key] \in Extras /\ Owned(stored'[key], key)
    BY <1>2 DEF IInv, AllOwned
  <2>3. Owned(call[c].extra, KeyOf(Q(c)))
    BY <1>1 DEF IInv, AllOwned
  <2> QED
    BY <1>1, <1>2, <2>1, <2>2, <2>3, LatestIsGood, EdgeKeeps
<1>3. CASE /\ call' = [call EXCEPT ![c].state = "answered", ![c].extra = Latest(c).extra]
           /\ \/ UNCHANGED stored
              \/ stored' = [b \in DOMAIN stored \cup {KeyOf(Q(c))} |->
                               IF b = KeyOf(Q(c)) THEN Latest(c).extra ELSE stored[b]]
           /\ UNCHANGED attempts
  <2> DEFINE r == [call[c] EXCEPT !.state = "answered", !.extra = Latest(c).extra]
  <2>1. /\ r \in CallOf(c) /\ r.state = "answered" /\ r.extra = Latest(c).extra
        /\ r.asked = call[c].asked /\ r.silent = call[c].silent
    BY <1>1, LatestIsGood DEF CallOf
  <2>2. call' = [call EXCEPT ![c] = r]
    BY <1>3
  <2>3. \A key \in DOMAIN stored' : stored'[key] \in Extras /\ Owned(stored'[key], key)
    <3>1. CASE UNCHANGED stored
      BY <3>1 DEF IInv, AllOwned
    <3>2. CASE stored' = [b \in DOMAIN stored \cup {KeyOf(Q(c))} |->
                             IF b = KeyOf(Q(c)) THEN Latest(c).extra ELSE stored[b]]
      BY <1>1, <3>2, LatestIsGood DEF IInv, AllOwned
    <3> QED
      BY <1>3, <3>1, <3>2
  <2> HIDE DEF r
  <2> QED
    BY <1>1, <1>3, <2>1, <2>2, <2>3, LatestIsGood, EdgeKeeps
<1> QED
  BY <1>2, <1>3 DEF Hear

LEMMA TimeOutKeeps ==
    ASSUME IInv, NEW c \in Calls, TimeOut(c)
    PROVE  IInv'
<1>1. c \in Waiting /\ c \in Called /\ UNCHANGED <<now, deployment, stored>>
  BY DEF TimeOut, Waiting
<1>2. PICK state \in {call[c].state, "gaveUp"} :
         /\ call' = [call EXCEPT ![c] = [call[c] EXCEPT !.state = state, !.silent = TRUE]]
         /\ UNCHANGED attempts \/ (Resend(c) /\ Resendable(c))
  <2>1. CASE Resend(c) /\ Resendable(c) /\ call' = [call EXCEPT ![c].silent = TRUE]
    <3>1. [call[c] EXCEPT !.silent = TRUE] = [call[c] EXCEPT !.state = call[c].state, !.silent = TRUE]
      BY <1>1, LatestIsGood DEF CallOf
    <3> QED
      BY <2>1, <3>1
  <2>2. CASE UNCHANGED attempts /\ call' = [call EXCEPT ![c].state = "gaveUp", ![c].silent = TRUE]
    BY <2>2
  <2> QED
    BY <2>1, <2>2 DEF TimeOut
<1> DEFINE r == [call[c] EXCEPT !.state = state, !.silent = TRUE]
<1>3. /\ r \in CallOf(c) /\ r.state # "served" /\ r.silent
      /\ r.asked = call[c].asked /\ r.extra = call[c].extra
  BY <1>1, LatestIsGood DEF CallOf
<1>4. call' = [call EXCEPT ![c] = r]
  BY <1>2
<1>5. /\ Owned(call[c].extra, KeyOf(Q(c)))
      /\ \A key \in DOMAIN stored' : stored'[key] \in Extras /\ Owned(stored'[key], key)
  BY <1>1 DEF IInv, AllOwned
<1> HIDE DEF r
<1> QED
  BY <1>1, <1>2, <1>3, <1>4, <1>5, LatestIsGood, EdgeKeeps

\* The attempts under way die; what was answered stays answered.
LEMMA ProcessEndsKeeps ==
    ASSUME IInv, ProcessEnds
    PROVE  IInv'
<1>1. /\ UNCHANGED <<now, deployment, call, stored>>
      /\ Called' = Called
      /\ \A d \in Calls : Q(d)' = Q(d)
  BY DEF ProcessEnds, Called, Q
<1>3. ASSUME NEW d \in Calls, NEW i \in DOMAIN attempts[d]
      PROVE  /\ attempts'[d][i] \in Shape
             /\ attempts[d][i].at = "answered" => attempts'[d][i] = attempts[d][i]
             /\ Good(attempts[d][i], Q(d)) => Good(attempts'[d][i], Q(d))
  <2> DEFINE a == attempts[d][i]
  <2>1. a \in Shape
    BY <1>3, WaitingIsCalled DEF IInv
  <2>2. CASE a.at = "answered"
    BY <2>1, <2>2 DEF ProcessEnds
  <2>3. CASE a.at # "answered"
    <3> DEFINE b == [a EXCEPT !.at = "died"]
    <3>1. attempts'[d][i] = b
      BY <2>3 DEF ProcessEnds
    <3> HIDE DEF a
    <3>2. /\ b \in Shape /\ b.at = "died" /\ b.status = a.status /\ b.wrote = a.wrote
          /\ b.verified = a.verified /\ b.counted = a.counted /\ b.extra = a.extra
      BY <2>1 DEF Shape
    <3> HIDE DEF b
    <3>3. Good(a, Q(d)) => Good(b, Q(d))
      BY <2>3, <3>2
         DEF Good, AtACheck, WriteIsRight, CountIsRight, ExtraIsRight
    <3> QED
      BY <2>3, <3>1, <3>2, <3>3 DEF a
  <2> QED
    BY <2>2, <2>3
<1>4. /\ attempts' \in [Calls -> Seq(Shape')]
      /\ \A d \in Calls : DOMAIN attempts'[d] = DOMAIN attempts[d] /\ Len(attempts'[d]) = Len(attempts[d])
      /\ \A d \in Calls : (attempts'[d] = << >>) <=> (attempts[d] = << >>)
  <2>1. Shape' = Shape
    BY <1>1, SameShape
  <2>2. ASSUME NEW d \in Calls
        PROVE  /\ attempts'[d] \in Seq(Shape)
               /\ DOMAIN attempts'[d] = DOMAIN attempts[d]
               /\ Len(attempts'[d]) = Len(attempts[d])
               /\ (attempts'[d] = << >>) <=> (attempts[d] = << >>)
    <3>1. PICK n \in Nat : n = Len(attempts[d]) /\ DOMAIN attempts[d] = 1..n
      BY DEF IInv, Typed
    <3>2. attempts'[d] = [i \in 1..n |-> attempts'[d][i]]
      BY <3>1 DEF ProcessEnds
    <3>3. \A i \in 1..n : attempts'[d][i] \in Shape
      BY <1>3, <3>1
    <3> QED
      BY <3>1, <3>2, <3>3 DEF IInv, Typed
  <2>3. attempts' = [d \in Calls |-> attempts'[d]]
    BY DEF ProcessEnds
  <2> QED
    BY <2>1, <2>2, <2>3
<1>5. Typed'
  <2>1. \A d \in Calls : call'[d] = NoCall \/ call'[d] \in CallOf(d)'
    BY <1>1 DEF IInv, Typed, CallOf
  <2> QED
    BY <1>1, <1>4, <2>1 DEF IInv, Typed, Called
<1>6. AllGood'
  <2> SUFFICES ASSUME NEW d \in Called, NEW j \in DOMAIN attempts[d]
               PROVE  Good(attempts[d][j], Q(d))'
    BY <1>1, <1>4 DEF AllGood, Made, Called
  <2>1. Good(attempts'[d][j], Q(d))
    BY <1>3 DEF IInv, AllGood, Made, Called
  <2> QED
    BY <1>1, <2>1, SameGood DEF Called
<1>7. Retried'
  BY <1>1, <1>3, <1>4 DEF IInv, Retried, Made, Called
<1>9. AllOwned'
  BY <1>1 DEF IInv, AllOwned, Owned, Called
<1> QED
  BY <1>5, <1>6, <1>7, <1>9 DEF IInv

\* Time alone, or nothing, passes.
LEMMA TimeKeeps ==
    ASSUME IInv, UNCHANGED <<deployment, call, attempts, stored>>, now' \in Nat
    PROVE  IInv'
<1>1. /\ Called' = Called
      /\ \A d \in Calls : Q(d)' = Q(d) /\ CallOf(d)' = CallOf(d)
      /\ Shape' = Shape
  BY SameShape DEF Called, Q, CallOf
<1>2. Typed'
  BY <1>1 DEF IInv, Typed
<1>3. AllGood'
  BY <1>1, SameGood DEF IInv, AllGood, Made, Called
<1>4. Retried' /\ AllOwned'
  BY <1>1 DEF IInv, Retried, AllOwned, Owned, Made, Called
<1> QED
  BY <1>2, <1>3, <1>4 DEF IInv

LEMMA NextKeeps ==
    ASSUME IInv, [Next]_vars
    PROVE  IInv'
<1>1. CASE \E c \in Calls : \/ \E q \in Requests[deployment][c] : Ask(c, q)
                          \/ Hear(c)
                          \/ TimeOut(c)
  BY <1>1, AskKeeps, HearKeeps, TimeOutKeeps
<1>2. CASE \E c \in Calls : \E i \in DOMAIN attempts[c] : Step(c, i) \/ HeaderThrows(c, i)
  BY <1>2, StepKeeps, ProcessEndsKeeps DEF HeaderThrows
<1>3. CASE Restart
  BY <1>3, ProcessEndsKeeps DEF Restart
<1>4. CASE Tick
  <2>1. now' \in Nat
    BY <1>4 DEF Tick, IInv, Typed
  <2> QED
    BY <1>4, <2>1, TimeKeeps DEF Tick
<1>5. CASE UNCHANGED vars
  <2>1. now' \in Nat
    BY <1>5 DEF vars, IInv, Typed
  <2> QED
    BY <1>5, <2>1, TimeKeeps DEF vars
<1> QED
  BY <1>1, <1>2, <1>3, <1>4, <1>5 DEF Next

\* The invariant from which the others follow: every attempt is where the
\* order of the checks allows, with what the checks before it left.
THEOREM Inductive == Spec => []IInv
BY InitHolds, NextKeeps, PTL DEF Spec

\* WrittenOnce: a mutation that was refused, and sent again, was not run
\* before; gpilot.toml's retry_mutations stays safe for what is refused.
THEOREM WritesOnce == Spec => []WrittenOnce
<1>1. ASSUME IInv PROVE WrittenOnce
  <2> SUFFICES ASSUME NEW c \in Called, deployment.retryMutations => ~call[c].silent,
                      NEW i \in Made(c), NEW j \in Made(c),
                      attempts[c][i].wrote, attempts[c][j].wrote
               PROVE  i = j
    BY DEF WrittenOnce
  <2>1. ASSUME NEW k \in Made(c), attempts[c][k].wrote
        PROVE  ~(k < Len(attempts[c]))
    <3>1. WriteIsRight(attempts[c][k], Q(c))
      BY <1>1 DEF IInv, AllGood, Good
    <3>2. SUFFICES ASSUME k < Len(attempts[c])
                   PROVE  FALSE
      OBVIOUS
    <3>3. /\ ~call[c].silent => attempts[c][k].status \in Retryable
          /\ Graphql(Q(c))
          /\ Q(c).body.op = "write" => deployment.retryMutations
      BY <1>1, <3>2 DEF IInv, Retried
    <3> QED
      BY <2>1, <3>1, <3>3 DEF WriteIsRight
  <2>2. attempts[c] \in Seq(Shape)
    BY <1>1 DEF IInv, Typed, Called
  <2>3. PICK n \in Nat : n = Len(attempts[c]) /\ Made(c) = 1..n
    BY <2>2 DEF Made
  <2>4. ~(i < n) /\ ~(j < n)
    BY <2>1, <2>3
  <2> QED
    BY <2>3, <2>4
<1> QED
  BY <1>1, Inductive, PTL

\* ChangesAreAdmitted: nothing is written, and on the Worker no failure is
\* counted, for a request that the guard has not let through.
THEOREM ChangesAdmitted == Spec => []ChangesAreAdmitted
<1>1. ASSUME IInv PROVE ChangesAreAdmitted
  BY <1>1 DEF IInv, AllGood, Good, WriteIsRight, CountIsRight, ChangesAreAdmitted
<1> QED
  BY <1>1, Inductive, PTL

\* LeversFollowTheKey: the levers an answer carries, whoever is handed it, are
\* those of somebody who asked for the same entry of the edge's cache, and named
\* their nonce somewhere in the body.
THEOREM LeversFollow == Spec => []LeversFollowTheKey
<1>1. ASSUME IInv PROVE LeversFollowTheKey
  BY <1>1 DEF IInv, AllOwned, Owned, LeversFollowTheKey, Misbehaves, InScope, ScopeOf
<1> QED
  BY <1>1, Inductive, PTL

\* LeversStayScoped, with the hypothesis it needs: where every request that is
\* answered with levers names their nonce in the document or its variables, as
\* docs/19-a-misbehaving-origin.md writes one, a lever reaches nobody who did
\* not name its nonce.  NonceBeside.cfg shows it fail without.
THEOREM ScopedWhereKeyed ==
    ASSUME \A d \in Deployments, c \in Calls : \A q \in Requests[d][c] :
               Misbehaves(q) => ScopeOf(q) \subseteq q.body.holds
    PROVE  Spec => []LeversStayScoped
<1>1. ASSUME IInv PROVE LeversStayScoped
  <2> SUFFICES ASSUME NEW c \in Called, call[c].extra # {}
               PROVE  \E d \in Called : /\ AsksBehaviour(Q(d))
                                        /\ ScopeOf(Q(d)) \subseteq Text(Q(c))
                                        /\ call[c].extra = ExtraNames(Q(d))
    BY DEF LeversStayScoped
  <2>1. PICK d \in Called : /\ Misbehaves(Q(d))
                            /\ KeyOf(Q(d)) = KeyOf(Q(c))
                            /\ call[c].extra = ExtraNames(Q(d))
    BY <1>1 DEF IInv, AllOwned, Owned
  <2>2. ScopeOf(Q(d)) \subseteq Q(d).body.holds
    BY <1>1, <2>1 DEF IInv, Typed, CallOf, Called, Q
  <2>3. Q(d).body.holds = Q(c).body.holds
    BY <2>1 DEF KeyOf
  <2> QED
    BY <2>1, <2>2, <2>3 DEF Misbehaves, Text
<1> QED
  BY <1>1, Inductive, PTL

-----------------------------------------------------------------------------
(* The counters, for the type invariant. *)

FaultRow == [refused: Times, firstSeen: Nat]

RowsTyped == \A nonce \in DOMAIN faults : faults[nonce] \in FaultRow

LEMMA TimesAsked ==
    ASSUME NEW q, AsksFault(q)
    PROVE  FaultTimes(q) \in Times
<1>1. CASE q.fault.times = Absent
  BY <1>1, OriginAssumption DEF OriginAssumption, FaultTimes
<1>2. CASE q.fault.times # Absent
  BY <1>2, OriginAssumption DEF OriginAssumption, FaultTimes, AsksFault, Clamped
<1> QED
  BY <1>1, <1>2

LEMMA ConsumeTyped ==
    ASSUME RowsTyped, now \in Nat, NEW nonce, NEW times \in Times, ConsumeFault(nonce, times)
    PROVE  RowsTyped'
<1>1. /\ DOMAIN Pruned \subseteq DOMAIN faults
      /\ \A n \in DOMAIN Pruned : Pruned[n] = faults[n]
  BY DEF Pruned, Restrict
<1> HIDE DEF Pruned
<1>2. CASE faults' = Pruned
  BY <1>1, <1>2 DEF RowsTyped
<1>3. CASE /\ Refuses(nonce, times)
           /\ faults' = [n \in DOMAIN Pruned \cup {nonce} |->
                            IF n = nonce THEN Counted(nonce) ELSE Pruned[n]]
  <2>1. Counted(nonce) \in FaultRow
    <3>1. CASE nonce \in DOMAIN Pruned
      <4>1. Pruned[nonce] \in FaultRow /\ Pruned[nonce].refused < times
        BY <1>1, <1>3, <3>1 DEF Refuses, RowsTyped
      <4>2. PICK more : more = Pruned[nonce].refused + 1
        OBVIOUS
      <4>3. more \in Times
        BY <4>1, <4>2, OriginAssumption DEF OriginAssumption, FaultRow
      <4>4. Counted(nonce) = [Pruned[nonce] EXCEPT !.refused = more]
        BY <3>1, <4>2 DEF Counted
      <4> QED
        BY <4>1, <4>3, <4>4 DEF FaultRow
    <3>2. CASE nonce \notin DOMAIN Pruned
      BY <3>2, OriginAssumption DEF OriginAssumption, Counted, FaultRow
    <3> QED
      BY <3>1, <3>2
  <2> QED
    BY <1>1, <1>3, <2>1 DEF RowsTyped
<1> QED
  BY <1>2, <1>3 DEF ConsumeFault

LEMMA RowsKept ==
    ASSUME IInv, RowsTyped, [Next]_vars
    PROVE  RowsTyped'
<1>1. CASE UNCHANGED faults \/ faults' = NoFaults
  BY <1>1 DEF RowsTyped, NoFaults
<1>2. ASSUME NEW c \in Calls, NEW i \in DOMAIN attempts[c], Fault(c, i)
      PROVE  RowsTyped'
  <2>1. Good(attempts[c][i], Q(c)) /\ attempts[c][i].at = "fault"
    BY <1>2, WaitingIsCalled DEF IInv, AllGood, Made, Fault, At
  <2>2. FaultTimes(Q(c)) \in Times
    BY <2>1, TimesAsked DEF Good, AtACheck, Reached, Concerns
  <2>3. now \in Nat
    BY DEF IInv, Typed
  <2>4. CASE ConsumeFault(Q(c).fault.nonce.nonce, FaultTimes(Q(c)))
    BY <2>2, <2>3, <2>4, ConsumeTyped
  <2>5. CASE faults' = Pruned
    BY <2>5 DEF RowsTyped, Pruned, Restrict
  <2> QED
    BY <1>1, <1>2, <2>4, <2>5 DEF Fault
<1>3. ASSUME NEW c \in Calls, NEW i \in DOMAIN attempts[c], Step(c, i), ~Fault(c, i)
      PROVE  UNCHANGED faults
  BY <1>3 DEF Step, Configured, Guard, Health, AdminReset, LoadKeys, Jwks, Token, NotFound,
              Delay, SetHeaders, Claims, Yoga
<1>4. CASE ProcessEnds
  BY <1>1, <1>4 DEF ProcessEnds
<1>5. CASE \E c \in Calls : \/ \E q \in Requests[deployment][c] : Ask(c, q)
                          \/ Hear(c)
                          \/ TimeOut(c)
  BY <1>1, <1>5 DEF Ask, Hear, TimeOut
<1>6. CASE Tick \/ UNCHANGED vars
  BY <1>1, <1>6 DEF Tick, vars
<1> QED
  BY <1>1, <1>2, <1>3, <1>4, <1>5, <1>6 DEF Next, Restart, HeaderThrows

\* The calls, their attempts and the counters stay well formed.
THEOREM TypeCorrect == Spec => []TypeOK
<1>1. Init => RowsTyped
  BY DEF Init, RowsTyped, NoFaults
<1>2. IInv /\ RowsTyped => TypeOK
  <2> SUFFICES ASSUME IInv, RowsTyped
               PROVE  TypeOK
    OBVIOUS
  <2>1. Run \subseteq Checks
    BY DEF Run, Order, Checks
  <2>2. \A c \in Calls : attempts[c] \in Seq(AttemptRecord)
    <3>1. Shape \subseteq AttemptRecord
      BY <2>1 DEF Shape, AttemptRecord, Extras
    <3>2. attempts \in [Calls -> Seq(Shape)]
      BY DEF IInv, Typed
    <3> QED
      BY <3>1, <3>2
  <2>3. \A nonce \in DOMAIN faults : faults[nonce].refused \in Times
    BY DEF RowsTyped, FaultRow
  <2>4. \A c \in Called : /\ call[c].state \in {"waiting", "answered", "gaveUp", "served"}
                          /\ Q(c) \in Requests[deployment][c]
    BY DEF IInv, Typed, CallOf, Called, Q
  <2> QED
    BY <2>2, <2>3, <2>4 DEF TypeOK, IInv, Typed
<1> QED
  BY <1>1, <1>2, RowsKept, Inductive, PTL DEF Spec
-----------------------------------------------------------------------------
(* The guard and the clock. *)

\* A signature that may pass the guard was made by the edge, within the window.
LEMMA OnlyTheEdgeSigns ==
    ASSUME NEW q, PairOfHeaders(q.current), PairOfHeaders(q.legacy),
           NEW last \in Nat, NEW age \in 0..last, Verifies(q, age)
    PROVE  \E time \in -Skew..last + Skew : EdgePair(q, time) \in {q.current, q.legacy}
<1> DEFINE p == PairRead(q)
<1>1. p \in {q.current, q.legacy} /\ PairOfHeaders(p)
  BY DEF PairRead
<1>2. /\ Complete(p) /\ p.signature.version = "v1"
      /\ p.timestamp.kind = "digits" /\ Within(age - p.timestamp.n)
      /\ p.signature.bytes = Seal(q, p.timestamp.n)
  BY DEF Verifies
<1> HIDE DEF p
<1>3. PICK time \in Int : p.timestamp.n = time /\ p.timestamp = Digits(time)
  BY <1>1, <1>2 DEF PairOfHeaders
<1>4. p = EdgePair(q, time)
  BY <1>1, <1>2, <1>3 DEF PairOfHeaders, Complete, EdgePair
<1>5. time \in -Skew..last + Skew
  BY <1>2, <1>3, OriginAssumption DEF Within, OriginAssumption
<1> QED
  BY <1>1, <1>4, <1>5

\* What the edge has signed verifies for as long as the edge may send it.
LEMMA TheEdgeVerifies ==
    ASSUME NEW q, SignedByTheEdge(q), NEW age \in 0..Budget
    PROVE  Verifies(q, age)
<1>1. PICK time \in -ClockError..ClockError :
         {q.current, q.legacy} \in {{EdgePair(q, time)}, {EdgePair(q, time), NoPair}}
  BY DEF SignedByTheEdge
<1> DEFINE p == EdgePair(q, time)
<1>2. /\ Complete(p) /\ p.signature.version = "v1" /\ p.signature.bytes # Junk
      /\ p.timestamp.kind = "digits" /\ p.timestamp.n = time
      /\ p.signature.bytes = Seal(q, time)
  <2>1. /\ p.signature = [version |-> "v1", bytes |-> Seal(q, time)]
        /\ p.timestamp = [kind |-> "digits", n |-> time]
    BY DEF EdgePair, Digits
  <2>2. p.signature # Absent /\ p.timestamp # Absent
    BY <2>1 DEF Absent
  <2>3. Seal(q, time) # Junk
    BY DEF Seal, Junk
  <2> HIDE DEF p
  <2> QED
    BY <2>1, <2>2, <2>3 DEF Complete
<1>3. ~Complete(NoPair)
  BY DEF NoPair, Complete
<1> HIDE DEF p
<1>4. {q.current, q.legacy} = {p} \/ {q.current, q.legacy} = {p, NoPair}
  BY <1>1 DEF p
<1>5. PairRead(q) = p
  BY <1>2, <1>3, <1>4 DEF PairRead
<1>6. Within(age - time)
  BY <1>1, OriginAssumption DEF Within, OriginAssumption
<1> QED
  BY <1>2, <1>5, <1>6 DEF Verifies

\* Whether the guard has turned the attempt a down: later checks that answer
\* 401 see verified requests only, on the paths that are signed.
Unheard(a, q) ==
    deployment.signs /\ q.path \in SignedPaths /\ a.status = 401 /\ ~a.verified

\* What holds of one call: the edge waits no longer than its budget, what has
\* passed verified then, and what the edge hears was decided while it waited.
InTime(c) ==
    call[c].began <= now /\ (call[c].state = "waiting" => Age(c) <= Budget)

PassedInTime(c) ==
    \A i \in Made(c) : attempts[c][i].verified => \E age \in 0..Age(c) : Verifies(Q(c), age)

HeardInTime(c) ==
    \A i \in Made(c) :
        call[c].state = "waiting" \/ (call[c].state = "answered" /\ i = Len(attempts[c])) =>
            /\ call[c].state = "answered" => attempts[c][i].at = "answered"
            /\ Unheard(attempts[c][i], Q(c)) => \E age \in 0..Budget : ~Verifies(Q(c), age)

Guarded(c) == InTime(c) /\ PassedInTime(c) /\ HeardInTime(c)

AllGuarded == \A c \in Called : Guarded(c)

\* What a handler makes of an attempt, as far as the guard is concerned.
LEMMA StepDecides ==
    ASSUME IInv, NEW c \in Calls, NEW i \in DOMAIN attempts[c], Step(c, i)
    PROVE  \E b : /\ Waits(attempts[c][i]) /\ Become(c, i, b) /\ OriginOnly
                  /\ b.verified => attempts[c][i].verified \/ Verifies(Q(c), Age(c))
                  /\ Unheard(b, Q(c)) => ~Verifies(Q(c), Age(c))
<1> DEFINE a == attempts[c][i]
           Outcome(b) == /\ Waits(a) /\ Become(c, i, b) /\ OriginOnly
                         /\ b.verified => a.verified \/ Verifies(Q(c), Age(c))
                         /\ Unheard(b, Q(c)) => ~Verifies(Q(c), Age(c))
<1> SUFFICES \E b : Outcome(b)
  OBVIOUS
<1> HIDE DEF Outcome
<1>1. a \in Shape /\ (Waits(a) => AtACheck(a, Q(c)))
  BY WaitingIsCalled DEF IInv, AllGood, Made, Good
<1> HIDE DEF a
<1>2. ASSUME NEW status
      PROVE  /\ Answered(c, a, status).status = status
             /\ Answered(c, a, status).verified = a.verified
  <2>1. \E extra : Answered(c, a, status) = [a EXCEPT !.at = "answered", !.status = status, !.extra = extra]
    BY DEF Answered
  <2> QED
    BY <1>1, <2>1 DEF Shape
<1>3. Passed(c, a).verified = a.verified /\ Passed(c, a).status = a.status
  BY <1>1 DEF Passed, Shape
<1>4. ASSUME NEW b, Waits(a), OriginOnly, Become(c, i, b),
             b.verified => a.verified \/ Verifies(Q(c), Age(c)),
             b.status # 401 \/ b.verified \/ ~Verifies(Q(c), Age(c))
                            \/ ~(deployment.signs /\ Q(c).path \in SignedPaths)
      PROVE  \E x : Outcome(x)
  BY <1>4 DEF Outcome, Unheard
<1>5. ASSUME NEW status, status # 401, Waits(a), Answer(c, i, status), OriginOnly
      PROVE  \E b : Outcome(b)
  BY <1>2, <1>5, <1>4 DEF Answer, a
<1>6. ASSUME Waits(a), Pass(c, i), OriginOnly
      PROVE  \E b : Outcome(b)
  <2>1. Passed(c, a).status = 0
    BY <1>1, <1>3, <1>6 DEF AtACheck, Waits
  <2> QED
    BY <1>3, <1>6, <1>4, <2>1 DEF Pass, a
<1>7. CASE Guard(c, i)
  <2>1. Waits(a) /\ OriginOnly
    BY <1>7 DEF Guard, At, Waits, a
  <2>2. CASE Verifies(Q(c), Age(c)) /\ Become(c, i, [Passed(c, a) EXCEPT !.verified = TRUE])
    <3> DEFINE b == [Passed(c, a) EXCEPT !.verified = TRUE]
    <3>1. b.verified
      BY <1>1 DEF Passed, Shape
    <3> HIDE DEF b
    <3> QED
      BY <1>4, <2>1, <2>2, <3>1 DEF b
  <2>3. CASE ~Verifies(Q(c), Age(c)) /\ Answer(c, i, 401)
    BY <1>2, <1>4, <2>1, <2>3 DEF Answer, a
  <2> QED
    BY <1>7, <2>2, <2>3 DEF Guard, a
<1>8. CASE Claims(c, i)
  <2>1. Waits(a) /\ a.at = "claims" /\ OriginOnly
    BY <1>8 DEF Claims, At, Waits, a
  <2>2. CASE Answer(c, i, 401)
    <3>1. deployment.signs /\ Q(c).path \in SignedPaths => a.verified
      BY <1>1, <2>1 DEF AtACheck, Behind
    <3> QED
      BY <1>2, <1>4, <2>1, <2>2, <3>1 DEF Answer, a
  <2> QED
    BY <1>6, <1>8, <2>1, <2>2 DEF Claims
<1>9. CASE AdminReset(c, i)
  <2>1. Waits(a) /\ OriginOnly
    BY <1>9 DEF AdminReset, At, Waits, a
  <2>2. ASSUME NEW status \in {200, 500}, NEW wrote \in BOOLEAN,
               Become(c, i, [Answered(c, a, status) EXCEPT !.wrote = wrote])
        PROVE  \E b : Outcome(b)
    <3> DEFINE b == [Answered(c, a, status) EXCEPT !.wrote = wrote]
    <3>1. b.status = status /\ b.verified = a.verified
      BY <1>2
    <3>2. Become(c, i, b)
      BY <2>2
    <3> HIDE DEF b
    <3> QED
      BY <1>4, <2>1, <3>1, <3>2
  <2>3. CASE Answer(c, i, 405) \/ Answer(c, i, 403)
    BY <1>5, <2>1, <2>3
  <2>4. CASE \E status \in {200, 500}, wrote \in BOOLEAN :
                Become(c, i, [Answered(c, a, status) EXCEPT !.wrote = wrote])
    BY <2>2, <2>4
  <2> QED
    BY <1>9, <2>3, <2>4 DEF AdminReset, a
<1>10. CASE Fault(c, i)
  <2>1. Waits(a) /\ OriginOnly /\ a.at = "fault"
    BY <1>10 DEF Fault, At, Waits, a
  <2>2. CASE Become(c, i, Refused(c, a))
    <3>1. FaultStatus(Q(c)) # 401
      <4>1. AsksFault(Q(c))
        BY <1>1, <2>1 DEF AtACheck, Reached, Concerns
      <4> QED
        BY <4>1, StatusTyped DEF Retryable
    <3>2. Refused(c, a).status = FaultStatus(Q(c)) /\ Refused(c, a).verified = a.verified
      BY <1>2 DEF Refused
    <3> QED
      BY <1>4, <2>1, <2>2, <3>1, <3>2
  <2>3. CASE Become(c, i, [a EXCEPT !.at = "answered", !.status = 500])
    <3> DEFINE b == [a EXCEPT !.at = "answered", !.status = 500]
    <3>1. b.status = 500 /\ b.verified = a.verified
      BY <1>1 DEF Shape
    <3>2. Become(c, i, b)
      BY <2>3
    <3> HIDE DEF b
    <3> QED
      BY <1>4, <2>1, <3>1, <3>2
  <2> QED
    BY <1>6, <1>10, <2>1, <2>2, <2>3 DEF Fault, a
<1>11. CASE Yoga(c, i)
  <2>1. Waits(a) /\ OriginOnly
    BY <1>11 DEF Yoga, At, Waits, a
  <2>2. PICK status \in {404, 200, 400}, wrote \in BOOLEAN :
           Become(c, i, [Answered(c, a, status) EXCEPT !.wrote = wrote])
    BY <1>11 DEF Yoga, a
  <2> DEFINE b == [Answered(c, a, status) EXCEPT !.wrote = wrote]
  <2>3. b.status = status /\ b.verified = a.verified
    BY <1>2
  <2>4. Become(c, i, b)
    BY <2>2
  <2> HIDE DEF b
  <2> QED
    BY <1>4, <2>1, <2>3, <2>4
<1>12. CASE Configured(c, i) \/ Health(c, i) \/ LoadKeys(c, i) \/ Jwks(c, i) \/ Token(c, i)
            \/ NotFound(c, i) \/ Delay(c, i) \/ SetHeaders(c, i)
  BY <1>5, <1>6, <1>12
     DEF Configured, Health, LoadKeys, Jwks, Token, NotFound, Delay, SetHeaders, At, Waits, a
<1> QED
  BY <1>7, <1>8, <1>9, <1>10, <1>11, <1>12 DEF Step

\* A handler's step: the request is waited for, or its answer is not heard.
LEMMA StepGuards ==
    ASSUME IInv, AllGuarded, NEW c \in Calls, NEW i \in DOMAIN attempts[c], Step(c, i)
    PROVE  AllGuarded'
<1>1. PICK b : /\ Waits(attempts[c][i]) /\ Become(c, i, b) /\ OriginOnly
               /\ b.verified => attempts[c][i].verified \/ Verifies(Q(c), Age(c))
               /\ Unheard(b, Q(c)) => ~Verifies(Q(c), Age(c))
  BY StepDecides
<1>2. c \in Called /\ Called' = Called /\ UNCHANGED <<now, deployment, call>>
  BY <1>1, WaitingIsCalled DEF IInv, OriginOnly, Called
<1>3. /\ \A d \in Calls : DOMAIN attempts'[d] = DOMAIN attempts[d] /\ Len(attempts'[d]) = Len(attempts[d])
      /\ \A d \in Calls : \A j \in DOMAIN attempts[d] :
            attempts'[d][j] = IF d = c /\ j = i THEN b ELSE attempts[d][j]
  <2>1. /\ attempts' = [attempts EXCEPT ![c] = [attempts[c] EXCEPT ![i] = b]]
        /\ attempts \in [Calls -> Seq(Shape)]
    BY <1>1 DEF Become, IInv, Typed
  <2>2. ASSUME NEW d \in Calls
        PROVE  DOMAIN attempts'[d] = DOMAIN attempts[d] /\ Len(attempts'[d]) = Len(attempts[d])
    <3>1. PICK n \in Nat : Len(attempts[d]) = n /\ DOMAIN attempts[d] = 1..n
      BY <2>1
    <3>2. CASE d = c
      BY <2>1, <3>1, <3>2
    <3>3. CASE d # c
      BY <2>1, <3>3
    <3> QED
      BY <3>2, <3>3
  <2> QED
    BY <2>1, <2>2
<1>4. ASSUME NEW d \in Called
      PROVE  Guarded(d)'
  <2>1. InTime(d)'
    BY <1>2 DEF AllGuarded, Guarded, InTime, Age
  <2>2. Age(c) \in 0..Age(c)
    BY <1>2 DEF AllGuarded, Guarded, InTime, Age, IInv, Typed, CallOf, Called
  <2>3. PassedInTime(d)'
    <3> SUFFICES ASSUME NEW j \in DOMAIN attempts[d], attempts'[d][j].verified
                 PROVE  \E age \in 0..Age(d) : Verifies(Q(d), age)
      BY <1>2, <1>3 DEF PassedInTime, Made, Age, Q, Called
    <3>1. CASE attempts[d][j].verified
      BY <3>1 DEF AllGuarded, Guarded, PassedInTime, Made
    <3>2. CASE ~attempts[d][j].verified
      <4>1. d = c /\ j = i /\ attempts'[d][j] = b
        BY <1>3, <3>2 DEF Called
      <4> QED
        BY <1>1, <2>2, <3>2, <4>1
    <3> QED
      BY <3>1, <3>2
  <2>4. HeardInTime(d)'
    <3> SUFFICES ASSUME NEW j \in DOMAIN attempts[d],
                        call[d].state = "waiting"
                        \/ (call[d].state = "answered" /\ j = Len(attempts[d]))
                 PROVE  /\ call[d].state = "answered" => attempts'[d][j].at = "answered"
                        /\ Unheard(attempts'[d][j], Q(d)) => \E age \in 0..Budget : ~Verifies(Q(d), age)
      BY <1>2, <1>3 DEF HeardInTime, Made, Unheard, SignedPaths, Q, Called
    <3>1. /\ call[d].state = "answered" => attempts[d][j].at = "answered"
          /\ Unheard(attempts[d][j], Q(d)) => \E age \in 0..Budget : ~Verifies(Q(d), age)
      BY DEF AllGuarded, Guarded, HeardInTime, Made
    <3>2. CASE d = c /\ j = i
      <4>1. attempts'[d][j] = b
        BY <1>3, <3>2 DEF Called
      <4>2. call[d].state = "waiting"
        BY <1>1, <3>1, <3>2 DEF Waits
      <4>3. Age(c) \in 0..Budget
        BY <1>2, <2>2, <3>2, <4>2, OriginAssumption
           DEF AllGuarded, Guarded, InTime, OriginAssumption, Age, IInv, Typed, CallOf, Called
      <4> QED
        BY <1>1, <3>2, <4>1, <4>2, <4>3
    <3>3. CASE ~(d = c /\ j = i)
      <4>1. attempts'[d][j] = attempts[d][j]
        BY <1>3, <3>3 DEF Called
      <4> QED
        BY <3>1, <4>1
    <3> QED
      BY <3>2, <3>3
  <2> QED
    BY <2>1, <2>3, <2>4 DEF Guarded
<1> QED
  BY <1>2, <1>4 DEF AllGuarded

\* A call of which nothing changes, and whose clock does not either.
LEMMA OthersGuarded ==
    ASSUME NEW d, Guarded(d), UNCHANGED <<now, deployment>>,
           call'[d] = call[d], attempts'[d] = attempts[d]
    PROVE  Guarded(d)'
<1>1. Q(d)' = Q(d) /\ Age(d)' = Age(d) /\ Made(d)' = Made(d) /\ SignedPaths' = SignedPaths
  BY DEF Q, Age, Made, SignedPaths
<1>2. InTime(d)'
  BY <1>1 DEF Guarded, InTime
<1>3. PassedInTime(d)'
  BY <1>1 DEF Guarded, PassedInTime
<1>4. HeardInTime(d)'
  BY <1>1 DEF Guarded, HeardInTime, Unheard
<1> QED
  BY <1>2, <1>3, <1>4 DEF Guarded

\* What the edge does for a call it waits for.
LEMMA EdgeGuards ==
    ASSUME IInv, AllGuarded, NEW c \in Calls, \/ \E q \in Requests[deployment][c] : Ask(c, q)
                                              \/ Hear(c)
                                              \/ TimeOut(c)
    PROVE  AllGuarded'
<1>1. /\ UNCHANGED <<now, deployment>>
      /\ DOMAIN call = Calls /\ now \in Nat
      /\ attempts \in [Calls -> Seq(Shape)]
      /\ \A d \in Calls : d # c => call'[d] = call[d] /\ attempts'[d] = attempts[d]
  BY DEF Ask, Hear, TimeOut, Resend, IInv, Typed
<1>2. SUFFICES c \in Called' => Guarded(c)'
  BY <1>1, OthersGuarded DEF AllGuarded, Called
<1>3. ASSUME NEW q \in Requests[deployment][c], Ask(c, q)
      PROVE  Guarded(c)'
  <2>1. /\ call'[c].began = now /\ call'[c].state \in {"waiting", "served"}
        /\ attempts'[c] = <<Sent(q)>> \/ attempts'[c] = << >>
    BY <1>1, <1>3 DEF Ask, IInv, Typed, Called
  <2>2. \A j \in DOMAIN attempts'[c] : ~attempts'[c][j].verified /\ attempts'[c][j].status = 0
    <3>1. CASE attempts'[c] = <<Sent(q)>>
      BY <3>1 DEF Sent
    <3>2. CASE attempts'[c] = << >>
      BY <3>2
    <3> QED
      BY <2>1, <3>1, <3>2
  <2>3. InTime(c)'
    BY <1>1, <2>1, OriginAssumption DEF InTime, Age, OriginAssumption
  <2>4. PassedInTime(c)'
    BY <2>2 DEF PassedInTime, Made
  <2>5. HeardInTime(c)'
    BY <2>1, <2>2 DEF HeardInTime, Made, Unheard
  <2> QED
    BY <2>3, <2>4, <2>5 DEF Guarded
<1>4. ASSUME Hear(c) \/ TimeOut(c)
      PROVE  Guarded(c)'
  <2>1. c \in Waiting /\ c \in Called /\ Guarded(c)
    BY <1>4 DEF Hear, TimeOut, Waiting, AllGuarded
  <2>2. /\ call'[c].asked = call[c].asked /\ call'[c].began = call[c].began
        /\ call[c].state = "waiting"
        /\ \/ call'[c].state = "waiting"
           \/ call'[c].state = "gaveUp"
           \/ call'[c].state = "answered" /\ Latest(c).at = "answered" /\ UNCHANGED attempts
    BY <1>1, <1>4, <2>1, LatestIsGood DEF Hear, TimeOut, Waiting, CallOf
  <2>3. Q(c)' = Q(c) /\ Age(c)' = Age(c) /\ SignedPaths' = SignedPaths
    BY <1>1, <2>2 DEF Q, Age, SignedPaths
  <2>4. \A j \in DOMAIN attempts'[c] :
           \/ j \in DOMAIN attempts[c] /\ attempts'[c][j] = attempts[c][j]
           \/ attempts'[c][j] = Sent(Q(c))
    <3>1. CASE UNCHANGED attempts
      BY <3>1
    <3>2. CASE Resend(c)
      <4>1. SendsOne(c, Q(c))
        BY <3>2 DEF Resend, SendsOne
      <4>2. /\ DOMAIN attempts'[c] = DOMAIN attempts[c] \cup {Len(attempts[c]) + 1}
            /\ \A j \in DOMAIN attempts[c] : attempts'[c][j] = attempts[c][j]
            /\ attempts'[c][Len(attempts[c]) + 1] = Sent(Q(c))
        BY <1>1, <4>1, AppendSent DEF IInv
      <4> QED
        BY <4>2
    <3> QED
      BY <1>4, <3>1, <3>2 DEF Hear, TimeOut
  <2>5. ~Sent(Q(c)).verified /\ Sent(Q(c)).status = 0
    BY DEF Sent
  <2>6. InTime(c)'
    BY <1>1, <2>1, <2>2, <2>3 DEF Guarded, InTime
  <2>7. PassedInTime(c)'
    BY <2>1, <2>3, <2>4, <2>5 DEF Guarded, PassedInTime, Made
  <2>8. HeardInTime(c)'
    <3> SUFFICES ASSUME NEW j \in DOMAIN attempts'[c],
                        call'[c].state = "waiting"
                        \/ (call'[c].state = "answered" /\ j = Len(attempts'[c]))
                 PROVE  /\ call'[c].state = "answered" => attempts'[c][j].at = "answered"
                        /\ Unheard(attempts'[c][j], Q(c)) => \E age \in 0..Budget : ~Verifies(Q(c), age)
      BY <1>1, <2>3 DEF HeardInTime, Made, Unheard
    <3>1. call'[c].state = "answered" => attempts'[c][j].at = "answered"
      BY <2>2 DEF Latest
    <3>2. CASE attempts'[c][j] = Sent(Q(c))
      BY <2>5, <3>1, <3>2 DEF Unheard
    <3>3. CASE j \in DOMAIN attempts[c] /\ attempts'[c][j] = attempts[c][j]
      BY <2>1, <2>2, <3>1, <3>3 DEF Guarded, HeardInTime, Made
    <3> QED
      BY <2>4, <3>2, <3>3
  <2> QED
    BY <2>6, <2>7, <2>8 DEF Guarded
<1> QED
  BY <1>3, <1>4

LEMMA GuardsKept ==
    ASSUME IInv, AllGuarded, [Next]_vars
    PROVE  AllGuarded'
<1>1. ASSUME ProcessEnds
      PROVE  AllGuarded'
  <2>1. UNCHANGED <<now, deployment, call>> /\ Called' = Called
    BY <1>1 DEF ProcessEnds, Called
  <2>2. ASSUME NEW d \in Called
        PROVE  /\ DOMAIN attempts'[d] = DOMAIN attempts[d] /\ Len(attempts'[d]) = Len(attempts[d])
               /\ \A j \in DOMAIN attempts[d] :
                     /\ attempts'[d][j].status = attempts[d][j].status
                     /\ attempts'[d][j].verified = attempts[d][j].verified
                     /\ attempts[d][j].at = "answered" => attempts'[d][j].at = "answered"
    <3>1. attempts[d] \in Seq(Shape) /\ d \in Calls
      BY DEF IInv, Typed, Called
    <3>2. PICK n \in Nat : n = Len(attempts[d]) /\ DOMAIN attempts[d] = 1..n
      BY <3>1
    <3>3. attempts'[d] = [j \in 1..n |-> IF attempts[d][j].at = "answered" THEN attempts[d][j]
                                         ELSE [attempts[d][j] EXCEPT !.at = "died"]]
      BY <1>1, <3>1, <3>2 DEF ProcessEnds
    <3>4. \A j \in 1..n : attempts[d][j] \in Shape
      BY <3>1, <3>2
    <3>5. DOMAIN attempts'[d] = 1..n /\ Len(attempts'[d]) = n
      BY <3>2, <3>3
    <3>6. ASSUME NEW j \in 1..n
          PROVE  /\ attempts'[d][j].status = attempts[d][j].status
                 /\ attempts'[d][j].verified = attempts[d][j].verified
                 /\ attempts[d][j].at = "answered" => attempts'[d][j].at = "answered"
      BY <3>3, <3>4 DEF Shape
    <3> QED
      BY <3>2, <3>5, <3>6
  <2>3. ASSUME NEW d \in Called
        PROVE  Guarded(d)'
    <3>1. Q(d)' = Q(d) /\ Age(d)' = Age(d) /\ SignedPaths' = SignedPaths /\ Guarded(d)
      BY <2>1 DEF Q, Age, SignedPaths, AllGuarded
    <3>2. InTime(d)'
      BY <2>1, <3>1 DEF Guarded, InTime
    <3>3. PassedInTime(d)'
      BY <2>2, <3>1 DEF Guarded, PassedInTime, Made
    <3>4. HeardInTime(d)'
      BY <2>1, <2>2, <3>1 DEF Guarded, HeardInTime, Made, Unheard
    <3> QED
      BY <3>2, <3>3, <3>4 DEF Guarded
  <2> QED
    BY <2>1, <2>3 DEF AllGuarded
<1>2. CASE Tick
  <2>1. /\ UNCHANGED <<deployment, call, attempts>> /\ Called' = Called
        /\ now \in Nat /\ now' = now + 1
    BY <1>2 DEF Tick, Called, IInv, Typed
  <2>2. ASSUME NEW d \in Called
        PROVE  Guarded(d)'
    <3>1. /\ Q(d)' = Q(d) /\ Age(d)' = Age(d) + 1 /\ SignedPaths' = SignedPaths
          /\ Guarded(d) /\ call[d].began \in Nat /\ Age(d) \in Int
      BY <2>1 DEF Q, Age, SignedPaths, AllGuarded, IInv, Typed, CallOf, Called
    <3>2. InTime(d)'
      <4>1. call[d].state = "waiting" => Age(d) < Budget
        BY <1>2 DEF Tick, Waiting
      <4> QED
        BY <2>1, <3>1, <4>1, OriginAssumption DEF Guarded, InTime, OriginAssumption
    <3>3. PassedInTime(d)'
      <4>1. 0..Age(d) \subseteq 0..(Age(d) + 1)
        BY <3>1
      <4> QED
        BY <2>1, <3>1, <4>1 DEF Guarded, PassedInTime, Made
    <3>4. HeardInTime(d)'
      BY <2>1, <3>1 DEF Guarded, HeardInTime, Made, Unheard
    <3> QED
      BY <3>2, <3>3, <3>4 DEF Guarded
  <2> QED
    BY <2>1, <2>2 DEF AllGuarded
<1>3. CASE UNCHANGED vars
  BY <1>3, OthersGuarded DEF vars, AllGuarded, Called
<1> QED
  BY <1>1, <1>2, <1>3, StepGuards, EdgeGuards DEF Next, Restart, HeaderThrows

LEMMA GuardsHold == Spec => []AllGuarded
<1>1. Init => AllGuarded
  BY DEF Init, AllGuarded, Called
<1> QED
  BY <1>1, GuardsKept, Inductive, PTL DEF Spec

\* OnlyTheEdgesPass: what passes the guard carries a pair the edge made of
\* exactly that request, at a time within the window of when it is checked.
THEOREM EdgeAlonePasses == Spec => []OnlyTheEdgesPass
<1>1. ASSUME IInv, AllGuarded PROVE OnlyTheEdgesPass
  <2> SUFFICES ASSUME NEW c \in Called, NEW i \in Made(c), attempts[c][i].verified
               PROVE  \E time \in -Skew..Age(c) + Skew : EdgePair(Q(c), time) \in {Q(c).current, Q(c).legacy}
    BY DEF OnlyTheEdgesPass
  <2>1. PICK age \in 0..Age(c) : Verifies(Q(c), age)
    BY <1>1 DEF AllGuarded, Guarded, PassedInTime
  <2>2. Age(c) \in Nat
    BY <1>1 DEF AllGuarded, Guarded, InTime, Age, IInv, Typed, CallOf, Called
  <2>3. PairOfHeaders(Q(c).current) /\ PairOfHeaders(Q(c).legacy)
    BY <1>1, RequestsAssumption DEF RequestsAssumption, IInv, Typed, CallOf, Called, Q
  <2> QED
    BY <2>1, <2>2, <2>3, OnlyTheEdgeSigns
<1> QED
  BY <1>1, Inductive, GuardsHold, PTL

\* EdgeIsHeard: however often the edge sends what it has signed, within its
\* budget no guard turns it down.
THEOREM EdgeHeard == Spec => []EdgeIsHeard
<1>1. ASSUME IInv, AllGuarded PROVE EdgeIsHeard
  <2> SUFFICES ASSUME NEW c \in Called, call[c].state = "answered",
                      SignedByTheEdge(Q(c)), Q(c).path \in SignedPaths,
                      Latest(c).status = 401, ~Latest(c).verified, deployment.signs
               PROVE  FALSE
    BY DEF EdgeIsHeard
  <2>1. Len(attempts[c]) \in Made(c)
    BY <1>1 DEF IInv, Typed, Called, Made
  <2>2. \E age \in 0..Budget : ~Verifies(Q(c), age)
    BY <1>1, <2>1 DEF AllGuarded, Guarded, HeardInTime, Latest, Unheard
  <2> QED
    BY <2>2, TheEdgeVerifies
<1> QED
  BY <1>1, Inductive, GuardsHold, PTL
=============================================================================
