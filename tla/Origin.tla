------------------------------- MODULE Origin -------------------------------
(***************************************************************************)
(* A request's way through the two entry points, src/worker.ts and         *)
(* src/node.ts: the checks each runs, in its order, one step from an await *)
(* to the next.  Around them the edge, which signs, waits and retries      *)
(* (external, as gpilot.toml configures it), and processes that end.       *)
(***************************************************************************)
EXTENDS OriginHeaders, FaultCounter

CONSTANTS
    Calls,        \* requests of clients, each sent by the edge or past it
    Deployments,  \* how the origin and its edge may be configured
    Requests,     \* what each call may ask of each of them
    MaxRetries,   \* max_retries of gpilot.toml
    Budget,       \* the time a request may spend at the edge, in ticks
    ClockError,   \* how far the edge's clock may be from ours, in ticks
    MaxRestarts   \* bound: how many processes end

VARIABLES
    deployment,  \* the configuration, which no step changes
    call,        \* each call, as the edge sees it
    attempts,    \* the attempts of each call, in the order they were sent
    stored,      \* the edge's cache: by its key, the levers an answer came with
    restarts     \* how many processes have ended

vars == <<now, faults, deployment, call, attempts, stored, restarts>>

OriginAssumption ==
    /\ TimesMax \in Nat \ {0}
    /\ Times = 1..TimesMax
    /\ MaxRetries \in Nat
    /\ MaxRestarts \in Nat
    /\ {Budget, ClockError, Skew} \subseteq Nat
    /\ Budget + ClockError <= Skew

\* A pair of signature headers: what verify.ts reads of each, where it reads it.
PairOfHeaders(p) ==
    /\ p = [signature |-> p.signature, timestamp |-> p.timestamp]
    /\ p.signature # Absent =>
           p.signature = [version |-> p.signature.version, bytes |-> p.signature.bytes]
    /\ p.timestamp.kind = "digits" =>
           p.timestamp.n \in Int /\ p.timestamp = Digits(p.timestamp.n)

RequestsAssumption ==
    \A d \in Deployments, c \in Calls : \A q \in Requests[d][c] :
        PairOfHeaders(q.current) /\ PairOfHeaders(q.legacy)

ASSUME OriginAssumption
ASSUME RequestsAssumption

NoCall == [state |-> "none"]

Init ==
    /\ now = 0
    /\ faults = NoFaults
    /\ deployment \in Deployments
    /\ call = [c \in Calls |-> NoCall]
    /\ attempts = [c \in Calls |-> << >>]
    /\ stored = [key \in {} |-> {}]
    /\ restarts = 0

Called == {c \in Calls : call[c] # NoCall}
Q(c)   == call[c].asked
Age(c) == now - call[c].began
Graphql(q) == q.path = "/graphql"

-----------------------------------------------------------------------------
(* The checks, in order. *)

\* Mutant: a fault is counted before the guard.
WorkerCountsFirst ==
    <<"configured", "fault", "guard", "health", "reset", "keys", "jwks", "token", "elsewhere",
      "delay", "claims", "yoga">>

WorkerOrder ==
    <<"configured", "guard", "health", "reset", "keys", "jwks", "token", "elsewhere",
      "delay", "fault", "claims", "yoga">>

NodeOrder ==
    <<"guard", "health", "delay", "levers", "fault", "jwks", "token", "claims", "yoga">>

Order == IF deployment.entry = "worker" THEN WorkerOrder ELSE NodeOrder

SignedPaths ==
    IF deployment.entry = "worker" THEN {"/graphql", "/admin/reset"} ELSE {"/graphql"}

\* Whether a check has anything to do for q; the others it falls through.
Concerns(check, q) ==
    /\ check = "configured" => deployment.signs /\ ~deployment.keyed
    /\ check = "guard"      => deployment.signs /\ q.path \in SignedPaths
    /\ check = "health"     => q.path = "/health"
    /\ check = "reset"      => q.path = "/admin/reset"
    /\ check = "jwks"       => q.path = "/auth/jwks.json"
    /\ check = "token"      => q.path = "/auth/token"
    /\ check = "elsewhere"  => ~Graphql(q)
    /\ check = "delay"      => Graphql(q) /\ Misbehaves(q) /\ DelayOf(q) > 0
    /\ check = "levers"     => Graphql(q) /\ Misbehaves(q)
    /\ check = "fault"      => AsksFault(q)

\* The first check from position i on that concerns q; yoga, the last of
\* both orders, concerns whatever reaches it.
From(i, q) ==
    LET rest == {j \in DOMAIN Order : j >= i /\ Concerns(Order[j], q)} IN
    IF rest = {} THEN "unanswered" ELSE Order[CHOOSE j \in rest : \A k \in rest : j <= k]

After(check, q) ==
    From(1 + CHOOSE j \in DOMAIN Order : Order[j] = check, q)

Sent(q) == [at |-> From(1, q), status |-> 0, extra |-> {},
            verified |-> FALSE, counted |-> FALSE, wrote |-> FALSE]

At(c, i, check) == i \in DOMAIN attempts[c] /\ attempts[c][i].at = check

Become(c, i, attempt) == attempts' = [attempts EXCEPT ![c][i] = attempt]

\* The levers' headers are put on the answers of some checks, not on all.
Levered == IF deployment.entry = "worker" THEN {"fault", "yoga"} ELSE {"fault", "claims", "yoga"}

Answered(c, attempt, status) ==
    [attempt EXCEPT !.at = "answered", !.status = status,
        !.extra = IF Graphql(Q(c)) /\ attempt.at \in Levered THEN ExtraNames(Q(c)) ELSE @]

Passed(c, attempt) == [attempt EXCEPT !.at = After(attempt.at, Q(c))]

Answer(c, i, status) == Become(c, i, Answered(c, attempts[c][i], status))
Pass(c, i)           == Become(c, i, Passed(c, attempts[c][i]))

\* What no step of the origin changes: the clock, the edge and the processes.
OriginOnly == UNCHANGED <<now, deployment, call, stored, restarts>>

Configured(c, i) ==
    /\ At(c, i, "configured")
    /\ Answer(c, i, 500)
    /\ OriginOnly /\ UNCHANGED faults

\* Mutant: a refusal is logged, and never sent.
GuardUnsaid(c, i) ==
    /\ At(c, i, "guard")
    /\ Verifies(Q(c), Age(c))
    /\ Become(c, i, [Passed(c, attempts[c][i]) EXCEPT !.verified = TRUE])
    /\ OriginOnly /\ UNCHANGED faults

Guard(c, i) ==
    /\ At(c, i, "guard")
    /\ \/ /\ Verifies(Q(c), Age(c))
          /\ Become(c, i, [Passed(c, attempts[c][i]) EXCEPT !.verified = TRUE])
       \/ /\ ~Verifies(Q(c), Age(c))
          /\ Answer(c, i, 401)
    /\ OriginOnly /\ UNCHANGED faults

Health(c, i) ==
    /\ At(c, i, "health")
    /\ Answer(c, i, 200)
    /\ OriginOnly /\ UNCHANGED faults

\* Mutant: with the guard off, anybody may reset.
AdmittedUnguarded(q, attempt) == attempt.verified \/ ~deployment.signs

Admitted(q, attempt) == attempt.verified \/ (deployment.admin /\ q.admin)

\* handleReset, whose call of the store may fail, its write done or not; what
\* it throws is answered 500 by the platform.
AdminReset(c, i) ==
    /\ At(c, i, "reset")
    /\ \/ /\ Q(c).method # "POST"
          /\ Answer(c, i, 405)
       \/ /\ Q(c).method = "POST"
          /\ ~Admitted(Q(c), attempts[c][i])
          /\ Answer(c, i, 403)
       \/ /\ Q(c).method = "POST"
          /\ Admitted(Q(c), attempts[c][i])
          /\ \E status \in {200, 500}, wrote \in BOOLEAN :
                /\ status = 200 => wrote
                /\ Become(c, i, [Answered(c, attempts[c][i], status) EXCEPT !.wrote = wrote])
    /\ OriginOnly /\ UNCHANGED faults

\* keysFor may fail; that is answered, and the next request tries again.
LoadKeys(c, i) ==
    /\ At(c, i, "keys")
    /\ \/ Pass(c, i)
       \/ Answer(c, i, 500)
    /\ OriginOnly /\ UNCHANGED faults

Jwks(c, i) ==
    /\ At(c, i, "jwks")
    /\ Answer(c, i, 200)
    /\ OriginOnly /\ UNCHANGED faults

Token(c, i) ==
    /\ At(c, i, "token")
    /\ Answer(c, i, IF Q(c).method # "POST" THEN 405
                    ELSE IF Q(c).body.op # "identity" THEN 400 ELSE 200)
    /\ OriginOnly /\ UNCHANGED faults

NotFound(c, i) ==
    /\ At(c, i, "elsewhere")
    /\ Answer(c, i, 404)
    /\ OriginOnly /\ UNCHANGED faults

Delay(c, i) ==
    /\ At(c, i, "delay")
    /\ Pass(c, i)
    /\ OriginOnly /\ UNCHANGED faults

Legal(q) == \A h \in ExtraNames(q) : Printable(h, Extra(q)[h])

\* Node sets the headers before it goes on (setHeader), if they are legal.
SetHeaders(c, i) ==
    /\ At(c, i, "levers")
    /\ Legal(Q(c))
    /\ Pass(c, i)
    /\ OriginOnly /\ UNCHANGED faults

\* Mutant: the mutation has been run by the time the attempt is refused.
RefusedTooLate(c, attempt) ==
    [Answered(c, attempt, FaultStatus(Q(c))) EXCEPT !.counted = TRUE, !.wrote = Q(c).body.op = "write"]

Refused(c, attempt) == [Answered(c, attempt, FaultStatus(Q(c))) EXCEPT !.counted = TRUE]

\* consumeFault, which in the Worker is a call that may fail: done, not done,
\* or stopped after its DELETE.
Fault(c, i) ==
    LET times == FaultTimes(Q(c))
        nonce == Q(c).fault.nonce.nonce
    IN
    /\ At(c, i, "fault")
    /\ \/ /\ Refuses(nonce, times)
          /\ ConsumeFault(nonce, times)
          /\ Become(c, i, Refused(c, attempts[c][i]))
       \/ /\ ~Refuses(nonce, times)
          /\ ConsumeFault(nonce, times)
          /\ Pass(c, i)
       \/ /\ deployment.entry = "worker"
          /\ ConsumeFault(nonce, times) \/ faults' = Pruned \/ UNCHANGED faults
          /\ Become(c, i, [attempts[c][i] EXCEPT !.at = "answered", !.status = 500])
    /\ OriginOnly

\* claimsFromAuthorization: nobody and a key that names nobody pass, a token
\* passes if it verifies, and anything else presented is refused.  Whether this
\* process holds the pair of the token is what KeyPair is about.
Claims(c, i) ==
    /\ At(c, i, "claims")
    /\ \/ Q(c).authorization \in {"none", "apiKey", "token"} /\ Pass(c, i)
       \/ Q(c).authorization \in {"token", "other"} /\ Answer(c, i, 401)
    /\ OriginOnly /\ UNCHANGED faults

\* Yoga answers at its endpoint only; a mutation is run to its end, and one
\* the store refuses or fails to answer is a 200 all the same.
Yoga(c, i) ==
    LET q == Q(c)
        status == IF ~Graphql(q) THEN 404 ELSE IF q.body.op \in {"query", "write"} THEN 200 ELSE 400
    IN
    /\ At(c, i, "yoga")
    /\ \E wrote \in BOOLEAN :
          /\ wrote => status = 200 /\ q.body.op = "write"
          /\ Become(c, i, [Answered(c, attempts[c][i], status) EXCEPT !.wrote = wrote])
    /\ OriginOnly /\ UNCHANGED faults

Step(c, i) ==
    \/ Configured(c, i) \/ Guard(c, i) \/ Health(c, i) \/ AdminReset(c, i) \/ LoadKeys(c, i)
    \/ Jwks(c, i) \/ Token(c, i) \/ NotFound(c, i) \/ Delay(c, i) \/ SetHeaders(c, i)
    \/ Fault(c, i) \/ Claims(c, i) \/ Yoga(c, i)

-----------------------------------------------------------------------------
(* The edge, and what becomes of processes. *)

Latest(c) == attempts[c][Len(attempts[c])]

Waiting == {c \in Called : call[c].state = "waiting"}

\* Whether the edge may send the request once more.
Resendable(c) ==
    /\ Graphql(Q(c))
    /\ Len(attempts[c]) <= MaxRetries
    /\ Q(c).body.op = "write" => deployment.retryMutations

\* "The cache key is the document plus its variables": of the body no more than
\* what these hold.
KeyOf(q) == [op |-> q.body.op, holds |-> q.body.holds]

\* A client asks; an answer the edge has stored under the key of what it asks is
\* served without an attempt.
Ask(c, q) ==
    /\ call[c] = NoCall
    /\ \/ /\ call' = [call EXCEPT ![c] = [state |-> "waiting", asked |-> q, began |-> now,
                                          silent |-> FALSE, extra |-> {}]]
          /\ attempts' = [attempts EXCEPT ![c] = <<Sent(q)>>]
       \/ /\ Graphql(q) /\ KeyOf(q) \in DOMAIN stored
          /\ call' = [call EXCEPT ![c] = [state |-> "served", asked |-> q, began |-> now,
                                          silent |-> FALSE, extra |-> stored[KeyOf(q)]]]
          /\ UNCHANGED attempts
    /\ UNCHANGED <<now, faults, deployment, stored, restarts>>

Resend(c) == attempts' = [attempts EXCEPT ![c] = Append(@, Sent(Q(c)))]

\* The edge hears of its last attempt: it sends another for a gateway status
\* while it may, and may store an answer it passes on, unless a cookie comes
\* with it.
Hear(c) ==
    /\ c \in Waiting
    /\ Latest(c).at = "answered"
    /\ \/ /\ Latest(c).status \in Retryable /\ Resendable(c)
          /\ Resend(c)
          /\ UNCHANGED <<call, stored>>
       \/ /\ ~(Latest(c).status \in Retryable /\ Resendable(c))
          /\ call' = [call EXCEPT ![c].state = "answered", ![c].extra = Latest(c).extra]
          /\ \/ UNCHANGED stored
             \/ /\ Latest(c).status = 200 /\ Graphql(Q(c)) /\ Q(c).body.op = "query"
                /\ "set-cookie" \notin Latest(c).extra
                /\ stored' = [key \in DOMAIN stored \cup {KeyOf(Q(c))} |->
                                 IF key = KeyOf(Q(c)) THEN Latest(c).extra ELSE stored[key]]
          /\ UNCHANGED attempts
    /\ UNCHANGED <<now, faults, deployment, restarts>>

\* The edge hears nothing; the attempt may be under way all the same.
TimeOut(c) ==
    /\ c \in Waiting
    /\ Latest(c).at # "answered"
    /\ \/ /\ Resendable(c)
          /\ Resend(c)
          /\ call' = [call EXCEPT ![c].silent = TRUE]
       \/ /\ ~Resendable(c)
          /\ call' = [call EXCEPT ![c].state = "gaveUp", ![c].silent = TRUE]
          /\ UNCHANGED attempts
    /\ UNCHANGED <<now, faults, deployment, stored, restarts>>

\* A process ends with what it had not answered; on Node its memory ends too.
ProcessEnds ==
    /\ attempts' = [c \in Calls |-> [i \in DOMAIN attempts[c] |->
                       IF attempts[c][i].at = "answered" THEN attempts[c][i]
                       ELSE [attempts[c][i] EXCEPT !.at = "died"]]]
    /\ IF deployment.entry = "node" THEN faults' = NoFaults ELSE UNCHANGED faults
    /\ UNCHANGED <<now, deployment, call, stored>>

Restart ==
    /\ restarts < MaxRestarts
    /\ restarts' = restarts + 1
    /\ ProcessEnds

\* setHeader refuses what no header may hold; nobody catches it, and the
\* process ends.
HeaderThrows(c, i) ==
    /\ At(c, i, "levers")
    /\ ~Legal(Q(c))
    /\ ProcessEnds
    /\ UNCHANGED restarts

Tick ==
    /\ now < Horizon
    /\ \A c \in Waiting : Age(c) < Budget
    /\ now' = now + 1
    /\ UNCHANGED <<faults, deployment, call, attempts, stored, restarts>>

Next ==
    \/ \E c \in Calls : \/ \E q \in Requests[deployment][c] : Ask(c, q)
                        \/ Hear(c)
                        \/ TimeOut(c)
    \/ \E c \in Calls : \E i \in DOMAIN attempts[c] : Step(c, i) \/ HeaderThrows(c, i)
    \/ Restart
    \/ Tick

Spec == Init /\ [][Next]_vars

\* Handlers go on: what they await settles in the end.
FairSpec ==
    /\ Spec
    /\ WF_vars(\E c \in Calls : \E i \in DOMAIN attempts[c] : Step(c, i) \/ HeaderThrows(c, i))

-----------------------------------------------------------------------------
Checks == {WorkerOrder[i] : i \in DOMAIN WorkerOrder} \cup {NodeOrder[i] : i \in DOMAIN NodeOrder}

Statuses == {0, 200, 400, 401, 403, 404, 405, 500} \cup Retryable

AttemptRecord ==
    [at: Checks \cup {"answered", "died"}, status: Statuses, extra: SUBSET (LeverHeaders \cup {Echo}),
     verified: BOOLEAN, counted: BOOLEAN, wrote: BOOLEAN]

TypeOK ==
    /\ now \in Nat
    /\ deployment \in Deployments
    /\ \A c \in Called :
          /\ call[c].state \in {"waiting", "answered", "gaveUp", "served"}
          /\ Q(c) \in Requests[deployment][c]
    /\ \A c \in Calls : attempts[c] \in Seq(AttemptRecord)
    /\ \A nonce \in DOMAIN faults : faults[nonce].refused \in Times

Made(c) == DOMAIN attempts[c]

\* gpilot.toml:244-247: retrying a mutation "would be provably safe", for "a
\* refused attempt never ran the mutation, and sending it again would be the
\* first write rather than a second one".  With retry_mutations, whatever is
\* refused and sent again is written once; unless an attempt was given up in
\* silence, which is why the default sends a mutation once.
WrittenOnce ==
    \A c \in Called : (deployment.retryMutations => ~call[c].silent) =>
        \A i, j \in Made(c) : attempts[c][i].wrote /\ attempts[c][j].wrote => i = j

\* Where the guard is on, nothing is written for a request the edge has not
\* signed, and on the Worker no failure is counted for it either; with the
\* guard off, /admin/reset still wants the admin token.
ChangesAreAdmitted ==
    \A c \in Called : \A i \in Made(c) :
        LET a == attempts[c][i] IN
        /\ a.wrote /\ deployment.signs => a.verified
        /\ a.wrote /\ Q(c).path = "/admin/reset" => a.verified \/ (deployment.admin /\ Q(c).admin)
        /\ a.counted /\ deployment.signs /\ deployment.entry = "worker" => a.verified

NoPair == [signature |-> Absent, timestamp |-> Absent]

\* What the edge signs q with when its clock shows time.
EdgePair(q, time) ==
    [signature |-> [version |-> "v1", bytes |-> Seal(q, time)], timestamp |-> Digits(time)]

\* A request passes the guard only with a pair the edge made of exactly that
\* request, within the window on either side of the origin's clock.
OnlyTheEdgesPass ==
    \A c \in Called : \A i \in Made(c) :
        attempts[c][i].verified =>
            \E time \in -Skew..Age(c) + Skew : EdgePair(Q(c), time) \in {Q(c).current, Q(c).legacy}

\* The edge signs in one spelling or in both, its clock some way from ours.
SignedByTheEdge(q) ==
    \E time \in -ClockError..ClockError :
        {q.current, q.legacy} \in {{EdgePair(q, time)}, {EdgePair(q, time), NoPair}}

\* An attempt may be replayed byte for byte until the edge's budget is spent:
\* its signature does not grow too old meanwhile, and no call the edge has
\* signed hears that it is not.
EdgeIsHeard ==
    \A c \in Called :
        /\ call[c].state = "answered"
        /\ SignedByTheEdge(Q(c)) /\ Q(c).path \in SignedPaths
        /\ Latest(c).status = 401
        => Latest(c).verified \/ ~deployment.signs

ScopeOf(q) == {q.levers.scope.nonce, "faulty"}

\* misbehave.ts, the scoping rule, as far as it holds: whoever is handed an answer
\* that carries levers, by the origin or out of the edge's cache, has asked for the
\* very entry that somebody asked for who named the nonce of just these levers.
\* So where the nonce stands in the document or its variables, as the docs write
\* it, only who has the nonce in its own meets them.
LeversFollowTheKey ==
    \A c \in Called : call[c].extra # {} =>
        \E d \in Called :
            /\ AsksBehaviour(Q(d)) /\ ScopeOf(Q(d)) \subseteq Text(Q(d))
            /\ call[c].extra = ExtraNames(Q(d))
            /\ KeyOf(Q(c)) = KeyOf(Q(d))

\* misbehave.ts:43-45, the rule as it is claimed: "if the nonce appears anywhere
\* in the body, the body differs from every body that does not contain it, and two
\* different bodies cannot share a cache key", so that nobody meets a lever whose
\* nonce its own body does not name.
LeversStayScoped ==
    \A c \in Called : call[c].extra # {} =>
        \E d \in Called :
            /\ AsksBehaviour(Q(d))
            /\ ScopeOf(Q(d)) \subseteq Text(Q(c))
            /\ call[c].extra = ExtraNames(Q(d))

Ended(c, i) == attempts[c][i].at \in {"answered", "died"}

\* Every attempt is answered, or ends with its process: no check is one that
\* a request can neither pass nor be refused by.
EveryAttemptEnds == []<>(\A c \in Calls : \A i \in Made(c) : Ended(c, i))

\* misbehave.ts:135: "Printable ASCII only, which is what a header value may
\* legally carry": no answer is given a header that holds anything else.
HeadersArePrintable ==
    \A c \in Called : \A i \in Made(c) :
        \A h \in attempts[c][i].extra : Printable(h, Extra(Q(c))[h])

=============================================================================
