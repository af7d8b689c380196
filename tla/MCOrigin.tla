------------------------------ MODULE MCOrigin ------------------------------
(* Origin for TLC: deployments of both entry points, and one request for    *)
(* each thing a check looks at.                                             *)
EXTENDS Origin

CONSTANTS c1, c2, n1

NoLevers == [scope |-> Absent, set |-> [h \in LeverHeaders |-> Absent],
             delay |-> Absent, echo |-> Absent]
NoFault  == [nonce |-> Absent, times |-> Absent, status |-> Absent]

Unsigned(method, path, op) ==
    [method |-> method, path |-> path, body |-> [op |-> op, holds |-> {}, rest |-> {}],
     current |-> NoPair, legacy |-> NoPair, admin |-> FALSE, authorization |-> "none",
     fault |-> NoFault, levers |-> NoLevers, received |-> [n \in {"cookie", "accept"} |-> "long"]]

\* By an edge whose clock is behind.
Signed(q) == [q EXCEPT !.current = EdgePair(q, -1)]

Fault1(nonce, times, status) == [nonce |-> Nonce(nonce), times |-> times, status |-> status]

Query         == Unsigned("POST", "/graphql", "query")
Mutation      == Unsigned("POST", "/graphql", "write")
Faulty(nonces) == [Query EXCEPT !.body.holds = nonces \cup {"faulty"}]

Misbehaving(q, header, delay, echo) ==
    [q EXCEPT !.levers = [scope |-> Nonce(n1),
                          set |-> [h \in LeverHeaders |-> IF h = "cache-control" THEN header ELSE Absent],
                          delay |-> delay, echo |-> echo]]

Write     == Signed([Mutation EXCEPT !.fault = Fault1(n1, Trailed(1), Absent)])
OwnEntry  == Signed(Misbehaving(Faulty({n1}), Value, Absent, Absent))
SameEntry == Signed(Faulty({n1}))

\* The nonce beside the document and its variables, and the same of these two.
Beside    == Signed(Misbehaving([Query EXCEPT !.body.rest = {n1, "faulty"}], Value, Absent, Absent))
Plain     == Signed(Query)
KeySet    == [Unsigned("GET", "/auth/jwks.json", "none")
                 EXCEPT !.fault = Fault1(n1, Digits(2), Digits(504))]

\* One request for each thing a check looks at.
Each ==
    {Write, OwnEntry, SameEntry,
     \* at /graphql, as the edge sends it
     Signed([Query EXCEPT !.fault = Fault1(n1, Digits(1), Digits(502)), !.authorization = "token"]),
     Signed(Misbehaving(Query, Value, Absent, Absent)),
     Signed(Misbehaving(Faulty({n1}), Junk, Digits(1), Absent)),
     Signed(Misbehaving(Faulty({n1}), Absent, Digits(1), Names({"accept", "cookie", "x"}))),
     Signed([Mutation EXCEPT !.authorization = "other"]),
     [Mutation EXCEPT !.legacy = EdgePair(Mutation, 1), !.authorization = "apiKey"],
     \* with no pair of its own, with halves of two, with an old one, with another's,
     \* with a time that is no number
     [Mutation EXCEPT !.fault = Fault1(n1, Absent, Absent)],
     [Mutation EXCEPT !.current = [EdgePair(Mutation, 0) EXCEPT !.timestamp = Absent],
                      !.legacy = [EdgePair(Mutation, 0) EXCEPT !.signature = Absent]],
     [Mutation EXCEPT !.current = EdgePair(Mutation, -3)],
     [Mutation EXCEPT !.current = EdgePair(Query, 0)],
     [Mutation EXCEPT !.current = [EdgePair(Mutation, 0) EXCEPT !.timestamp = Trailed(0)]],
     \* elsewhere
     Signed(Unsigned("POST", "/admin/reset", "none")),
     Unsigned("POST", "/admin/reset", "none"),
     [Unsigned("POST", "/admin/reset", "none") EXCEPT !.admin = TRUE],
     Signed(Unsigned("GET", "/admin/reset", "none")),
     [Unsigned("POST", "/auth/token", "identity") EXCEPT !.fault = Fault1(n1, Digits(9), Absent)],
     KeySet,
     Unsigned("GET", "/health", "none"),
     Unsigned("GET", "/", "none"),
     Signed([Unsigned("GET", "/", "none") EXCEPT !.authorization = "other"])}

Deployed(entry, signs, keyed, admin, retryMutations) ==
    [entry |-> entry, signs |-> signs, keyed |-> keyed, admin |-> admin,
     retryMutations |-> retryMutations]

AskedOnce ==
    {Deployed("worker", TRUE,  TRUE,  TRUE, TRUE),
     Deployed("worker", FALSE, FALSE, TRUE, FALSE),
     Deployed("worker", TRUE,  FALSE, FALSE, FALSE),
     Deployed("node",   TRUE,  TRUE,  FALSE, FALSE),
     Deployed("node",   TRUE,  TRUE,  TRUE,  TRUE)}

\* Two calls that meet at the counter, on either entry point; and two that
\* meet in the cache.
TwoWrites     == Deployed("worker", TRUE,  TRUE,  FALSE, FALSE)
CounterShared == Deployed("node",   TRUE,  TRUE,  FALSE, TRUE)
EntryShared   == Deployed("node",   FALSE, FALSE, FALSE, FALSE)

AskedTwice == {TwoWrites, CounterShared, EntryShared}

MCDeployments == AskedOnce \cup AskedTwice

AskedOf(d) ==
    CASE d = TwoWrites     -> <<{Write}, {Write}>>
      [] d = CounterShared -> <<{Write}, {KeySet}>>
      [] d = EntryShared   -> <<{OwnEntry, Beside}, {SameEntry, Plain}>>
      [] OTHER             -> <<Each, {}>>

MCRequests == [d \in MCDeployments |-> [c \in Calls |-> AskedOf(d)[IF c = c1 THEN 1 ELSE 2]]]
=============================================================================
