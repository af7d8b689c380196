---------------------------- MODULE OriginHeaders ----------------------------
(***************************************************************************)
(* What the two entry points read off a request before GraphQL runs: the   *)
(* edge's signature (src/signing), a requested failure (src/fault.ts), a   *)
(* requested misbehaviour and its scope (src/misbehave.ts).  A header is   *)
(* absent (or blank), a number, a number with something after it, a nonce  *)
(* of an accepted length, a value, a list of names, or what is refused.    *)
(***************************************************************************)
EXTENDS Integers

CONSTANTS
    TimesMax,  \* FAULT_TIMES_MAX
    DelayMax,  \* DELAY_MAX_MS
    Skew       \* SKEW_SECONDS

Absent     == [kind |-> "absent"]
Junk       == [kind |-> "junk"]
Value      == [kind |-> "value"]
Digits(n)  == [kind |-> "digits", n |-> n]
Trailed(n) == [kind |-> "trailed", n |-> n]
Nonce(n)   == [kind |-> "nonce", nonce |-> n]
Names(set) == [kind |-> "names", names |-> set]

-----------------------------------------------------------------------------
(* The signature.  HMAC and SHA-256 are injective here: a seal is the key   *)
(* and the canonical string it was made from.  Times are counted from the   *)
(* moment the request was made.                                             *)

Seal(q, time) == [key |-> "SIGNING_KEY", method |-> q.method, path |-> q.path, body |-> q.body,
                  time |-> time]

Complete(pair) == pair.signature # Absent /\ pair.timestamp # Absent

\* Mutant: a half of one pair is completed with the half of the other.
MixedPair(q) ==
    [signature |-> IF q.current.signature # Absent THEN q.current.signature
                                                   ELSE q.legacy.signature,
     timestamp |-> IF q.current.timestamp # Absent THEN q.current.timestamp
                                                   ELSE q.legacy.timestamp]

\* The current spelling wins, the legacy one is read where it is not complete.
PairRead(q) == IF Complete(q.current) THEN q.current ELSE q.legacy

\* Mutants: the bound itself is too old; nothing is too far in the future.
WithinExclusive(age) == age < Skew /\ -age < Skew

Within(age) == age <= Skew /\ -age <= Skew

\* verifyOriginSignature, age seconds after the request was made.
Verifies(q, age) ==
    LET pair == PairRead(q) IN
    /\ Complete(pair)
    /\ pair.signature.version = "v1"
    /\ pair.signature.bytes # Junk
    /\ pair.timestamp.kind = "digits"
    /\ Within(age - pair.timestamp.n)
    /\ pair.signature.bytes = Seal(q, pair.timestamp.n)

-----------------------------------------------------------------------------
(* The requested failure. *)

Retryable == {502, 503, 504}

\* parseInt takes the digits there are, whatever comes after them.
HasInteger(raw) == raw.kind \in {"digits", "trailed"}

Clamped(raw) == raw = Absent \/ (HasInteger(raw) /\ raw.n \in 1..TimesMax)

AsksFault(q) ==
    /\ q.fault.nonce.kind = "nonce"
    /\ Clamped(q.fault.times)
    /\ q.fault.status = Absent \/ (HasInteger(q.fault.status) /\ q.fault.status.n \in Retryable)

FaultTimes(q)  == IF q.fault.times = Absent THEN 1 ELSE q.fault.times.n
FaultStatus(q) == IF q.fault.status = Absent THEN 503 ELSE q.fault.status.n

-----------------------------------------------------------------------------
(* The requested misbehaviour. *)

\* A delay is digits only, unlike the numbers of a requested failure.
DelayAccepted(raw) == raw = Absent \/ (raw.kind = "digits" /\ raw.n \in 0..DelayMax)

DelayOf(q) == IF q.levers.delay = Absent THEN 0 ELSE q.levers.delay.n

LeverHeaders == {"cache-control", "set-cookie", "surrogate-key", "vary"}

HeadersAsked(q) == {h \in LeverHeaders : q.levers.set[h] # Absent}

\* behaviourFromHeaders: one malformed lever discards them all.
AsksBehaviour(q) ==
    /\ q.levers.scope.kind = "nonce"
    /\ \A h \in LeverHeaders : q.levers.set[h] # Junk
    /\ DelayAccepted(q.levers.delay)
    /\ q.levers.echo # Junk
    /\ HeadersAsked(q) # {} \/ DelayOf(q) > 0 \/ q.levers.echo # Absent

\* Mutant: the body is not asked whose cache entry it addresses.
InAnyScope(q) == TRUE

\* The words of the body, wherever in it they stand: in the document and its
\* variables, which hold some, or in another member, where the rest is.
Text(q) == q.body.holds \cup q.body.rest

InScope(q) == {q.levers.scope.nonce, "faulty"} \subseteq Text(q)

Misbehaves(q) == AsksBehaviour(q) /\ InScope(q)

Credentials == {"authorization", "cookie", "gp-signature", "graphpilot-signature", "x-admin-token"}

\* What the echo says of a header: "..." marks a value longer than 256, cut.
Display(q, name) ==
    IF name \in Credentials THEN "<redacted>"
    ELSE IF q.received[name] = "long" THEN "cut..."
    ELSE "as received"

EchoOf(q) ==
    [name \in q.levers.echo.names |->
        IF name \in DOMAIN q.received THEN Display(q, name) ELSE "null"]

Echo == "x-demo-received-headers"

ExtraNames(q) ==
    IF Misbehaves(q)
      THEN HeadersAsked(q) \cup (IF q.levers.echo = Absent THEN {} ELSE {Echo})
      ELSE {}

\* behaviourHeaders: what an answer to q is given besides its own headers.
Extra(q) == [h \in ExtraNames(q) |-> IF h = Echo THEN EchoOf(q) ELSE q.levers.set[h]]

\* The mark of a cut value is no printable ASCII character.
Printable(header, value) ==
    header = Echo => \A name \in DOMAIN value : value[name] # "cut..."
=============================================================================
