---------------------------- MODULE FaultRetries ----------------------------
(***************************************************************************)
(* A client, the edge that retries for it (gpilot.toml, [origin.retry])    *)
(* and the origin that was asked to refuse (src/worker.ts, src/fault.ts).  *)
(* An attempt reaches the origin after any time; the edge may have timed   *)
(* it out and sent the next by then, and the stray attempt is counted all  *)
(* the same.  The edge is external: as much of it as the repository's      *)
(* configuration and its walkthrough of retries say.                       *)
(***************************************************************************)
EXTENDS FaultCounter

CONSTANTS
    Clients,     \* the callers of the edge
    MaxRetries,  \* max_retries of gpilot.toml
    Budget,      \* the time a request may spend at the edge, in ticks
    MaxStrays    \* bound: how many timed out attempts are under way at once

ASSUME RetriesAssumption ==
    /\ MaxRetries \in Nat
    /\ Budget \in Nat
    /\ Budget <= TTL
    /\ MaxStrays \in Nat

VARIABLES
    run,     \* what each client has asked, and how far the edge is with it
    strays   \* for each nonce and times, the timed out attempts under way

vars == <<now, faults, run, strays>>

\* retries: sent so far.  heard: refusals the edge was given.  timedOut: it gave
\* up an attempt.  alone: nobody else has used the nonce within its lifetime.
Run(state, nonce, times, began, alone) ==
    [state |-> state, nonce |-> nonce, times |-> times, began |-> began,
     retries |-> 0, heard |-> 0, timedOut |-> FALSE, alone |-> alone]

Idle == [state |-> "idle"]

Active == {c \in Clients : run[c].state \in {"sent", "refused"}}
Ended  == {c \in Clients : run[c].state \in {"answered", "gaveUp"}}

Init ==
    /\ now = 0
    /\ faults = NoFaults
    /\ run = [c \in Clients |-> Idle]
    /\ strays = [asked \in Nonces \X Times |-> 0]

Users(nonce) == {c \in Active : run[c].nonce = nonce}

Unused(nonce) ==
    /\ Users(nonce) = {}
    /\ nonce \notin DOMAIN Pruned
    /\ \A times \in Times : strays[<<nonce, times>>] = 0

\* A client asks; whoever uses the nonce it names is alone with it no more.
Ask(c, nonce, times) ==
    /\ c \notin Active
    /\ run' = [other \in Clients |->
                  IF other = c THEN Run("sent", nonce, times, now, Unused(nonce))
                  ELSE IF other \in Users(nonce) THEN [run[other] EXCEPT !.alone = FALSE]
                  ELSE run[other]]
    /\ UNCHANGED <<now, faults, strays>>

\* The attempt reaches the origin, which refuses it or answers.
Handle(c) ==
    /\ run[c].state = "sent"
    /\ ConsumeFault(run[c].nonce, run[c].times)
    /\ run' = [run EXCEPT ![c].state =
                  IF Refuses(run[c].nonce, run[c].times) THEN "refused" ELSE "answered"]
    /\ UNCHANGED <<now, strays>>

\* Another attempt, while there is one left: what the edge does of a failure.
Again(request) ==
    IF request.retries < MaxRetries
      THEN [request EXCEPT !.state = "sent", !.retries = @ + 1]
      ELSE [request EXCEPT !.state = "gaveUp"]

Hear(c) ==
    /\ run[c].state = "refused"
    /\ run' = [run EXCEPT ![c] = Again([run[c] EXCEPT !.heard = @ + 1])]
    /\ UNCHANGED <<now, faults, strays>>

\* The edge waits no longer; the attempt is still on its way.
TimeOut(c) ==
    /\ run[c].state = "sent"
    /\ \A asked \in DOMAIN strays : strays[asked] < MaxStrays
    /\ run' = [run EXCEPT ![c] = Again([run[c] EXCEPT !.timedOut = TRUE])]
    /\ strays' = [strays EXCEPT ![<<run[c].nonce, run[c].times>>] = @ + 1]
    /\ UNCHANGED <<now, faults>>

HandleStray(nonce, times) ==
    /\ strays[<<nonce, times>>] > 0
    /\ ConsumeFault(nonce, times)
    /\ strays' = [strays EXCEPT ![<<nonce, times>>] = @ - 1]
    /\ UNCHANGED <<now, run>>

\* Mid-sequence, somebody restores the catalogue.
Reset ==
    /\ faults' = FaultsAfterReset
    /\ UNCHANGED <<now, run, strays>>

\* Time passes, but no request outlasts the budget the edge gives it.
Tick ==
    /\ now < Horizon
    /\ \A c \in Active : now < run[c].began + Budget
    /\ now' = now + 1
    /\ UNCHANGED <<faults, run, strays>>

Next ==
    \/ \E c \in Clients, nonce \in Nonces, times \in Times : Ask(c, nonce, times)
    \/ \E c \in Clients : Handle(c) \/ Hear(c) \/ TimeOut(c)
    \/ \E nonce \in Nonces, times \in Times : HandleStray(nonce, times)
    \/ Reset
    \/ Tick

Spec == Init /\ [][Next]_vars

-----------------------------------------------------------------------------
Row == [refused: Nat, firstSeen: Nat]

RunOf ==
    [state: {"sent", "refused", "answered", "gaveUp"}, nonce: Nonces, times: Times,
     began: Nat, retries: Nat, heard: Nat, timedOut: BOOLEAN, alone: BOOLEAN]

TypeOK ==
    /\ now \in Nat
    /\ DOMAIN faults \subseteq Nonces
    /\ faults \in [DOMAIN faults -> Row]
    /\ run \in [Clients -> RunOf \cup {Idle}]
    /\ strays \in [Nonces \X Times -> Nat]

\* No row counts more refusals than somebody was allowed to ask for, however
\* callers with different counts mix under one nonce (src/fault.ts: a caller
\* cannot ask the origin to stay down).
CountsBounded ==
    \A nonce \in DOMAIN faults : \E times \in Times : faults[nonce].refused <= times

\* What docs/18-origin-retries.md shows as gp-origin-retries: where nothing was
\* timed out, a client alone with its nonce is answered after exactly as many
\* refusals as it asked for, and told of a failure only if it asked for more
\* than there are retries.  Others' runs, their rows pruned meanwhile, resets,
\* and a nonce used again after its lifetime make no difference.
RetriesAsAsked ==
    \A c \in Ended :
        run[c].alone /\ ~run[c].timedOut =>
            IF run[c].state = "answered"
              THEN run[c].heard = run[c].times /\ run[c].retries = run[c].times
              ELSE run[c].times > MaxRetries

\* Attempts that are timed out and come late can only shorten the failure: a
\* client alone with its nonce never hears more refusals than it asked for.
NoMoreThanAsked ==
    \A c \in Active \cup Ended : run[c].alone => run[c].heard <= run[c].times
=============================================================================
