----------------------------- MODULE FaultProofs -----------------------------
(***************************************************************************)
(* Proofs that no counter of refusals passes what a caller may ask for,    *)
(* and that a client alone with its nonce gets the refusals it asked for,  *)
(* for any callers, nonces, counts, lifetimes and orders of attempts.      *)
(***************************************************************************)
EXTENDS FaultRetries, TLAPS

Counters == DOMAIN faults \subseteq Nonces /\ faults \in [DOMAIN faults -> Row]

Bounded == Counters /\ CountsBounded

\* One attempt adds one to a counter that is below what its caller asked for.
LEMMA ConsumeBounded ==
    ASSUME Bounded, now \in Nat, NEW nonce \in Nonces, NEW times \in Times,
           ConsumeFault(nonce, times)
    PROVE  Bounded'
<1>1. /\ DOMAIN Pruned \subseteq DOMAIN faults
      /\ \A n \in DOMAIN Pruned : Pruned[n] = faults[n]
      /\ Pruned = [n \in DOMAIN Pruned |-> Pruned[n]]
  BY DEF Pruned, Restrict
<1> HIDE DEF Pruned
<1>2. \A n \in DOMAIN Pruned :
         Pruned[n] \in Row /\ \E most \in Times : Pruned[n].refused <= most
  BY <1>1 DEF Bounded, Counters, CountsBounded
<1>3. CASE faults' = Pruned
  BY <1>1, <1>2, <1>3 DEF Bounded, Counters, CountsBounded
<1>4. CASE /\ Refuses(nonce, times)
           /\ faults' = [n \in DOMAIN Pruned \cup {nonce} |->
                            IF n = nonce THEN Counted(nonce) ELSE Pruned[n]]
  <2>1. Counted(nonce) \in Row /\ Counted(nonce).refused <= times
    <3>1. times \in Nat \ {0}
      BY CounterAssumption DEF CounterAssumption
    <3>2. CASE nonce \in DOMAIN Pruned
      <4>1. Pruned[nonce] \in Row /\ Pruned[nonce].refused < times
        BY <1>2, <1>4, <3>2 DEF Refuses
      <4>2. Counted(nonce) = [Pruned[nonce] EXCEPT !.refused = @ + 1]
        BY <3>2 DEF Counted
      <4> QED
        BY <3>1, <4>1, <4>2 DEF Row
    <3>3. CASE nonce \notin DOMAIN Pruned
      BY <3>1, <3>3 DEF Counted, Row
    <3> QED
      BY <3>2, <3>3
  <2>2. DOMAIN faults' = DOMAIN Pruned \cup {nonce}
        /\ \A n \in DOMAIN faults' : faults'[n] \in Row
                                     /\ \E most \in Times : faults'[n].refused <= most
    BY <1>2, <1>4, <2>1
  <2>3. faults' = [n \in DOMAIN faults' |-> faults'[n]]
    BY <1>4
  <2> QED
    BY <1>1, <2>2, <2>3 DEF Bounded, Counters, CountsBounded
<1> QED
  BY <1>3, <1>4 DEF ConsumeFault

-----------------------------------------------------------------------------
Inv == TypeOK /\ CountsBounded

LEMMA CountersOfInv == Inv => Bounded
BY DEF Inv, TypeOK, Bounded, Counters

LEMMA InitInv == Init => Inv
BY DEF Init, Inv, TypeOK, CountsBounded, NoFaults, Idle

\* A client that waits has asked, and been given, what its run says.
LEMMA ActiveRun ==
    ASSUME TypeOK, NEW c \in Clients, run[c].state \in {"sent", "refused"}
    PROVE  run[c] \in RunOf
BY DEF TypeOK, Idle

LEMMA RunMoves ==
    ASSUME run \in [Clients -> RunOf \cup {Idle}], NEW c \in Clients, NEW request \in RunOf,
           run' = [run EXCEPT ![c] = request]
    PROVE  run' \in [Clients -> RunOf \cup {Idle}]
OBVIOUS

LEMMA AgainType ==
    ASSUME NEW request \in RunOf
    PROVE  Again(request) \in RunOf
<1>1. [request EXCEPT !.state = "sent", !.retries = @ + 1] \in RunOf
  <2>1. request.retries + 1 \in Nat
    BY DEF RunOf
  <2> DEFINE next == request.retries + 1
  <2>2. [request EXCEPT !.state = "sent", !.retries = next] \in RunOf
    <3> HIDE DEF next
    <3>1. ASSUME NEW n \in Nat
          PROVE  [request EXCEPT !.state = "sent", !.retries = n] \in RunOf
      BY DEF RunOf
    <3> QED
      BY <2>1, <3>1 DEF next
  <2> QED
    BY <2>2
<1>2. [request EXCEPT !.state = "gaveUp"] \in RunOf
  BY DEF RunOf
<1> QED
  BY <1>1, <1>2 DEF Again

LEMMA NextInv == Inv /\ [Next]_vars => Inv'
<1> SUFFICES ASSUME Inv, [Next]_vars
             PROVE  Inv'
  OBVIOUS
<1>1. TypeOK /\ Bounded /\ now \in Nat
  BY CountersOfInv DEF Inv, TypeOK
<1>2. ASSUME NEW c \in Clients, NEW nonce \in Nonces, NEW times \in Times, Ask(c, nonce, times)
      PROVE  Inv'
  <2>1. Run("sent", nonce, times, now, Unused(nonce)) \in RunOf
    <3>1. Unused(nonce) \in BOOLEAN
      BY DEF Unused
    <3>2. times \in Nat
      BY CounterAssumption DEF CounterAssumption
    <3> QED
      BY <1>1, <3>1, <3>2 DEF Run, RunOf
  <2>2. ASSUME NEW other \in Clients, other \in Users(nonce)
        PROVE  [run[other] EXCEPT !.alone = FALSE] \in RunOf
    <3>1. run[other] \in RunOf
      BY <1>1, <2>2, ActiveRun DEF Users, Active
    <3> QED
      BY <3>1 DEF RunOf
  <2>3. run' \in [Clients -> RunOf \cup {Idle}]
    BY <1>1, <1>2, <2>1, <2>2 DEF Ask, TypeOK
  <2> QED
    BY <1>2, <2>3 DEF Ask, Inv, TypeOK, CountsBounded
<1>3. ASSUME NEW c \in Clients, Handle(c)
      PROVE  Inv'
  <2>1. run[c] \in RunOf /\ run[c].nonce \in Nonces /\ run[c].times \in Times
    <3>1. run[c] \in RunOf
      BY <1>1, <1>3, ActiveRun DEF Handle
    <3> QED
      BY <3>1 DEF RunOf
  <2>2. Bounded'
    BY <1>1, <1>3, <2>1, ConsumeBounded DEF Handle
  <2>3. run' \in [Clients -> RunOf \cup {Idle}]
    <3> DEFINE state == IF Refuses(run[c].nonce, run[c].times) THEN "refused" ELSE "answered"
    <3>1. [run[c] EXCEPT !.state = state] \in RunOf
      BY <2>1 DEF RunOf
    <3>2. run' = [run EXCEPT ![c] = [run[c] EXCEPT !.state = state]]
      BY <1>3 DEF Handle
    <3> HIDE DEF state
    <3> QED
      BY <1>1, <3>1, <3>2, RunMoves DEF TypeOK
  <2> QED
    BY <1>3, <2>2, <2>3 DEF Handle, Inv, TypeOK, Bounded, Counters
<1>4. ASSUME NEW c \in Clients, Hear(c)
      PROVE  Inv'
  <2>1. [run[c] EXCEPT !.heard = @ + 1] \in RunOf
    <3>1. run[c] \in RunOf
      BY <1>1, <1>4, ActiveRun DEF Hear
    <3> QED
      BY <3>1 DEF RunOf
  <2>2. run' \in [Clients -> RunOf \cup {Idle}]
    BY <1>1, <1>4, <2>1, AgainType, RunMoves DEF Hear, TypeOK
  <2> QED
    BY <1>4, <2>2 DEF Hear, Inv, TypeOK, CountsBounded
<1>5. ASSUME NEW c \in Clients, TimeOut(c)
      PROVE  Inv'
  <2>1. [run[c] EXCEPT !.timedOut = TRUE] \in RunOf
    <3>1. run[c] \in RunOf
      BY <1>1, <1>5, ActiveRun DEF TimeOut
    <3> QED
      BY <3>1 DEF RunOf
  <2>2. run' \in [Clients -> RunOf \cup {Idle}]
    BY <1>1, <1>5, <2>1, AgainType, RunMoves DEF TimeOut, TypeOK
  <2>3. strays' \in [Nonces \X Times -> Nat]
    <3>1. run[c] \in RunOf
      BY <1>1, <1>5, ActiveRun DEF TimeOut
    <3>2. <<run[c].nonce, run[c].times>> \in Nonces \X Times
      BY <3>1 DEF RunOf
    <3> QED
      BY <1>1, <1>5, <3>2 DEF TimeOut, TypeOK
  <2> QED
    BY <1>5, <2>2, <2>3 DEF TimeOut, Inv, TypeOK, CountsBounded
<1>6. ASSUME NEW nonce \in Nonces, NEW times \in Times, HandleStray(nonce, times)
      PROVE  Inv'
  <2>1. Bounded'
    BY <1>1, <1>6, ConsumeBounded DEF HandleStray
  <2>2. strays' \in [Nonces \X Times -> Nat]
    <3>1. strays[<<nonce, times>>] \in Nat /\ strays[<<nonce, times>>] - 1 \in Nat
      BY <1>1, <1>6 DEF HandleStray, TypeOK
    <3> QED
      BY <1>1, <1>6, <3>1 DEF HandleStray, TypeOK
  <2> QED
    BY <1>6, <2>1, <2>2 DEF HandleStray, Inv, TypeOK, Bounded, Counters
<1>7. CASE Reset
  BY <1>7 DEF Reset, FaultsAfterReset, Inv, TypeOK, CountsBounded
<1>8. CASE Tick
  BY <1>8 DEF Tick, Inv, TypeOK, CountsBounded
<1>9. CASE UNCHANGED vars
  BY <1>9 DEF vars, Inv, TypeOK, CountsBounded
<1> QED
  BY <1>2, <1>3, <1>4, <1>5, <1>6, <1>7, <1>8, <1>9 DEF Next

LEMMA Invariance == Spec => []Inv
BY InitInv, NextInv, PTL DEF Spec

\* Whoever mixes which counts under one nonce, whatever is pruned, retried or
\* comes late, nothing is refused more often than a caller may ask.
THEOREM CountersBounded == Spec => []CountsBounded
<1>1. Inv => CountsBounded
  BY DEF Inv
<1> QED
  BY <1>1, Invariance, PTL

\* The counters, the runs and the attempts under way stay well formed.
THEOREM TypeCorrect == Spec => []TypeOK
<1>1. Inv => TypeOK
  BY DEF Inv
<1> QED
  BY <1>1, Invariance, PTL

-----------------------------------------------------------------------------
(* A client alone with its nonce gets the refusals it asked for.  A row is  *)
(* its own if it was first seen since the client began; an older one, which *)
(* may still be there, has outlived its lifetime and is pruned before it    *)
(* counts.                                                                  *)

IsOwn(rows, nonce, began) == nonce \in DOMAIN rows /\ rows[nonce].firstSeen >= began

Refusals(rows, nonce, began) == IF IsOwn(rows, nonce, began) THEN rows[nonce].refused ELSE 0

\* A row there is, is the client's own or too old.
Settled(rows, nonce, began) ==
    nonce \in DOMAIN rows => IsOwn(rows, nonce, began) \/ rows[nonce].firstSeen + TTL < began

\* The refusals that a client has been given, heard of or not.
Given(r) == IF r.state = "refused" THEN r.heard + 1 ELSE r.heard

InTime(r) == r.began <= now /\ now <= r.began + Budget

RowIsRight(rows, r) ==
    /\ Settled(rows, r.nonce, r.began)
    /\ Refusals(rows, r.nonce, r.began) <= r.times
    /\ Given(r) <= Refusals(rows, r.nonce, r.began)
    /\ ~r.timedOut => Given(r) = Refusals(rows, r.nonce, r.began) /\ r.retries = r.heard

\* The attempts under way beside those of r are its own.
StraysAreOwn(late, r) ==
    \A times \in Times : late[<<r.nonce, times>>] # 0 => times = r.times /\ r.timedOut

ActiveIsRight == \A c \in Active : /\ InTime(run[c])
                                   /\ run[c].alone => /\ RowIsRight(faults, run[c])
                                                     /\ StraysAreOwn(strays, run[c])

EndIsRight(r) ==
    /\ r.heard <= r.times
    /\ ~r.timedOut => IF r.state = "answered" THEN r.heard = r.times /\ r.retries = r.times
                                              ELSE r.times > MaxRetries

EndedIsRight == \A c \in Ended : run[c].alone => EndIsRight(run[c])

\* No two clients that wait share a nonce one of them is alone with.
Apart == \A c, d \in Active : run[c].alone /\ run[d].nonce = run[c].nonce => c = d

IInv == Inv /\ ActiveIsRight /\ EndedIsRight /\ Apart

-----------------------------------------------------------------------------
(* The counter. *)

LEMMA PrunedRows ==
    ASSUME Inv
    PROVE  /\ DOMAIN Pruned = {n \in DOMAIN faults : now - faults[n].firstSeen <= TTL}
           /\ \A n \in DOMAIN Pruned : Pruned[n] = faults[n]
           /\ \A n \in DOMAIN faults : faults[n].refused \in Nat /\ faults[n].firstSeen \in Nat
           /\ now \in Nat /\ TTL \in Nat /\ Budget \in Nat /\ Budget <= TTL
<1>1. \A n \in DOMAIN faults : faults[n] \in Row
  BY DEF Inv, TypeOK
<1> QED
  BY <1>1, CounterAssumption, RetriesAssumption
     DEF Inv, TypeOK, Row, Pruned, Restrict, Remembered, CounterAssumption, RetriesAssumption

\* An attempt under another nonce prunes no row that a client still counts on.
LEMMA CountedElsewhere ==
    ASSUME Inv, NEW nonce \in Nonces, NEW times \in Times, ConsumeFault(nonce, times),
           NEW n \in Nonces, n # nonce, NEW began \in Nat, began <= now, now <= began + TTL
    PROVE  /\ Refusals(faults', n, began) = Refusals(faults, n, began)
           /\ Settled(faults, n, began) => Settled(faults', n, began)
<1>1. /\ n \in DOMAIN faults' <=> n \in DOMAIN Pruned
      /\ n \in DOMAIN Pruned => faults'[n] = Pruned[n]
  BY DEF ConsumeFault
<1>2. n \in DOMAIN faults' => n \in DOMAIN faults /\ faults'[n] = faults[n]
  BY <1>1, PrunedRows
<1>3. IsOwn(faults, n, began) => n \in DOMAIN faults'
  BY <1>1, PrunedRows DEF IsOwn
<1> QED
  BY <1>2, <1>3 DEF Refusals, Settled, IsOwn

\* An attempt under a client's own nonce adds one refusal, or finds them all.
LEMMA CountedOwn ==
    ASSUME Inv, NEW nonce \in Nonces, NEW times \in Times, ConsumeFault(nonce, times),
           NEW began \in Nat, began <= now, now <= began + TTL,
           Settled(faults, nonce, began), Refusals(faults, nonce, began) <= times
    PROVE  /\ Settled(faults', nonce, began)
           /\ Refuses(nonce, times) =>
                 /\ Refusals(faults', nonce, began) = Refusals(faults, nonce, began) + 1
                 /\ Refusals(faults', nonce, began) <= times
           /\ ~Refuses(nonce, times) =>
                 /\ Refusals(faults', nonce, began) = times
                 /\ Refusals(faults, nonce, began) = times
<1>1. times \in Nat \ {0}
  BY CounterAssumption DEF CounterAssumption
<1>2. CASE nonce \in DOMAIN Pruned
  <2>1. /\ IsOwn(faults, nonce, began) /\ Pruned[nonce] = faults[nonce]
        /\ faults[nonce].refused \in Nat /\ faults[nonce].firstSeen \in Nat
    BY <1>2, PrunedRows DEF Settled
  <2>2. CASE Refuses(nonce, times)
    <3>1. /\ nonce \in DOMAIN faults'
          /\ faults'[nonce] = [faults[nonce] EXCEPT !.refused = @ + 1]
      BY <1>2, <2>1, <2>2 DEF ConsumeFault, Counted
    <3>2. faults[nonce] \in Row
      BY <2>1 DEF Inv, TypeOK, IsOwn
    <3>3. /\ faults'[nonce].refused = faults[nonce].refused + 1
          /\ faults'[nonce].firstSeen = faults[nonce].firstSeen
      BY <3>1, <3>2 DEF Row
    <3>4. faults[nonce].refused < times
      BY <1>2, <2>1, <2>2 DEF Refuses
    <3> QED
      BY <1>1, <2>1, <2>2, <3>1, <3>3, <3>4 DEF Refusals, Settled, IsOwn
  <2>3. CASE ~Refuses(nonce, times)
    <3>1. nonce \in DOMAIN faults' /\ faults'[nonce] = faults[nonce]
      BY <1>2, <2>1, <2>3 DEF ConsumeFault
    <3>2. faults[nonce].refused >= times
      BY <1>1, <1>2, <2>1, <2>3 DEF Refuses
    <3> QED
      BY <1>1, <2>1, <2>3, <3>1, <3>2 DEF Refusals, Settled, IsOwn
  <2> QED
    BY <2>2, <2>3
<1>3. CASE nonce \notin DOMAIN Pruned
  <2>1. Refuses(nonce, times)
    BY <1>3 DEF Refuses
  <2>2. Refusals(faults, nonce, began) = 0
    BY <1>3, PrunedRows DEF Refusals, IsOwn
  <2>3. /\ nonce \in DOMAIN faults'
        /\ faults'[nonce] = [refused |-> 1, firstSeen |-> now]
    BY <1>3, <2>1 DEF ConsumeFault, Counted
  <2> QED
    BY <1>1, <2>1, <2>2, <2>3 DEF Refusals, Settled, IsOwn
<1> QED
  BY <1>2, <1>3

-----------------------------------------------------------------------------
(* The steps. *)

LEMMA RunTyped ==
    ASSUME Inv, NEW c \in Clients, run[c] # Idle
    PROVE  /\ run[c] \in RunOf
           /\ run[c].nonce \in Nonces /\ run[c].times \in Times /\ run[c].times \in Nat
           /\ run[c].began \in Nat /\ run[c].retries \in Nat /\ run[c].heard \in Nat
<1>1. run[c] \in RunOf
  BY DEF Inv, TypeOK
<1> QED
  BY <1>1, CounterAssumption DEF RunOf, CounterAssumption

\* Whoever waits or has ended is not idle.
LEMMA NotIdle ==
    ASSUME NEW c \in Active \cup Ended
    PROVE  c \in Clients /\ run[c] # Idle
BY DEF Active, Ended, Idle

\* What a client counts on, its row and the attempts under way, stays.
Spared(r) ==
    /\ Settled(faults', r.nonce, r.began)
    /\ Refusals(faults', r.nonce, r.began) = Refusals(faults, r.nonce, r.began)
    /\ \A times \in Times : strays'[<<r.nonce, times>>] # 0 => strays[<<r.nonce, times>>] # 0

LEMMA SparedIsRight ==
    ASSUME NEW c \in Active, ActiveIsRight, run[c].alone, Spared(run[c])
    PROVE  RowIsRight(faults', run[c]) /\ StraysAreOwn(strays', run[c])
<1>1. RowIsRight(faults, run[c]) /\ StraysAreOwn(strays, run[c])
  BY DEF ActiveIsRight
<1>2. RowIsRight(faults', run[c])
  BY <1>1 DEF RowIsRight, Given, Spared
<1>3. StraysAreOwn(strays', run[c])
  BY <1>1 DEF StraysAreOwn, Spared
<1> QED
  BY <1>2, <1>3

\* A step of one client that waits, to a run r with the same request.
LEMMA OneMoves ==
    ASSUME IInv, UNCHANGED now, NEW c \in Active, NEW r \in RunOf,
           run' = [run EXCEPT ![c] = r],
           r.nonce = run[c].nonce, r.began = run[c].began, r.alone = run[c].alone,
           \A d \in Active : d # c /\ run[d].alone => Spared(run[d]),
           r.alone /\ r.state \in {"sent", "refused"} =>
               RowIsRight(faults', r) /\ StraysAreOwn(strays', r),
           r.alone /\ r.state \in {"answered", "gaveUp"} => EndIsRight(r)
    PROVE  ActiveIsRight' /\ EndedIsRight' /\ Apart'
<1>1. /\ c \in Clients /\ run \in [Clients -> RunOf \cup {Idle}]
      /\ run'[c] = r
      /\ \A d \in Clients : d # c => run'[d] = run[d]
  BY NotIdle DEF IInv, Inv, TypeOK
<1>2. /\ \A d \in Clients : d # c => (d \in Active' <=> d \in Active) /\ (d \in Ended' <=> d \in Ended)
      /\ c \in Active' <=> r.state \in {"sent", "refused"}
      /\ c \in Ended' <=> r.state \in {"answered", "gaveUp"}
      /\ Active' \subseteq Clients /\ Ended' \subseteq Clients
  BY <1>1 DEF Active, Ended
<1>3. ActiveIsRight'
  <2> SUFFICES ASSUME NEW d \in Active'
               PROVE  /\ InTime(run[d])'
                      /\ run'[d].alone => /\ RowIsRight(faults', run'[d])
                                          /\ StraysAreOwn(strays', run'[d])
    BY DEF ActiveIsRight
  <2>1. CASE d = c
    <3>1. InTime(run[c])
      BY DEF IInv, ActiveIsRight
    <3> QED
      BY <1>1, <1>2, <2>1, <3>1 DEF InTime
  <2>2. CASE d # c
    <3>1. d \in Active /\ run'[d] = run[d]
      BY <1>1, <1>2, <2>2
    <3>2. InTime(run[d])
      BY <3>1 DEF IInv, ActiveIsRight
    <3>3. run[d].alone => RowIsRight(faults', run[d]) /\ StraysAreOwn(strays', run[d])
      BY <2>2, <3>1, SparedIsRight DEF IInv
    <3> QED
      BY <3>1, <3>2, <3>3 DEF InTime
  <2> QED
    BY <2>1, <2>2
<1>4. EndedIsRight'
  BY <1>1, <1>2 DEF IInv, EndedIsRight
<1>5. Apart'
  BY <1>1, <1>2 DEF IInv, Apart
<1> QED
  BY <1>3, <1>4, <1>5

\* An attempt under a client's nonce spares the others.
LEMMA OthersSpared ==
    ASSUME IInv, NEW c \in Active, UNCHANGED strays,
           ConsumeFault(run[c].nonce, run[c].times),
           NEW d \in Active, d # c, run[d].alone
    PROVE  Spared(run[d])
<1>1. /\ run[c] \in RunOf /\ run[c].nonce \in Nonces /\ run[c].times \in Times
      /\ run[d] \in RunOf /\ run[d].nonce \in Nonces /\ run[d].began \in Nat
  BY NotIdle, RunTyped DEF IInv
<1>2. run[d].nonce # run[c].nonce
  BY DEF IInv, Apart
<1>3. InTime(run[d]) /\ RowIsRight(faults, run[d])
  BY DEF IInv, ActiveIsRight
<1>4. run[d].began <= now /\ now <= run[d].began + TTL
  BY <1>1, <1>3, PrunedRows DEF InTime, IInv
<1>5. Settled(faults, run[d].nonce, run[d].began)
  BY <1>3 DEF RowIsRight
<1> QED
  BY <1>1, <1>2, <1>4, <1>5, CountedElsewhere DEF Spared, IInv

LEMMA InitRuns == Init => IInv
<1>1. Init => Active = {} /\ Ended = {}
  BY DEF Init, Active, Ended, Idle
<1> QED
  BY <1>1, InitInv DEF IInv, ActiveIsRight, EndedIsRight, Apart

LEMMA ActiveFacts ==
    ASSUME IInv, NEW c \in Active
    PROVE  /\ c \in Clients /\ run[c] \in RunOf /\ InTime(run[c])
           /\ run[c].nonce \in Nonces /\ run[c].times \in Times /\ run[c].times \in Nat
           /\ run[c].began \in Nat /\ run[c].retries \in Nat /\ run[c].heard \in Nat
           /\ run[c].alone => RowIsRight(faults, run[c]) /\ StraysAreOwn(strays, run[c])
           /\ run[c].began <= now /\ now <= run[c].began + TTL
<1>1. InTime(run[c]) /\ (run[c].alone => RowIsRight(faults, run[c]) /\ StraysAreOwn(strays, run[c]))
  BY DEF IInv, ActiveIsRight
<1>2. c \in Clients /\ run[c] # Idle
  BY NotIdle
<1>3. /\ run[c] \in RunOf
      /\ run[c].nonce \in Nonces /\ run[c].times \in Times /\ run[c].times \in Nat
      /\ run[c].began \in Nat /\ run[c].retries \in Nat /\ run[c].heard \in Nat
  BY <1>2, RunTyped DEF IInv
<1>4. run[c].began <= now /\ now <= run[c].began + TTL
  BY <1>1, <1>3, PrunedRows DEF InTime, IInv
<1> QED
  BY <1>1, <1>2, <1>3, <1>4

LEMMA HandleKeeps ==
    ASSUME IInv, NEW c \in Clients, Handle(c)
    PROVE  ActiveIsRight' /\ EndedIsRight' /\ Apart'
<1>1. /\ c \in Active /\ run[c].state = "sent"
      /\ ConsumeFault(run[c].nonce, run[c].times)
      /\ UNCHANGED <<now, strays>>
  BY DEF Handle, Active
<1>2. PICK state \in {"refused", "answered"} :
         /\ run' = [run EXCEPT ![c] = [run[c] EXCEPT !.state = state]]
         /\ state = "refused" <=> Refuses(run[c].nonce, run[c].times)
  BY DEF Handle
<1> DEFINE r == [run[c] EXCEPT !.state = state]
<1>3. /\ r \in RunOf /\ r.state = state
      /\ r.nonce = run[c].nonce /\ r.times = run[c].times /\ r.began = run[c].began
      /\ r.alone = run[c].alone /\ r.heard = run[c].heard /\ r.retries = run[c].retries
      /\ r.timedOut = run[c].timedOut
  BY <1>1, ActiveFacts DEF RunOf
<1> HIDE DEF r
<1>4. ASSUME run[c].alone
      PROVE  /\ state = "refused" => RowIsRight(faults', r) /\ StraysAreOwn(strays', r)
             /\ state = "answered" => EndIsRight(r)
  <2>1. RowIsRight(faults, run[c]) /\ StraysAreOwn(strays, run[c])
    BY <1>1, <1>4, ActiveFacts
  <2> DEFINE before == Refusals(faults, run[c].nonce, run[c].began)
             after  == Refusals(faults', run[c].nonce, run[c].began)
  <2>2. /\ Settled(faults, run[c].nonce, run[c].began) /\ before <= run[c].times
        /\ run[c].heard <= before
        /\ ~run[c].timedOut => run[c].heard = before /\ run[c].retries = run[c].heard
    BY <1>1, <2>1 DEF RowIsRight, Given
  <2>3. /\ Settled(faults', run[c].nonce, run[c].began)
        /\ state = "refused" => after = before + 1 /\ after <= run[c].times
        /\ state = "answered" => before = run[c].times
    BY <1>1, <1>2, <2>2, ActiveFacts, CountedOwn DEF IInv
  <2>4. before \in Nat
    BY <1>1, PrunedRows DEF Refusals, IsOwn, IInv
  <2>5. StraysAreOwn(strays', r)
    BY <1>1, <1>3, <2>1 DEF StraysAreOwn
  <2>6. CASE state = "refused"
    <3>1. Given(r) = run[c].heard + 1
      BY <1>3, <2>6 DEF Given
    <3> HIDE DEF before, after
    <3>2. /\ run[c].heard + 1 <= after /\ after <= run[c].times
          /\ ~run[c].timedOut => run[c].heard + 1 = after /\ run[c].retries = run[c].heard
      BY <1>1, <2>2, <2>3, <2>4, <2>6, ActiveFacts
    <3> QED
      BY <1>3, <2>3, <2>5, <2>6, <3>1, <3>2 DEF RowIsRight, after
  <2>7. CASE state = "answered"
    BY <1>3, <2>2, <2>3, <2>7 DEF EndIsRight
  <2> QED
    BY <2>6, <2>7
<1>5. \A d \in Active : d # c /\ run[d].alone => Spared(run[d])
  BY <1>1, OthersSpared
<1> QED
  BY <1>1, <1>2, <1>3, <1>4, <1>5, OneMoves DEF r

\* What the edge does of a failure, to a run that has been told of heard.
LEMMA AgainMoves ==
    ASSUME NEW q \in RunOf
    PROVE  /\ Again(q) \in RunOf
           /\ Again(q).nonce = q.nonce /\ Again(q).times = q.times /\ Again(q).began = q.began
           /\ Again(q).alone = q.alone /\ Again(q).heard = q.heard
           /\ Again(q).timedOut = q.timedOut
           /\ \/ /\ Again(q).state = "sent" /\ q.retries < MaxRetries
                 /\ Again(q).retries = q.retries + 1
              \/ /\ Again(q).state = "gaveUp" /\ q.retries >= MaxRetries
                 /\ Again(q).retries = q.retries
<1>1. Again(q) \in RunOf
  BY AgainType
<1>2. q.retries \in Nat /\ MaxRetries \in Nat
  BY RetriesAssumption DEF RunOf, RetriesAssumption
<1>3. CASE q.retries < MaxRetries
  <2>1. Again(q) = [q EXCEPT !.state = "sent", !.retries = @ + 1]
    BY <1>3 DEF Again
  <2> QED
    BY <1>1, <1>3, <2>1 DEF RunOf
<1>4. CASE ~(q.retries < MaxRetries)
  <2>1. Again(q) = [q EXCEPT !.state = "gaveUp"]
    BY <1>4 DEF Again
  <2> QED
    BY <1>1, <1>2, <1>4, <2>1 DEF RunOf
<1> QED
  BY <1>3, <1>4

LEMMA HearKeeps ==
    ASSUME IInv, NEW c \in Clients, Hear(c)
    PROVE  ActiveIsRight' /\ EndedIsRight' /\ Apart'
<1> DEFINE q == [run[c] EXCEPT !.heard = @ + 1]
           r == Again(q)
<1>1. /\ c \in Active /\ run[c].state = "refused"
      /\ run' = [run EXCEPT ![c] = r]
      /\ UNCHANGED <<now, faults, strays>>
  BY DEF Hear, Active
<1>2. /\ q \in RunOf /\ q.heard = run[c].heard + 1
      /\ q.nonce = run[c].nonce /\ q.times = run[c].times /\ q.began = run[c].began
      /\ q.alone = run[c].alone /\ q.retries = run[c].retries /\ q.timedOut = run[c].timedOut
  BY <1>1, ActiveFacts DEF RunOf
<1> HIDE DEF q
<1>3. /\ r \in RunOf
      /\ r.nonce = run[c].nonce /\ r.times = run[c].times /\ r.began = run[c].began
      /\ r.alone = run[c].alone /\ r.heard = run[c].heard + 1 /\ r.timedOut = run[c].timedOut
      /\ \/ r.state = "sent" /\ r.retries = run[c].retries + 1
         \/ r.state = "gaveUp" /\ run[c].retries >= MaxRetries
  BY <1>2, AgainMoves
<1> HIDE DEF r
<1>4. ASSUME run[c].alone
      PROVE  /\ r.state = "sent" => RowIsRight(faults', r) /\ StraysAreOwn(strays', r)
             /\ r.state = "gaveUp" => EndIsRight(r)
  <2>1. /\ RowIsRight(faults, run[c]) /\ StraysAreOwn(strays, run[c])
        /\ run[c].times \in Nat /\ run[c].heard \in Nat /\ run[c].retries \in Nat
    BY <1>1, <1>4, ActiveFacts
  <2>2. /\ Settled(faults, run[c].nonce, run[c].began)
        /\ Refusals(faults, run[c].nonce, run[c].began) <= run[c].times
        /\ run[c].heard + 1 <= Refusals(faults, run[c].nonce, run[c].began)
        /\ ~run[c].timedOut => /\ run[c].heard + 1 = Refusals(faults, run[c].nonce, run[c].began)
                               /\ run[c].retries = run[c].heard
    BY <1>1, <2>1 DEF RowIsRight, Given
  <2>3. StraysAreOwn(strays', r)
    BY <1>1, <1>3, <2>1 DEF StraysAreOwn
  <2>4. ASSUME r.state = "sent"
        PROVE  RowIsRight(faults', r)
    BY <1>1, <1>3, <2>2, <2>4 DEF RowIsRight, Given
  <2>5. ASSUME r.state = "gaveUp"
        PROVE  EndIsRight(r)
    <3>1. Refusals(faults, run[c].nonce, run[c].began) \in Nat
      BY PrunedRows DEF Refusals, IsOwn, IInv
    <3>2. MaxRetries \in Nat
      BY RetriesAssumption DEF RetriesAssumption
    <3>3. /\ r.heard <= r.times
          /\ ~r.timedOut => r.times > MaxRetries
      BY <1>3, <2>1, <2>2, <2>5, <3>1, <3>2
    <3> QED
      BY <2>5, <3>3 DEF EndIsRight
  <2> QED
    BY <2>3, <2>4, <2>5
<1>5. \A d \in Active : d # c /\ run[d].alone => Spared(run[d])
  BY <1>1, ActiveFacts DEF Spared, RowIsRight
<1> QED
  BY <1>1, <1>3, <1>4, <1>5, OneMoves

LEMMA TimeOutKeeps ==
    ASSUME IInv, NEW c \in Clients, TimeOut(c)
    PROVE  ActiveIsRight' /\ EndedIsRight' /\ Apart'
<1> DEFINE q == [run[c] EXCEPT !.timedOut = TRUE]
           r == Again(q)
<1>1. /\ c \in Active /\ run[c].state = "sent"
      /\ run' = [run EXCEPT ![c] = r]
      /\ strays' = [strays EXCEPT ![<<run[c].nonce, run[c].times>>] = @ + 1]
      /\ UNCHANGED <<now, faults>>
  BY DEF TimeOut, Active
<1>2. /\ q \in RunOf /\ q.timedOut
      /\ q.nonce = run[c].nonce /\ q.times = run[c].times /\ q.began = run[c].began
      /\ q.alone = run[c].alone /\ q.retries = run[c].retries /\ q.heard = run[c].heard
  BY <1>1, ActiveFacts DEF RunOf
<1> HIDE DEF q
<1>3. /\ r \in RunOf /\ r.timedOut
      /\ r.nonce = run[c].nonce /\ r.times = run[c].times /\ r.began = run[c].began
      /\ r.alone = run[c].alone /\ r.heard = run[c].heard
      /\ r.state \in {"sent", "gaveUp"}
  BY <1>2, AgainMoves
<1> HIDE DEF r
<1>4. \A nonce \in Nonces, times \in Times :
         strays'[<<nonce, times>>] # strays[<<nonce, times>>] =>
             nonce = run[c].nonce /\ times = run[c].times
  BY <1>1, ActiveFacts DEF IInv, Inv, TypeOK
<1>5. ASSUME run[c].alone
      PROVE  RowIsRight(faults', r) /\ StraysAreOwn(strays', r) /\ EndIsRight(r)
  <2>1. /\ RowIsRight(faults, run[c]) /\ StraysAreOwn(strays, run[c])
        /\ run[c].times \in Nat /\ run[c].heard \in Nat /\ run[c].nonce \in Nonces
    BY <1>1, <1>5, ActiveFacts
  <2>2. /\ Settled(faults, run[c].nonce, run[c].began)
        /\ Refusals(faults, run[c].nonce, run[c].began) <= run[c].times
        /\ run[c].heard <= Refusals(faults, run[c].nonce, run[c].began)
    BY <1>1, <2>1 DEF RowIsRight, Given
  <2>3. RowIsRight(faults', r)
    BY <1>1, <1>3, <2>2 DEF RowIsRight, Given
  <2>4. StraysAreOwn(strays', r)
    BY <1>3, <1>4, <2>1 DEF StraysAreOwn
  <2>5. EndIsRight(r)
    <3>1. Refusals(faults, run[c].nonce, run[c].began) \in Nat
      BY PrunedRows DEF Refusals, IsOwn, IInv
    <3> QED
      BY <1>3, <2>1, <2>2, <3>1 DEF EndIsRight
  <2> QED
    BY <2>3, <2>4, <2>5
<1>6. ASSUME NEW d \in Active, d # c, run[d].alone
      PROVE  Spared(run[d])
  <2>1. run[d].nonce # run[c].nonce /\ run[d].nonce \in Nonces
    BY <1>1, <1>6, ActiveFacts DEF IInv, Apart
  <2>2. Settled(faults, run[d].nonce, run[d].began)
    BY <1>6, ActiveFacts DEF RowIsRight
  <2> QED
    BY <1>1, <1>4, <2>1, <2>2 DEF Spared
<1> QED
  BY <1>1, <1>3, <1>5, <1>6, OneMoves

LEMMA AskKeeps ==
    ASSUME IInv, NEW c \in Clients, NEW nonce \in Nonces, NEW times \in Times,
           Ask(c, nonce, times)
    PROVE  ActiveIsRight' /\ EndedIsRight' /\ Apart'
<1>1. /\ c \notin Active /\ UNCHANGED <<now, faults, strays>>
      /\ run'[c] = Run("sent", nonce, times, now, Unused(nonce))
  BY DEF Ask
<1>2. \A d \in Clients : d # c =>
         run'[d] = IF d \in Users(nonce) THEN [run[d] EXCEPT !.alone = FALSE] ELSE run[d]
  BY DEF Ask
<1>3. ASSUME NEW d \in Active
      PROVE  /\ run'[d].state = run[d].state /\ run'[d].nonce = run[d].nonce
             /\ run'[d].began = run[d].began
             /\ run'[d].alone => run'[d] = run[d] /\ run[d].nonce # nonce
  <2>1. d \in Clients /\ d # c /\ run[d] \in RunOf
    BY <1>1, ActiveFacts
  <2>2. CASE d \in Users(nonce)
    <3>1. run'[d] = [run[d] EXCEPT !.alone = FALSE]
      BY <1>2, <2>1, <2>2
    <3> QED
      BY <2>1, <3>1 DEF RunOf
  <2>3. CASE d \notin Users(nonce)
    BY <1>2, <2>1, <2>3 DEF Users
  <2> QED
    BY <2>2, <2>3
<1>4. /\ Active' = Active \cup {c}
      /\ \A d \in Ended' : d \in Ended /\ run'[d] = run[d]
  <2>1. \A d \in Active : run'[d].state \in {"sent", "refused"} /\ d \in Clients
    BY <1>3 DEF Active
  <2>2. run'[c].state = "sent"
    BY <1>1 DEF Run
  <2>3. \A d \in Clients : d # c /\ d \notin Active => run'[d] = run[d]
    BY <1>2 DEF Users
  <2> QED
    BY <2>1, <2>2, <2>3 DEF Active, Ended
<1>5. /\ InTime(run[c])'
      /\ run'[c].alone => RowIsRight(faults', run'[c]) /\ StraysAreOwn(strays', run'[c])
  <2>1. /\ run'[c].nonce = nonce /\ run'[c].times = times /\ run'[c].began = now
        /\ run'[c].heard = 0 /\ run'[c].retries = 0 /\ run'[c].state = "sent"
        /\ run'[c].alone = Unused(nonce)
    BY <1>1 DEF Run
  <2>2. InTime(run[c])'
    BY <1>1, <2>1, PrunedRows DEF InTime, IInv
  <2>3. ASSUME Unused(nonce)
        PROVE  RowIsRight(faults', run'[c]) /\ StraysAreOwn(strays', run'[c])
    <3>1. Refusals(faults, nonce, now) = 0 /\ Settled(faults, nonce, now)
      BY <2>3, PrunedRows DEF Unused, Refusals, Settled, IsOwn, IInv
    <3>2. times \in Nat
      BY CounterAssumption DEF CounterAssumption
    <3>3. RowIsRight(faults', run'[c])
      BY <1>1, <2>1, <3>1, <3>2 DEF RowIsRight, Given
    <3>4. StraysAreOwn(strays', run'[c])
      BY <1>1, <2>1, <2>3 DEF StraysAreOwn, Unused
    <3> QED
      BY <3>3, <3>4
  <2> QED
    BY <2>1, <2>2, <2>3
<1>6. ActiveIsRight'
  <2> SUFFICES ASSUME NEW d \in Active
               PROVE  /\ InTime(run[d])'
                      /\ run'[d].alone => /\ RowIsRight(faults', run'[d])
                                          /\ StraysAreOwn(strays', run'[d])
    BY <1>4, <1>5 DEF ActiveIsRight
  <2> QED
    BY <1>1, <1>3, ActiveFacts DEF InTime
<1>7. EndedIsRight'
  BY <1>4 DEF IInv, EndedIsRight
<1>8. Apart'
  <2>1. run'[c].nonce = nonce /\ run'[c].alone = Unused(nonce)
    BY <1>1 DEF Run
  <2>2. ASSUME NEW d \in Active
        PROVE  Unused(nonce) => run'[d].nonce # nonce
    BY <1>3, ActiveFacts DEF Unused, Users
  <2> QED
    BY <1>3, <1>4, <2>1, <2>2 DEF IInv, Apart
<1> QED
  BY <1>6, <1>7, <1>8

\* A step of no client, which leaves what each of them counts on right.
LEMMA NoneMoves ==
    ASSUME IInv, UNCHANGED run,
           \A c \in Active : /\ InTime(run[c])'
                             /\ run[c].alone => /\ RowIsRight(faults', run[c])
                                                /\ StraysAreOwn(strays', run[c])
    PROVE  ActiveIsRight' /\ EndedIsRight' /\ Apart'
<1>1. Active' = Active /\ Ended' = Ended
  BY DEF Active, Ended
<1> QED
  BY <1>1 DEF IInv, ActiveIsRight, EndedIsRight, Apart

LEMMA StrayKeeps ==
    ASSUME IInv, NEW nonce \in Nonces, NEW times \in Times, HandleStray(nonce, times)
    PROVE  ActiveIsRight' /\ EndedIsRight' /\ Apart'
<1>1. /\ strays[<<nonce, times>>] > 0 /\ ConsumeFault(nonce, times)
      /\ strays' = [strays EXCEPT ![<<nonce, times>>] = @ - 1]
      /\ UNCHANGED <<now, run>>
  BY DEF HandleStray
<1>2. \A n \in Nonces, t \in Times : strays'[<<n, t>>] # 0 => strays[<<n, t>>] # 0
  BY <1>1 DEF IInv, Inv, TypeOK
<1>3. ASSUME NEW c \in Active, run[c].alone
      PROVE  RowIsRight(faults', run[c]) /\ StraysAreOwn(strays', run[c])
  <2>1. /\ RowIsRight(faults, run[c]) /\ StraysAreOwn(strays, run[c])
        /\ run[c].nonce \in Nonces /\ run[c].began \in Nat /\ run[c].times \in Nat
        /\ run[c].heard \in Nat
        /\ run[c].began <= now /\ now <= run[c].began + TTL
    BY <1>3, ActiveFacts
  <2>2. Settled(faults, run[c].nonce, run[c].began)
    BY <2>1 DEF RowIsRight
  <2>3. StraysAreOwn(strays', run[c])
    BY <1>2, <2>1 DEF StraysAreOwn
  <2>4. CASE run[c].nonce # nonce
    <3>1. /\ Refusals(faults', run[c].nonce, run[c].began) = Refusals(faults, run[c].nonce, run[c].began)
          /\ Settled(faults', run[c].nonce, run[c].began)
      BY <1>1, <2>1, <2>2, <2>4, CountedElsewhere DEF IInv
    <3> QED
      BY <2>1, <2>3, <3>1 DEF RowIsRight
  <2>5. CASE run[c].nonce = nonce
    <3> DEFINE before == Refusals(faults, nonce, run[c].began)
               after  == Refusals(faults', nonce, run[c].began)
    <3>1. run[c].times = times /\ run[c].timedOut
      BY <1>1, <2>1, <2>5 DEF StraysAreOwn
    <3>2. before <= times /\ Given(run[c]) <= before
      BY <2>1, <2>5, <3>1 DEF RowIsRight
    <3>3. /\ Settled(faults', nonce, run[c].began) /\ after <= times
          /\ after = before + 1 \/ after = before
      BY <1>1, <2>1, <2>2, <2>5, <3>1, <3>2, CountedOwn DEF IInv
    <3>4. before \in Nat /\ Given(run[c]) \in Nat
      BY <2>1, PrunedRows DEF Refusals, IsOwn, IInv, Given
    <3> HIDE DEF before
    <3>5. Given(run[c]) <= after
      BY <3>2, <3>3, <3>4
    <3> QED
      BY <2>3, <2>5, <3>1, <3>3, <3>5 DEF RowIsRight
  <2> QED
    BY <2>4, <2>5
<1>4. \A c \in Active : InTime(run[c])'
  BY <1>1, ActiveFacts DEF InTime
<1> QED
  BY <1>1, <1>3, <1>4, NoneMoves

LEMMA TickKeeps ==
    ASSUME IInv, Tick
    PROVE  ActiveIsRight' /\ EndedIsRight' /\ Apart'
<1>1. ASSUME NEW c \in Active
      PROVE  InTime(run[c])'
  <2>1. /\ now' = now + 1 /\ now < run[c].began + Budget /\ run' = run
        /\ run[c].began <= now /\ run[c].began \in Nat
    BY ActiveFacts DEF Tick
  <2> QED
    BY <2>1, PrunedRows DEF InTime, IInv
<1>2. UNCHANGED <<faults, run, strays>>
  BY DEF Tick
<1> QED
  BY <1>1, <1>2, ActiveFacts, NoneMoves

LEMMA IdleKeeps ==
    ASSUME IInv, UNCHANGED vars
    PROVE  ActiveIsRight' /\ EndedIsRight' /\ Apart'
BY ActiveFacts, NoneMoves DEF vars, InTime

LEMMA NextRuns == IInv /\ [Next]_vars => IInv'
<1> SUFFICES ASSUME IInv, [Next]_vars
             PROVE  IInv'
  OBVIOUS
<1>1. Inv'
  BY NextInv DEF IInv
<1>2. ActiveIsRight' /\ EndedIsRight' /\ Apart'
  <2>1. CASE Reset
    BY <2>1, IdleKeeps DEF Reset, FaultsAfterReset, vars
  <2> QED
    BY <2>1, AskKeeps, HandleKeeps, HearKeeps, TimeOutKeeps, StrayKeeps, TickKeeps, IdleKeeps
       DEF Next
<1> QED
  BY <1>1, <1>2 DEF IInv

LEMMA RunsInvariant == Spec => []IInv
BY InitRuns, NextRuns, PTL DEF Spec

-----------------------------------------------------------------------------
\* docs/18-origin-retries.md: a client alone with its nonce, none of whose
\* attempts was timed out, is answered after exactly the refusals it asked for
\* or told of a failure because it asked for more than there are retries,
\* whatever others do, prune and reset meanwhile.
THEOREM RetriesFollow == Spec => []RetriesAsAsked
<1>1. IInv => RetriesAsAsked
  BY DEF IInv, EndedIsRight, EndIsRight, RetriesAsAsked
<1> QED
  BY <1>1, RunsInvariant, PTL

\* A client alone with its nonce never hears more refusals than it asked for,
\* however many of its attempts are timed out and counted late.
THEOREM NoMoreAsked == Spec => []NoMoreThanAsked
<1>1. ASSUME IInv
      PROVE  NoMoreThanAsked
  <2>1. ASSUME NEW c \in Active, run[c].alone
        PROVE  run[c].heard <= run[c].times
    <3>1. /\ RowIsRight(faults, run[c]) /\ run[c].heard \in Nat /\ run[c].times \in Nat
      BY <1>1, <2>1, ActiveFacts
    <3>2. Refusals(faults, run[c].nonce, run[c].began) \in Nat
      BY <1>1, PrunedRows DEF Refusals, IsOwn, IInv
    <3> QED
      BY <3>1, <3>2 DEF RowIsRight, Given
  <2>2. \A c \in Ended : run[c].alone => run[c].heard <= run[c].times
    BY <1>1 DEF IInv, EndedIsRight, EndIsRight
  <2> QED
    BY <2>1, <2>2 DEF NoMoreThanAsked
<1> QED
  BY <1>1, RunsInvariant, PTL
=============================================================================
