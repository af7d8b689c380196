---------------------------- MODULE KeyPairProofs ----------------------------
(***************************************************************************)
(* Proofs about the key pair, for any number of isolates and calls that    *)
(* interleave: pairs are pairs, a stored one that nobody is about to       *)
(* replace stays, and only a race splits the tokens.                       *)
(***************************************************************************)
EXTENDS KeyPair, TLAPS

\* A pair under way, or held by an isolate, is a pair.
Begun ==
    \A i \in Isolates :
        /\ call[i].phase \in {"generating", "answered"} => call[i].pair \in Pairs
        /\ cache[i].state = "loaded" => cache[i].pair \in Pairs

Typed == TypeOK /\ Begun

LEMMA InitTyped == Init => Typed
<1> SUFFICES ASSUME Init
             PROVE  Typed
  OBVIOUS
<1>1. 0 \in 0..MaxPairs
  BY KeyPairAssumption DEF KeyPairAssumption
<1> QED
  BY <1>1 DEF Init, Typed, TypeOK, Begun, NoCall, NoEntry, NoPair, Phases

LEMMA NextTyped == Typed /\ [Next]_vars => Typed'
<1> SUFFICES ASSUME Typed, [Next]_vars
             PROVE  Typed'
  OBVIOUS
<1>1. ASSUME NEW i \in Isolates, KeysFor(i)
      PROVE  Typed'
  BY <1>1 DEF KeysFor, Typed, TypeOK, Begun, Asked, Loading, NoPair, Phases
<1>2. ASSUME NEW i \in Isolates, Load(i)
      PROVE  Typed'
  BY <1>2 DEF Load, Typed, TypeOK, Begun, NoCall, Holding, NoPair, Phases
<1>3. ASSUME NEW i \in Isolates, LoadFails(i)
      PROVE  Typed'
  BY <1>3 DEF LoadFails, AfterFailure, Typed, TypeOK, Begun, NoCall, NoEntry, NoPair, Phases
<1>4. ASSUME NEW i \in Isolates, MintToken(i)
      PROVE  Typed'
  BY <1>4 DEF MintToken, Loaded, Typed, TypeOK, Begun
<1>5. ASSUME NEW i \in Isolates, Recycle(i)
      PROVE  Typed'
  BY <1>5 DEF Recycle, Typed, TypeOK, Begun, NoEntry, NoPair
<1>6. ASSUME NEW i \in Isolates, Read(i)
      PROVE  Typed'
  <2>1. UNCHANGED <<stored, strays, cache, minted>>
    BY <1>6 DEF Read
  <2>2. CASE HasPair /\ call' = [call EXCEPT ![i] = Answered(stored)] /\ UNCHANGED generated
    <3>1. stored \in Pairs
      BY <2>2 DEF HasPair, Typed, TypeOK
    <3> QED
      BY <2>1, <2>2, <3>1 DEF Typed, TypeOK, Begun, Answered, Phases
  <2>3. CASE /\ ~HasPair /\ generated < MaxPairs /\ generated' = generated + 1
             /\ call' = [call EXCEPT ![i] = Generating(generated')]
    <3>1. generated' \in Pairs /\ generated' \in 0..MaxPairs
      BY <2>3, KeyPairAssumption DEF KeyPairAssumption, Typed, TypeOK, Pairs
    <3> QED
      BY <2>1, <2>3, <3>1 DEF Typed, TypeOK, Begun, Generating, Phases
  <2> QED
    BY <1>6, <2>2, <2>3 DEF Read
<1>7. ASSUME NEW i \in Isolates, Keep(i)
      PROVE  Typed'
  BY <1>7 DEF Keep, Typed, TypeOK, Begun, Answered, Phases
<1>8. ASSUME NEW i \in Isolates, Fail(i)
      PROVE  Typed'
  BY <1>8 DEF Fail, Typed, TypeOK, Begun, Failed, NoPair, Phases
<1>9. ASSUME NEW i \in Isolates, Abandon(i)
      PROVE  Typed'
  BY <1>9 DEF Abandon, Typed, TypeOK, Begun, Failed, NoPair, Phases
<1>10. CASE StrayReads
  <2>1. UNCHANGED <<stored, call, cache, minted>> /\ strays.asked - 1 \in Nat
    BY <1>10 DEF StrayReads, Typed, TypeOK
  <2>2. CASE strays' = [strays EXCEPT !.asked = @ - 1] /\ UNCHANGED generated
    BY <2>1, <2>2 DEF Typed, TypeOK, Begun
  <2>3. CASE /\ generated < MaxPairs /\ generated' = generated + 1
             /\ strays' = [asked |-> strays.asked - 1,
                           generating |-> strays.generating \cup {generated'}]
    <3>1. generated' \in Pairs /\ generated' \in 0..MaxPairs
      BY <2>3, KeyPairAssumption DEF KeyPairAssumption, Typed, TypeOK, Pairs
    <3> QED
      BY <2>1, <2>3, <3>1 DEF Typed, TypeOK, Begun
  <2> QED
    BY <1>10, <2>2, <2>3 DEF StrayReads
<1>11. ASSUME NEW p \in Pairs, StrayKeeps(p)
       PROVE  Typed'
  BY <1>11 DEF StrayKeeps, Typed, TypeOK, Begun
<1>12. CASE UNCHANGED vars
  BY <1>12 DEF vars, Typed, TypeOK, Begun
<1> QED
  BY <1>1, <1>2, <1>3, <1>4, <1>5, <1>6, <1>7, <1>8, <1>9, <1>10, <1>11, <1>12 DEF Next

\* The storage, the calls, the caches and the tokens never hold but pairs that
\* were generated (keysFor, authPrivateJwk).
THEOREM TypeCorrect == Spec => []TypeOK
<1>1. Typed => TypeOK
  BY DEF Typed
<1> QED
  BY <1>1, InitTyped, NextTyped, PTL DEF Spec

-----------------------------------------------------------------------------
\* Nothing but a pair under way replaces the stored one, and none is begun.
LEMMA SettledStays ==
    ASSUME Typed, Settled, [Next]_vars
    PROVE  Settled' /\ stored' = stored
<1>1. stored # NoPair /\ strays.generating = {} /\ \A i \in Isolates : call[i].phase # "generating"
  BY DEF Settled, UnderWay
<1>2. ASSUME NEW i \in Isolates, Read(i)
      PROVE  call' = [call EXCEPT ![i] = Answered(stored)] /\ UNCHANGED <<stored, strays>>
  BY <1>1, <1>2 DEF Read, HasPair
<1>3. ASSUME NEW i \in Isolates, Keep(i)
      PROVE  FALSE
  BY <1>1, <1>3 DEF Keep
<1>4. ASSUME NEW p, StrayKeeps(p)
      PROVE  FALSE
  BY <1>1, <1>4 DEF StrayKeeps
<1>5. CASE StrayReads
  BY <1>1, <1>5 DEF StrayReads, HasPair, Settled, UnderWay, Typed, TypeOK
<1>6. ASSUME NEW i \in Isolates, Abandon(i)
      PROVE  UNCHANGED stored /\ strays'.generating = {} /\ call' = [call EXCEPT ![i] = Failed]
  BY <1>1, <1>6 DEF Abandon, Typed, TypeOK
<1>7. CASE \/ \E i \in Isolates : \/ KeysFor(i) \/ Load(i) \/ LoadFails(i) \/ MintToken(i)
                                 \/ Recycle(i) \/ Read(i) \/ Fail(i) \/ Abandon(i)
           \/ UNCHANGED vars
  <2>1. stored' = stored /\ strays'.generating = {}
    BY <1>1, <1>2, <1>6, <1>7 DEF vars, KeysFor, Load, LoadFails, MintToken, Recycle, Fail
  <2>2. \A i \in Isolates : call'[i].phase # "generating"
    BY <1>1, <1>2, <1>6, <1>7 DEF Typed, TypeOK, vars, KeysFor, Load, LoadFails, MintToken,
                                 Recycle, Fail, NoCall, Asked, Answered, Failed
  <2> QED
    BY <1>1, <2>1, <2>2 DEF Settled, UnderWay
<1> QED
  BY <1>3, <1>4, <1>5, <1>7 DEF Next

\* However the calls of the object interleave, a stored pair nobody is about to
\* replace is never replaced, and no other is begun (authPrivateJwk).
THEOREM PairStays == Spec => PairSettles
<1>1. Typed /\ [Next]_vars => (Settled => Settled' /\ stored' = stored)
  BY SettledStays
<1> QED
  BY <1>1, InitTyped, NextTyped, PTL DEF Spec, PairSettles

-----------------------------------------------------------------------------
\* One pair for all: what calls were answered with, isolates hold and tokens
\* were minted with is the stored one, and while one is generated no other is
\* stored.
OnePair ==
    /\ \A i \in Isolates :
          /\ call[i].phase = "answered" => call[i].pair = stored
          /\ call[i].phase = "generating" => stored \in {NoPair, call[i].pair}
          /\ Loaded(i) => cache[i].pair = stored
    /\ \A pair \in strays.generating : stored \in {NoPair, pair}
    /\ \A pair \in minted : pair = stored

LEMMA InitOne == Init => OnePair
BY DEF Init, OnePair, Loaded, NoCall, NoEntry

\* While nothing is stored nobody has a pair yet.
LEMMA NothingYet ==
    ASSUME Typed, OnePair, stored = NoPair
    PROVE  /\ \A i \in Isolates : call[i].phase # "answered" /\ ~Loaded(i)
           /\ minted = {}
<1>1. NoPair \notin Pairs
  BY DEF NoPair, Pairs
<1> QED
  BY <1>1 DEF Typed, TypeOK, Begun, OnePair, Loaded

LEMMA NextOne ==
    ASSUME Typed, OnePair, GeneratingAlone, [Next]_vars
    PROVE  OnePair'
<1> USE DEF Typed, TypeOK
<1>1. ASSUME NEW i \in Isolates, KeysFor(i)
      PROVE  OnePair'
  BY <1>1 DEF KeysFor, OnePair, Loaded, Asked, Loading
<1>2. ASSUME NEW i \in Isolates, Load(i)
      PROVE  OnePair'
  BY <1>2 DEF Load, OnePair, Loaded, NoCall, Holding
<1>3. ASSUME NEW i \in Isolates, LoadFails(i)
      PROVE  OnePair'
  BY <1>3 DEF LoadFails, AfterFailure, OnePair, Loaded, NoCall, NoEntry
<1>4. ASSUME NEW i \in Isolates, MintToken(i)
      PROVE  OnePair'
  BY <1>4 DEF MintToken, OnePair, Loaded
<1>5. ASSUME NEW i \in Isolates, Recycle(i)
      PROVE  OnePair'
  BY <1>5 DEF Recycle, OnePair, Loaded, NoEntry
<1>6. ASSUME NEW i \in Isolates, Read(i)
      PROVE  OnePair'
  BY <1>6 DEF Read, HasPair, OnePair, Loaded, Answered, Generating
<1>7. ASSUME NEW p \in UnderWay, stored' = p, UNCHANGED <<cache, minted>>,
             strays'.generating \subseteq strays.generating,
             \A j \in Isolates :
                /\ call'[j].phase = "answered" => call'[j].pair = p \/ call'[j] = call[j]
                /\ call'[j].phase = "generating" => call'[j] = call[j]
      PROVE  OnePair'
  <2>1. stored \in {NoPair, p}
    BY <1>7 DEF UnderWay, OnePair
  <2>2. \A q \in strays'.generating : q = p
    BY <1>7 DEF UnderWay, GeneratingAlone
  <2>3. \A j \in Isolates : call'[j].phase = "generating" => call'[j].pair = p
    BY <1>7 DEF UnderWay, GeneratingAlone
  <2>4. CASE stored = NoPair
    <3>1. /\ \A j \in Isolates : call[j].phase # "answered" /\ ~Loaded(j)
          /\ minted = {}
      BY <2>4, NothingYet
    <3> QED
      BY <1>7, <2>2, <2>3, <3>1 DEF OnePair, Loaded
  <2>5. CASE stored = p
    BY <1>7, <2>2, <2>3, <2>5 DEF OnePair, Loaded
  <2> QED
    BY <2>1, <2>4, <2>5
<1>8. ASSUME NEW i \in Isolates, Keep(i)
      PROVE  OnePair'
  <2>1. call[i].pair \in UnderWay
    BY <1>8 DEF Keep, UnderWay
  <2> QED
    BY <1>7, <1>8, <2>1 DEF Keep, Answered
<1>9. ASSUME NEW i \in Isolates, Fail(i)
      PROVE  OnePair'
  BY <1>9 DEF Fail, OnePair, Loaded, Failed
<1>10. ASSUME NEW i \in Isolates, Abandon(i)
       PROVE  OnePair'
  BY <1>10 DEF Abandon, OnePair, Loaded, Failed
<1>11. CASE StrayReads
  BY <1>11 DEF StrayReads, HasPair, OnePair, Loaded
<1>12. ASSUME NEW p \in Pairs, StrayKeeps(p)
       PROVE  OnePair'
  <2>1. CASE stored' = p
    <3>1. p \in UnderWay
      BY <1>12 DEF StrayKeeps, UnderWay
    <3> QED
      BY <1>7, <1>12, <2>1, <3>1 DEF StrayKeeps
  <2>2. CASE stored' = stored
    BY <1>12, <2>2 DEF StrayKeeps, OnePair, Loaded
  <2> QED
    BY <1>12, <2>1, <2>2 DEF StrayKeeps
<1>13. CASE UNCHANGED vars
  BY <1>13 DEF vars, OnePair, Loaded
<1> QED
  BY <1>1, <1>2, <1>3, <1>4, <1>5, <1>6, <1>8, <1>9, <1>10, <1>11, <1>12, <1>13 DEF Next

\* Two pairs come of nothing but two calls that generate at once: as long as
\* there are none, every token verifies in every isolate, for any number of
\* isolates, pairs, failures and lost answers (keysFor, authPrivateJwk).
THEOREM OnlyARaceSplits == Spec => VerifyUnlessRaced
<1>1. Typed /\ OnePair => TokensVerifyEverywhere
  BY DEF OnePair, TokensVerifyEverywhere
<1>2. Typed /\ OnePair /\ GeneratingAlone /\ [Next]_vars => OnePair'
  BY NextOne
<1> QED
  BY <1>1, <1>2, InitTyped, NextTyped, InitOne, PTL DEF Spec, VerifyUnlessRaced
=============================================================================
