------------------------------- MODULE KeyPair -------------------------------
(***************************************************************************)
(* The key pair tokens are minted with, when none is configured: the       *)
(* Durable Object generates one once (authPrivateJwk), every isolate of    *)
(* the Worker asks it for the pair and keeps what it got (keysFor).  The   *)
(* object runs one turn at a time, and other calls run while a call waits  *)
(* for the pair to be generated.  A pair is a number, its private and its  *)
(* public half and its kid at once, for each is derived from the other.    *)
(***************************************************************************)
EXTENDS Integers, FiniteSets

CONSTANTS
    Isolates,  \* the isolates of the Worker
    MaxPairs,  \* bound: how many pairs are generated
    MaxStrays  \* bound: how many calls go on at once that nobody waits for

ASSUME KeyPairAssumption == {MaxPairs, MaxStrays} \subseteq Nat

VARIABLES
    stored,     \* AUTH_KEY of the object's storage
    generated,  \* how many pairs there have been
    call,       \* each isolate's call of authPrivateJwk
    strays,     \* calls that go on though their isolate heard of a failure: how
                \* many have yet to read, and the pairs the others generate
    cache,      \* each isolate's keyCache entry
    minted      \* the pairs tokens have been minted with

vars == <<stored, generated, call, strays, cache, minted>>

NoPair == 0
Pairs  == 1..MaxPairs

NoCall         == [phase |-> "none",       pair |-> NoPair]
Asked          == [phase |-> "asked",      pair |-> NoPair]
Generating(p)  == [phase |-> "generating", pair |-> p]
Answered(p)    == [phase |-> "answered",   pair |-> p]
Failed         == [phase |-> "failed",     pair |-> NoPair]

NoEntry     == [state |-> "none",    pair |-> NoPair]
Loading     == [state |-> "loading", pair |-> NoPair]
Holding(p)  == [state |-> "loaded",  pair |-> p]

Init ==
    /\ stored = NoPair
    /\ generated = 0
    /\ call = [i \in Isolates |-> NoCall]
    /\ strays = [asked |-> 0, generating |-> {}]
    /\ cache = [i \in Isolates |-> NoEntry]
    /\ minted = {}

-----------------------------------------------------------------------------
(* An isolate. *)

\* The first request that needs the pair; those after it wait for its promise.
KeysFor(i) ==
    /\ cache[i] = NoEntry
    /\ call[i] = NoCall
    /\ cache' = [cache EXCEPT ![i] = Loading]
    /\ call' = [call EXCEPT ![i] = Asked]
    /\ UNCHANGED <<stored, generated, strays, minted>>

\* Mutant: a token is minted with a pair that is still on its way.
LoadedOrLoading(i) == cache[i].state # "none"

Loaded(i) == cache[i].state = "loaded"

Load(i) ==
    /\ call[i].phase = "answered"
    /\ cache' = [cache EXCEPT ![i] = Holding(call[i].pair)]
    /\ call' = [call EXCEPT ![i] = NoCall]
    /\ UNCHANGED <<stored, generated, strays, minted>>

\* Mutant: the rejected promise stays in the cache.
AfterFailureKept(i) == cache

\* The catch handler drops the entry, so that the next request asks again.
AfterFailure(i) == [cache EXCEPT ![i] = NoEntry]

LoadFails(i) ==
    /\ call[i].phase = "failed"
    /\ cache' = AfterFailure(i)
    /\ call' = [call EXCEPT ![i] = NoCall]
    /\ UNCHANGED <<stored, generated, strays, minted>>

MintToken(i) ==
    /\ Loaded(i)
    /\ minted' = minted \cup {cache[i].pair}
    /\ UNCHANGED <<stored, generated, call, strays, cache>>

\* The platform ends the isolate, and with it its module state.
Recycle(i) ==
    /\ Loaded(i)
    /\ cache' = [cache EXCEPT ![i] = NoEntry]
    /\ UNCHANGED <<stored, generated, call, strays, minted>>

-----------------------------------------------------------------------------
(* The object. *)

\* Mutant: the pair is looked for under another name than it is put under.
HasPairElsewhere == FALSE

HasPair == stored # NoPair

\* Up to the first await that lets others in: the pair is there, or is begun.
Read(i) ==
    /\ call[i].phase = "asked"
    /\ \/ /\ HasPair
          /\ call' = [call EXCEPT ![i] = Answered(stored)]
          /\ UNCHANGED generated
       \/ /\ ~HasPair
          /\ generated < MaxPairs
          /\ generated' = generated + 1
          /\ call' = [call EXCEPT ![i] = Generating(generated')]
    /\ UNCHANGED <<stored, strays, cache, minted>>

Keep(i) ==
    /\ call[i].phase = "generating"
    /\ stored' = call[i].pair
    /\ call' = [call EXCEPT ![i] = Answered(call[i].pair)]
    /\ UNCHANGED <<generated, strays, cache, minted>>

\* The object, or the way to it, fails: before the put, which is then undone,
\* or after it, and the answer is lost.
Fail(i) ==
    /\ call[i].phase \in {"asked", "generating", "answered"}
    /\ call' = [call EXCEPT ![i] = Failed]
    /\ UNCHANGED <<stored, generated, strays, cache, minted>>

\* The isolate hears of a failure, and its call of the object goes on.
Abandon(i) ==
    /\ strays.asked + Cardinality(strays.generating) < MaxStrays
    /\ \/ /\ call[i].phase = "asked"
          /\ strays' = [strays EXCEPT !.asked = @ + 1]
       \/ /\ call[i].phase = "generating"
          /\ strays' = [strays EXCEPT !.generating = @ \cup {call[i].pair}]
    /\ call' = [call EXCEPT ![i] = Failed]
    /\ UNCHANGED <<stored, generated, cache, minted>>

\* A stray call reads, as any other, or ends.
StrayReads ==
    /\ strays.asked > 0
    /\ \/ /\ strays' = [strays EXCEPT !.asked = @ - 1]
          /\ UNCHANGED generated
       \/ /\ ~HasPair
          /\ generated < MaxPairs
          /\ generated' = generated + 1
          /\ strays' = [asked |-> strays.asked - 1,
                        generating |-> strays.generating \cup {generated'}]
    /\ UNCHANGED <<stored, call, cache, minted>>

\* It puts its pair, or ends before.
StrayKeeps(p) ==
    /\ p \in strays.generating
    /\ strays' = [strays EXCEPT !.generating = @ \ {p}]
    /\ stored' \in {p, stored}
    /\ UNCHANGED <<generated, call, cache, minted>>

Next ==
    \/ \E i \in Isolates :
          \/ KeysFor(i) \/ Load(i) \/ LoadFails(i) \/ MintToken(i) \/ Recycle(i)
          \/ Read(i) \/ Keep(i) \/ Fail(i) \/ Abandon(i)
    \/ StrayReads
    \/ \E p \in Pairs : StrayKeeps(p)

Spec == Init /\ [][Next]_vars

\* The object takes its calls in the end, and an isolate what came of them.
FairSpec ==
    /\ Spec
    /\ \A i \in Isolates : /\ WF_vars(Read(i) \/ Keep(i) \/ Fail(i) \/ Abandon(i))
                          /\ WF_vars(Load(i) \/ LoadFails(i))

-----------------------------------------------------------------------------
Phases == {"none", "asked", "generating", "answered", "failed"}

TypeOK ==
    /\ stored \in Pairs \cup {NoPair}
    /\ generated \in 0..MaxPairs
    /\ call \in [Isolates -> [phase: Phases, pair: Pairs \cup {NoPair}]]
    /\ strays \in [asked: Nat, generating: SUBSET Pairs]
    /\ cache \in [Isolates -> [state: {"none", "loading", "loaded"}, pair: Pairs \cup {NoPair}]]
    /\ minted \subseteq Pairs

\* "Every isolate reads that same pair back" (worker.ts, keysFor): a token
\* minted anywhere verifies wherever the key set is fetched or a token checked,
\* now and after isolates are recycled, calls fail and answers are lost.
TokensVerifyEverywhere ==
    \A pair \in minted, i \in Isolates : Loaded(i) => cache[i].pair = pair

\* And that is the only way: as long as no two calls of the object generate at
\* once, one that nobody waits for any more among them, whatever else fails, is
\* lost, recycled or asked in between, a token minted anywhere verifies
\* everywhere (authPrivateJwk).
UnderWay ==
    {call[i].pair : i \in {j \in Isolates : call[j].phase = "generating"}} \cup strays.generating

GeneratingAlone == \A p, q \in UnderWay : p = q

VerifyUnlessRaced == []GeneratingAlone => []TokensVerifyEverywhere

\* What holds of the code however calls of the object interleave: once a pair
\* is stored and nobody is generating one, no pair is generated or stored any
\* more, so the isolates that load from then on all hold that one.
Settled == stored # NoPair /\ UnderWay = {}

PairSettles == [][Settled => Settled' /\ stored' = stored]_vars

\* A load that fails is not kept, and one that does not is: no isolate goes on
\* answering with a promise that is never going to be a pair.
LoadsEnd == \A i \in Isolates : cache[i] = Loading ~> cache[i] # Loading
=============================================================================
