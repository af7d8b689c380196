# graphpilot-demo-api: specifications and proofs

TLA+ specifications of the demo origin in `src/`, TLC configurations that check
them on small instances, and TLAPS proofs of what holds for every instance. The
program is a GraphQL API over a small catalogue. It runs as a Cloudflare Worker
with a Durable Object behind it (`src/src/worker.ts`), or as a Node server with
the catalogue in memory (`src/src/node.ts`), and it stands behind an edge that
signs, caches and retries requests. What makes it hard is not the catalogue but
what is around it: a reset that skips itself when nothing changed, a memo that
must never be older than a request may see, counters that several actors move,
a key pair that every isolate must share, and a row of checks, each an await,
that a request passes while the edge gives it up and sends it again.

Paths below are relative to `src/src/`.

## 1. The system

| Component | State | Operations | What is hard |
|---|---|---|---|
| Memory store (`store/memory-store.ts`) | one catalogue object; one row per fault nonce | five writes (`setPrice`, `addReview`, `reserveStock`, `renameCategory`, `reset`), the reads, `consumeFault` | counts of any sign; ids counted from a list that shrinks; a change only shows by its stamp |
| Durable Object store (`store/durable-object-store.ts`) | four catalogue tables, the `catalogue_state` row, the fault rows, `AUTH_KEY`; whether an instance is in memory | the same port in SQL, the constructor with `#seed`, `#dirty` and `#markDirty`, `authPrivateJwk` | statements that throw between others; eviction, restart and release; a mark that is wrong silently; calls that interleave at an await |
| Request-scoped store (`store/request-scoped-store.ts`) | per request, a promise for each read asked | `#read`, `#write`, `forRequest` | answers and failures in any order around a write; a late failure; a memo shared by mistake |
| Requested failures (`fault.ts`, `consumeFault`) | how often each nonce was refused, and since when | one attempt counted and answered | shared and reused nonces, pruning by anybody's call, attempts that come late, a reset in between |
| Keys (`auth/keys.ts`, `keysFor` in `worker.ts`) | the stored pair; per isolate, a promise for it | `authPrivateJwk`, `keysFor`, `mintToken` | two isolates at once, failed loads, recycled isolates |
| Entry points (`worker.ts`, `node.ts`) | none of their own but the caches; on Node, the store and the keys are the process's | `fetch`: signature, health, reset, keys, token, delay, fault, claims, Yoga, in that order; Node answers the same paths in another order | what a refused attempt has done already; attempts given up that go on; a process that ends between two checks; where the two differ |
| Signature (`signing/`) | none | `verifyOriginSignature` | two spellings of the pair, each whole or half; the two-sided window against an edge that replays its first signature |
| Claims and endpoints (`auth/`) | none | `claimsFromAuthorization`, `handleTokenRequest`, `handleJwksRequest` | anonymous, verified or refused |
| Misbehaviour (`misbehave.ts`) | none | headers to behaviour, only on a cache key of its own | an answer with a lever's headers that the edge stores and gives to somebody else; what may stand in a header |
| Resolvers, schema, sized responses (`resolvers/`, `schema.ts`, `sized.ts`) | none; they forward to the store of the request | queries and mutations | paging and fragment edges |
| Seed (`data/seed.ts`) | none: `seed()` returns a fresh catalogue | | |

They interact as follows. A request enters an entry point, which may read the
key pair (an isolate's cache, or a call of the Durable Object) and may count a
requested failure in the store before GraphQL runs. Yoga then builds one context
per request; `forRequest` finds that request's memo by the context; the
resolvers call the memo, and the memo calls the store, which in the Worker is a
remote call of one Durable Object shared by all isolates. The edge is the only
client: it times attempts out and sends new ones.

What makes each component correct:

* *Stores.* Stock never goes below nothing; review ids never repeat; a change
  carries a stamp; a reset that answers ok leaves the seed; the tables with
  their mark behave as the plain catalogue; an object out of memory comes back.
* *Memo.* No answer older than the request may count on; no promise from before
  a write handed to a read asked after it; one round trip per call between
  writes; failures not kept; everyone who waits is told.
* *Failures.* A caller alone with its nonce gets the refusals it asked for and
  never more; no counter passes what may be asked.
* *Keys.* A token minted anywhere verifies everywhere; a stored pair stays; no
  load hangs for good.
* *Entry points.* A refused attempt has changed nothing, so sending it again
  writes once; nothing is written for who is not admitted; every attempt ends.
* *Signature.* Only what the edge signed passes, and what it signed passes for as
  long as it may replay it.
* *Misbehaviour.* Nobody gets a lever's headers who did not ask for the very entry
  of the edge's cache that somebody asked for who named its nonce.
* *Reads.* Both stores answer one feed; following a cursor shows each product once.

## 2. The modules

| Module | Models |
|---|---|
| `CatalogueData` | the records of `store/port.ts`: rows, a whole catalogue, answers and refusals |
| `Catalogue` | what the port promises of its writes; `MemoryStore`'s writes, one action each, and a restart of the process |
| `DurableCatalogue` | `CatalogueObject`: constructor, `#seed`, the mark, every write, eviction, release |
| `RequestMemo` | `RequestScopedStore` and `forRequest`, over a store that answers when it likes |
| `FaultCounter` | `consumeFault` of both stores, as operators |
| `FaultRetries` | callers, the retrying edge (external) and late attempts around `FaultCounter` |
| `CatalogueReads` | the activity feed of the catalogue, as each of the two stores orders it |
| `ProductPages` | `Query.products`, and a client (external) that follows its cursors while the catalogue is written |
| `OriginHeaders` | what is read off a request's headers: signature, requested failure, requested misbehaviour and its scope |
| `Origin` | `fetch` of the Worker and the handler of Node, check by check, between a signing, retrying, storing edge (external) and processes that end |
| `KeyPair` | `authPrivateJwk`, `keysFor`, minting, isolates that come and go |
| `MC*` | the constants of the TLC instances |
| `*Proofs` | the theorems of section 4 |

`DurableCatalogue` composes with `Catalogue` by refinement (`Port == INSTANCE
Catalogue WITH ...`), `FaultRetries` and `Origin` extend `FaultCounter`, one for the
sequences a caller asks for, the other for the checks around the counter;
`Origin` extends `OriginHeaders`, `CatalogueReads` extends `Catalogue`, and
`ProductPages` extends `CatalogueReads` with a client whose steps interleave with
the catalogue's. The others share no state: the fault rows and `AUTH_KEY` are kept in the same Durable Object as the
catalogue, but no operation touches two of the three (`reset` leaves the fault
rows alone, which `FaultsAfterReset` says).

Definitions named in a comment that starts with `Mutant` are variants of the
definition below them with a plausible mistake in it. No specification uses
them; they show, one for each property, that the property fails when the code
has that mistake.

### 2.1 Catalogue

`catalogue` and `reply` stand for `#catalogue` and the promise a method returns.
Each method is an action whose disjuncts are its early throws and its return.
A review id is a kind, a number and a product: `r01` is seeded, `r-<n>-<product>`
is added with `n` counted from the list. Fields that no write changes (names,
ratings, a product's category) are left out, as are the reads.

### 2.2 DurableCatalogue

The object runs one call at a time, and the awaits inside its methods are on
promises that have settled, so no call is delivered between two statements of a
method. A crash loses or keeps all the writes of a turn. A statement that
*throws* is different: the statements before it stay written, because no method
opens a transaction. A method is therefore one action that ends with the
database as its last statement left it or, where `FailingOps` lets a statement
of it throw, as any earlier one did: a write may so be kept without its mark, or be
kept and marked with an error for an answer, where the row cannot be read back.
The actions are `Construct` (with
`SeedCompletes` and `SeedStops`), `Evict`, `Deploy` (a release, which may
change `seed()`), and the five methods. `flag` is the `catalogue_state` row:
absent, clean or dirty. An INSERT that meets its own primary key always throws
(`Fits`), whether or not `FailingOps` says so.

`Held` is the refinement mapping: an object with no products yet stands for the
seed that its constructor is going to insert, any other for its tables.

### 2.3 RequestMemo

The store's content is the number of writes it has done. A round trip records
the version as it was made (`from`), the value it was answered with, and for its
last caller what that caller may count on: `floor`, the version as its request
began or its last write returned, and `last`, the trips made by then. A trip is
sent, then answered or refused by the store, then settles in the isolate:
resolved, or rejected and, once the `catch` handler of `#read` has run, failed.
Writes pass through and empty the memo before and after (`EmptiedBefore`,
`EmptiedAfter`; the second is in a `finally`). A refused write may have been
done all the same. A request of another isolate is one more
member of `Requests`: it shares nothing with this one but the store.

### 2.4 FaultCounter and FaultRetries

`Pruned` is the DELETE (or the loop) by age that every call begins with;
`Refuses` compares the row's count with what this call asks; `Counted` is the
row after a refusal. `ConsumeFault` is the method. `FaultRetries` adds the
clock, callers that run a sequence through the edge, and attempts the edge has
given up that reach the origin later (`HandleStray`). Of the edge it keeps what
`gpilot.toml` and `docs/18-origin-retries.md` say: so many retries, a time
budget per request, a retry after a refusal or a timeout.

### 2.5 KeyPair

`authPrivateJwk` reads the storage, awaits `generateKeys()` and puts. The await
is on WebCrypto, not on storage, so other calls of the object are delivered
while it waits: the method is two actions, `Read` and `Keep`. `KeysFor`, `Load`
and `LoadFails` are `keysFor` with its cache of promises and its `catch` handler;
`Fail` is a call that ends in an error before or after the put. An isolate may
also hear of an error while its call of the object goes on (`Abandon`); such a stray
call still reads, generates and puts (`StrayReads`, `StrayKeeps`). `Recycle` ends
an isolate. A configured `AUTH_PRIVATE_JWK` is one pair for all and needs none of
this.

### 2.6 OriginHeaders and Origin

A header is absent, junk, digits, digits with something after them, a nonce of an
accepted length, a value or a list of names: the cases the parsers tell apart
(`parseInt` takes `3x` for a count, and a delay refuses it). HMAC and SHA-256 are
injective: a seal is the key with method, path, body and time. Of a body the model
keeps what its operation is and which words it holds, in two places: those of the
document and its variables (`holds`), and those of its other members, `extensions`,
`operationName` or one nobody knows (`rest`). `isInScope` looks through both, the
edge's key is made of the first (`KeyOf`).

`WorkerOrder` and `NodeOrder` are the checks of the two handlers in the order of
the code, and an attempt's `at` is the check it stands before. `Concerns` is
the condition by which a check has anything to do for a request; a request
without it falls through, with no await, so `From` and `After` go to the next
check that concerns it. Each check is an action: `Configured`, `Guard`,
`Health`, `AdminReset`, `LoadKeys`, `Jwks`, `Token`, `NotFound`, `Delay`,
`SetHeaders` (Node alone), `Fault`, `Claims`, `Yoga`. What may fail in it
(`keysFor`, a call of the Durable Object) may fail, its effect done or not. An
attempt remembers whether its signature was verified, whether it was counted as
refused, and whether it wrote.

Where the two entry points differ, `Origin` follows each: the Worker counts a
requested failure only at `/graphql`, Node on every path but `/health`, signed or
not; the Worker checks claims at `/graphql` only, Node for whatever reaches
Yoga; Node has no `/admin/reset`; Node sets a lever's headers before it goes on,
so they are also on its 401.

The edge (`Ask`, `Hear`, `TimeOut`, `Tick`) is external. It signs once and replays
the same bytes, retries a gateway status and a silence as far as `gpilot.toml`
says, and may store the answer to a query, unless a cookie comes with it, and serve
it to the same document with the same variables. An attempt it has given up goes on in
the origin. `Restart` ends a process: open attempts die, and on Node the counters go.
Whether a token verifies is left open (`Claims`): it depends on the pair of the process
that checks it, which is what `KeyPair` is about.

### 2.7 CatalogueReads and ProductPages

`Listing` is the order of `seed()`, which is that of the product ids: `Place`
compares two ids. `MemoryOrders` is what pushing the products and then the stock
and sorting with `newestFirst` may give: a stable sort leaves what the comparison
does not tell apart in the order it was pushed. `SqlOrders` is any order of the
rows that `ORDER BY` allows. Both are sets, of which `FeedsAgree` says that they
have one and the same feed, whether it is cut by `slice` (`MemoryActivity`) or
`LIMIT` (`SqlActivity`).

`Page` is `slice` with its treatment of numbers below 0 and `findIndex` with its
-1. `Open` is a client that begins a list, of all products or of a category's,
without a cursor or with one the list does not hold; `Turn` asks for the page
behind the last product it was shown. The steps of `Catalogue` come in between.

## 3. What the runs check

| Run | Instance | Shows |
|---|---|---|
| `catalogue` | 3 products of which 1 has stock, a product id and a category id nobody holds, 2 prices, counts 1 and 2, at most 3 reviews, restarts; a client that pages through all 3 products or 2 of them, 2 at a time | stock, review ids and stamps, after any sequence of writes, resets and restarts; one feed from both stores; pages show all once |
| `durable_refines` | one seed, tables from before the mark, counts 0 and 1, no statement throws | `ImplementsPort` and `ComesBack` |
| `durable_failing_construct` | as above, any statement of the constructor may throw | the mark is right, an object without products is empty, a reset leaves the seed |
| `durable_all_failing` | two seeds, any statement of any operation may throw | review ids still never repeat, nothing is sold twice, and no change is without its stamp |
| `memo` | 2 requests, 1 call, 3 round trips | answers are fresh, one load per call, its promise is kept, no failure is, reads follow writes, everyone is told |
| `fault_retries` | 2 callers, 2 nonces, 1 or 3 refusals asked of 2 retries, 1 stray, lifetime 1, clock to 3 | `RetriesAsAsked`, `NoMoreThanAsked`, `CountsBounded` |
| `key_pair` | 3 isolates, 3 pairs, 2 stray calls | a stored pair stays; tokens verify everywhere unless two calls generate at once; no load hangs |
| `origin` | 8 deployments (5 of the Worker or Node with 23 requests, 3 with two calls that meet at the counter or in the cache), 1 retry, 1 restart, a clock to 1 | `WrittenOnce`, `ChangesAreAdmitted`, `OnlyTheEdgesPass`, `EdgeIsHeard`, `LeversFollowTheKey`, `EveryAttemptEnds` |
| `durable_new_seed`, `durable_bricked`, `key_pair_race`, `nonce_beside` | | disagreements of section 6 |

Three more configurations are kept beside the runs, to be run by hand; in each TLC
finds the one property it states violated. `DurableKeptWrite.cfg` and
`DurableHalfReset.cfg` let `setPrice` or `reset` throw and state
`ResetLeavesTheSeed`, the other ways, beside `durable_new_seed`, in which that
property is lost; `EchoHeaders.cfg` states `HeadersArePrintable`.

**Bounds.** `MaxReviews`, `MaxTrips`, `MaxPairs`, `Horizon`, `MaxStrays` and
`MaxRestarts` cap counters (`MaxRetries` and `Budget` are the edge's own); each is a guard of the one action that moves the
counter. They are large enough for the case each property is about. Three
reviews leave room to add, reset and add again, and to add to what a stopped
reset left. The longest failure of the memo takes three round trips: a read, a
write while it is under way, and a second read that takes the slot before the
first one's late failure; with two requests the same trips are also a write of
one under a read of the other. A clock of 3 with a lifetime of 1 lets a nonce be used, forgotten and
used again with time still to pass, while another nonce's calls prune; 3 refusals
asked of 2 retries is the case where the edge gives up. Three isolates are two
that race for a pair and one that comes later.

In `origin` the requests hold one for each thing a check looks at, asked one at a
time of the deployments in which the checks differ; pairs of calls are added only
where two calls can meet, at the counter and in the edge's cache. Time is
counted in ticks with the proportions of the code: a budget of 1 and a clock error
of 1 just fill a window of 2 (`Budget + ClockError <= Skew`, which 120 and 300
seconds satisfy with 180 to spare), so that a window one tick shorter is noticed.
One retry and one restart give an attempt under way, its successor and a process
that ends between them. In `catalogue` pages of 2 end within a list of 3 and
at the end of a list of 2, the case where one more page must be empty; two moments
and three products give feeds with ties between products and between the two
entries of one.

**Symmetry** is used over isolates, callers, nonces and requests, and only in
runs without liveness. **Deadlock** is not checked where a behaviour may end:
the counters above stop it, and a program nobody calls does nothing.

**Fairness.** `ComesBack` assumes `WF(Construct)`: a call of an object that is
not in memory makes the platform construct it, and callers keep calling.
`EveryCallEnds` assumes that a round trip is answered or fails, and that the
isolate runs its promise jobs; no request is obliged to ask anything, and no
failure is excluded. `LoadsEnd` assumes the same of calls of the key pair.
`EveryAttemptEnds` assumes that handlers go on, one of all the attempts at a time:
what they await settles, for the delay is a timer and the calls of the store are
answered or fail. Nothing is assumed of the edge.
Eviction, release and failure are never obliged to happen nor to stop.

## 4. What is proved

For any seed, ids, counts, requests, isolates, callers and bounds:

| Theorem | Says | Assumes |
|---|---|---|
| `CatalogueProofs!TypeCorrect`, `StockHolds` | the catalogue is well formed; stock is never negative | nothing |
| `CatalogueProofs!StampsHold` | a change carries a stamp | inherited tables, if any, are stamped themselves, and the clock gives no timestamp the seed has |
| `CatalogueReadsProofs!FeedsHold` | each store has one feed, and they are the same wherever cut | nothing |
| `CatalogueReadsProofs!PagesKeepTheStore` | a catalogue with a client that pages is a catalogue | nothing |
| `CatalogueReadsProofs!PagesHold` | following cursors shows every product once, in order and to the end | inherited tables, if any, hold the seed's products |
| `DurableCatalogueProofs!TypeCorrect` | tables, mark and replies are well formed | nothing |
| `DurableCatalogueProofs!ReviewIdsNeverClash`, `StockHolds` | review ids never repeat and stock is never negative, whatever throws and whatever is released | nothing |
| `DurableCatalogueProofs!StampsHold` | whatever throws and whatever is released, no value that no release has seeded carries a seeded stamp | older tables are stamped, and the clock gives no timestamp a seed has |
| `DurableCatalogueProofs!CleanMarkIsRight` | a clean mark is only found on a seed | no statement but the constructor's throws |
| `CatalogueProofs!ReviewIdsApart` | review ids never repeat in the plain store | each seed's ids are distinct and numbered within its count |
| `DurableCatalogueProofs!UnseededFits` | tables without products are empty | no statement but the constructor's throws |
| `DurableRefinementProofs!ResetRestores` | a reset that answers ok leaves the seed | the same, and one seed |
| `DurableRefinementProofs!DurableImplementsPort` | `DurableCatalogue` implements `Catalogue` under `Held` | one seed, and no statement throws |
| `RequestMemoProofs!TypeCorrect`, `AnswersFresh`, `OneLoadEach`, `FailuresForgotten`, `ReadsFollow`, `CurrentKept` | the memo's six safety properties | nothing |
| `FaultProofs!TypeCorrect`, `CountersBounded` | counters are well formed and pass no more than may be asked | nothing |
| `FaultProofs!RetriesFollow`, `NoMoreAsked` | a client alone with its nonce gets the refusals it asked for, and never more | nothing |
| `OriginProofs!TypeCorrect` | calls, attempts and counters are well formed | nothing |
| `OriginProofs!WritesOnce` | a call whose attempts were all heard of writes at most once | nothing |
| `OriginProofs!ChangesAdmitted` | nothing is written, or on the Worker counted, past the guard | nothing |
| `OriginProofs!LeversFollow` | the levers of an answer are those of somebody who named their nonce and asked for the same entry of the edge's cache | nothing |
| `OriginProofs!ScopedWhereKeyed` | an answer with levers goes to who named the nonce | a request that is answered with levers names their nonce in its document or variables: what `nonce_beside` breaks |
| `OriginProofs!EdgeAlonePasses` | the guard passes only what the edge signed, in the window | nothing (HMAC and SHA-256 are injective in the model) |
| `OriginProofs!EdgeHeard` | what the edge signed is not turned down within its budget | nothing (budget and clock error fit the window, as `OriginAssumption` says) |
| `KeyPairProofs!TypeCorrect`, `PairStays` | pairs are pairs; a stored one stays | nothing |
| `KeyPairProofs!OnlyARaceSplits` | every token verifies everywhere | never do two calls of the object generate at once: the exact condition that `key_pair_race` breaks |

"Nothing" means nothing but the named `ASSUME`s of the module, which say what
the constants are. The hypotheses of the durable theorems are not decoration.
With `"setPrice"` among `FailingOps`, TLC finds a write that is kept while its
mark is not, and a reset that then skips (`DurableKeptWrite.cfg`). With `"reset"` it finds two
resets that stop, a review added in between, and a constructor that seeds beside
that review and marks the result clean (`DurableHalfReset.cfg`). With two seeds a reset
leaves the old one (`durable_new_seed`).

### The arguments

*Review ids.* "The next number is free" is not inductive when resets and
constructions may stop halfway. What is: every added review has a number no
greater than the length of the list (`Numbered`), seeded ids are of another kind,
and seeded reviews are only inserted into a list that has none of them, because
an INSERT that would repeat one throws.

*The feed.* No induction is needed to say that a finite set has one arrangement
along an order. `FeedOrderStrict` shows that the comparison is a strict total order
of the entries, ties included; an element's place is then how many stand before it
(`PlaceIsRank`), so an arrangement exists (`ArrangementExists`) and is the only one
(`ArrangementUnique`). `MemoryOrders` and `SqlOrders` are the arrangements of one
set along one order (`OrdersAlong`), and `CutAlike` compares the two ways to cut.

*The pages.* The same lemmas give every list its one order (`ProductsOf`). The
invariant says that what the client was shown is the beginning of its list and
that its cursor is the last of that, or names nothing the list holds
(`PageFrom`, `StartBehind`: the next page begins right behind it). Writes, resets and
restarts keep the products and so the lists (`StorePlays`), which is why inherited
tables must hold the seed's: a reset would otherwise change a list under its reader.

*The mark.* A clean mark is written last, after a whole `#seed`, and every write
marks the catalogue dirty in the same turn. The invariant couples `flag` with
`tables` and needs that an object without products is empty (`UnseededIsEmpty`),
so that what the constructor inserts is the seed and nothing beside it.

*Stock and stamps, whatever throws.* These two do not need the mark. A change and its
stamp are one UPDATE, which is there or not; every row of `#seed` is a seed's
(`SeedingKeepsStamps`), wherever it stops. So the feed tells of a change even when
`#markDirty` failed after it, and the reset that then skips is the mark's fault alone.

*The refinement.* `PortAssumption` says that what `Catalogue` takes for granted is so
of the object's data, so that its theorems speak of the object. Each step maps to a step of `Catalogue` or to a stutter:
`Construct` inserts exactly what `Held` already showed; `Evict` and `Deploy`
change nothing that is shown; a skipped reset is the abstract `Reset`, because a
clean mark means that the tables are the seed already.

*The memo.* The inductive invariant `IInv` says that what a memo keeps belongs to
its request's present epoch and was sent no earlier than its floor
(`KeptIsCurrent`), and that a read of the present epoch that has not failed is the
one kept (`CurrentIsKept`). Freshness follows because the store's version never
goes back; one load per key because a second one would have been handed the
first. `ReadsFollow` adds that what is kept was sent after every write of its
request (`KeptFollows`): the memo is emptied before a write is passed on.

*The counters.* A row only grows while it is below what the present caller asks,
and what anybody asks is in `Times`.

*The runs.* What a client alone with its nonce has been refused is tied to a row of a
table that others use, prune and empty. The invariant `IInv` of `FaultProofs` calls a row
the client's own if it was first seen since the client began. An older one may still
be there, but has outlived its lifetime (`Settled`): the next call prunes it before it
counts. The client's own row counts what it heard and the refusal under way
(`RowIsRight`), at least; where nothing was timed out, exactly. Attempts of its nonce
that come late are its own and ask for as many (`StraysAreOwn`). A client that uses the
nonce of another that is active takes that one's loneliness away, so two that are alone
have different nonces (`Apart`).

*The origin.* Lemmas on the two orders say which checks may follow which for a given
request (a mutation reaches Yoga only after the guard, a fault is decided before
it). On them rests an invariant of one attempt, `Good`: what it has written,
counted and verified fits the check it stands before or the status it ended with,
and its headers are its own request's. Between attempts `Retried` says that all but
the last were refused with a gateway status, or given up in silence; an attempt
refused so has not written, and only the last may have. `Owned` says that the levers
the edge stored under a key came with the answer to a request of that key which was in
scope; if the nonce stands in the key, whoever has the key names it too. Every action disturbs one attempt, so
each has one lemma; `Inductive` collects them.

*The guard.* `AllGuarded` is proved on top of that: what is verified was verified at
some age the call has had (`PassedInTime`), and an attempt the edge hears of was decided
while it waited, so within its budget (`InTime`, `HeardInTime`). An attempt given up may
be turned down later, and nobody hears it. What remains is arithmetic of the window, in
`OnlyTheEdgeSigns` and `TheEdgeVerifies`.

*The key pair.* Only a pair under way replaces a stored one, and none is begun
once one is stored. If never two are under way, strays included, `OnePair` is
inductive: while one is generated no other is stored, so nobody holds another pair
(`NothingYet`), and what is put is then the only one.

## 5. What is only model-checked, and what is not modelled

Liveness (`ComesBack`, `EveryCallEnds`, `LoadsEnd`, `EveryAttemptEnds`) is out of the
proof system's reach and stays with TLC.
Every safety invariant and action property of the passing runs is stated by a theorem.

Taken from the platform and not from the code: one turn of a Durable Object is
atomic for other calls while its awaits are on settled promises or storage; a
statement that throws undoes only itself; a constructor that throws under
`blockConcurrencyWhile` discards the instance, and its writes may be kept or lost.

Not modelled:

* sized responses (`sized.ts`): arithmetic of bytes, with no state and no order of
  events. It counts the selections of the operation's root, so a spread of a
  fragment with several fields counts as one;
* the reads that filter one list (`search`, `reviews`, one product), the
  resolvers that forward or compute from their arguments, and `library.ts`;
* the echo of every header (`*`), whose limit is one of bytes;
* a token's expiry, and how a JWK is parsed and imported;
* the schema and its cache hints, which the edge and not this program acts on;
* generated types, release scripts and the documentation.

## 6. Where code and documentation disagree

* After a release that changes `seed.ts`, a reset of a clean object answers ok and
  leaves the previous release's catalogue (`durable_new_seed`). The mark says that
  nothing changed since a seed was written, not which seed that was.
* A reset that stops after `DELETE FROM products` leaves the categories. Every
  later constructor counts no products, seeds, and collides with the first
  category, so the object never answers again (`durable_bricked`).
* A write is kept although `#markDirty` after it throws, and the next reset skips
  (`DurableKeptWrite.cfg`). `durable-object-store.ts:299-300` names a missing call as
  the one way the mark can be wrong; a call that fails is another.
* Resets that stop between their statements may leave a review and no products. The
  next constructor seeds beside it and marks the catalogue clean, and later resets
  leave the review (`DurableHalfReset.cfg`).
* Two isolates that ask for the key pair before it is stored get two pairs, and
  keep them; the tokens of one do not verify in the other (`key_pair_race`).
  `worker.ts:64-65` says that every isolate reads the same pair back.
* The scope of a lever is searched in the whole body, the edge's key is the document
  and its variables. A nonce in another member, beside the word `faulty`, is in scope
  and in no key, so the answer with the levers is served to who named none
  (`nonce_beside`). `misbehave.ts:43-45` says that two different bodies cannot share
  a key, and `docs/19-a-misbehaving-origin.md:39-41` that such a request "cannot reach
  anyone else's" entry.
* An echo cuts a value longer than 256 characters and appends `…`, which is no
  "printable ASCII" (`misbehave.ts:135`). On Node `setHeader` throws on it in an
  async handler that nobody awaits, and the process ends (`EchoHeaders.cfg`; the action
  is `HeaderThrows`). On the Worker it is sent as UTF-8.

Smaller ones, which no run states:

* `reserveStock` with a count of 0 writes `reservedAt`, although `store/port.ts:45`
  says it is "null until something is reserved".
* `node.ts:104-106` says that the requested failure follows the "same rule as on
  Workers". Node counts it on every path but `/health`, and on unsigned ones;
  the Worker at `/graphql`, behind the guard.
* `gpilot.toml` says of `retry_mutations` that "`true` would be provably safe". That
  holds for an attempt the origin refuses (`WrittenOnce`). One that is given up in
  silence may have written, as `docs/18-origin-retries.md` says.

## 7. Plan

Done, in this order: the catalogue and the port's promise; the Durable Object
and its refinement; the memo; the failure counter with the edge; the key pair; the
two entry points with the headers they read; the feed and the pages; the theorems
of section 4.

Next, the most important first:

1. A composition of `RequestMemo` over the catalogue's promise: a request sees its
   own writes, in values of the catalogue rather than in versions.
2. `KeyPair` beside `Origin`: a token minted by one isolate and checked by another
   while requests are under way, where `Origin` leaves the verdict open.
3. The echo of every header, and search and filters, should a property ever be
   about them.
