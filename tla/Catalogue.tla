------------------------------ MODULE Catalogue ------------------------------
(***************************************************************************)
(* What the storage port promises of its writes: one catalogue, changed by *)
(* one operation at a time, put back to the seed by reset.  MemoryStore    *)
(* (src/store/memory-store.ts) does exactly this over one object; the      *)
(* Durable Object of module DurableCatalogue is shown to implement it.     *)
(***************************************************************************)
EXTENDS CatalogueData

CONSTANTS
    Seed,       \* what seed() returns
    Inherited,  \* catalogues a store may start from besides the seed
    Volatile,   \* TRUE of a store a restart of its process reseeds
    Clock,      \* the timestamps new Date() gives while the store runs
    Counts,     \* the counts reserveStock is asked for
    MaxReviews  \* bound: no review is added to a catalogue with this many

ASSUME CatalogueAssumption ==
    /\ IsCatalogue(Seed)
    /\ \A c \in Inherited : IsCatalogue(c)
    /\ \A c \in {Seed} \cup Inherited :
          \A id \in DOMAIN c.inventory : c.inventory[id].available >= 0
    /\ Volatile \in BOOLEAN
    /\ Clock \subseteq Times
    /\ Counts \subseteq Int

VARIABLES
    catalogue,  \* the catalogue the next read sees
    reply       \* what the last operation answered

vars == <<catalogue, reply>>

Init ==
    /\ catalogue \in {Seed} \cup Inherited
    /\ reply = NoReply

Refuse(op, why) ==
    /\ reply' = Refusal(op, why)
    /\ UNCHANGED catalogue

SetPrice(id, price, at) ==
    \/ /\ id \in DOMAIN catalogue.products
       /\ catalogue' = [catalogue EXCEPT !.products[id] = [price |-> price, updatedAt |-> at]]
       /\ reply' = Answer("setPrice", catalogue'.products[id])
    \/ /\ id \notin DOMAIN catalogue.products
       /\ Refuse("setPrice", "NotFound")

\* Mutant: the number counts from the seed, not from the reviews there are.
NewReviewFromSeed(id) == AddedReview(Len(Seed.reviews) + 1, id)

NewReview(id) == AddedReview(Len(catalogue.reviews) + 1, id)

AddReview(id) ==
    \/ /\ id \in DOMAIN catalogue.products
       /\ Len(catalogue.reviews) < MaxReviews
       /\ catalogue' = [catalogue EXCEPT !.reviews = Append(@, NewReview(id))]
       /\ reply' = Answer("addReview", NewReview(id))
    \/ /\ id \notin DOMAIN catalogue.products
       /\ Refuse("addReview", "NotFound")

\* Mutants: one more than there is; no stamp; the arguments the other way round.
EnoughAndOne(entry, count)          == count <= entry.available + 1
ReservedUnstamped(entry, count, at) == [entry EXCEPT !.available = @ - count]
ReservedSwapped(entry, count, at)   == [available |-> entry.available - at, reservedAt |-> count]

Enough(entry, count) == count <= entry.available

\* The entry of a product after count of it are reserved.
Reserved(entry, count, at) == [available |-> entry.available - count, reservedAt |-> at]

ReserveStock(id, count, at) ==
    \/ /\ id \in DOMAIN catalogue.products \cap DOMAIN catalogue.inventory
       /\ Enough(catalogue.inventory[id], count)
       /\ catalogue' = [catalogue EXCEPT !.inventory[id] = Reserved(@, count, at)]
       /\ reply' = Answer("reserveStock", catalogue'.inventory[id])
    \/ /\ id \in DOMAIN catalogue.products \cap DOMAIN catalogue.inventory
       /\ ~Enough(catalogue.inventory[id], count)
       /\ Refuse("reserveStock", "Unavailable")
    \/ /\ id \notin DOMAIN catalogue.products \cap DOMAIN catalogue.inventory
       /\ Refuse("reserveStock", "NotFound")

RenameCategory(id, name) ==
    \/ /\ id \in DOMAIN catalogue.categories
       /\ catalogue' = [catalogue EXCEPT !.categories[id] = name]
       /\ reply' = Answer("renameCategory", name)
    \/ /\ id \notin DOMAIN catalogue.categories
       /\ Refuse("renameCategory", "NotFound")

Reset ==
    /\ catalogue' = Seed
    /\ reply' = Done("reset")

\* A new process builds a new store, which seeds itself.
Restart ==
    /\ Volatile
    /\ catalogue' = Seed
    /\ UNCHANGED reply

Next ==
    \/ \E id \in ProductIds, price \in Money, at \in Clock : SetPrice(id, price, at)
    \/ \E id \in ProductIds : AddReview(id)
    \/ \E id \in ProductIds, count \in Counts, at \in Clock : ReserveStock(id, count, at)
    \/ \E id \in CategoryIds, name \in Names : RenameCategory(id, name)
    \/ Reset
    \/ Restart

Spec == Init /\ [][Next]_vars

-----------------------------------------------------------------------------
TypeOK ==
    /\ IsCatalogue(catalogue)
    /\ reply.op \in Operations \cup {"none"}
    /\ reply.outcome \in Refusals \cup {"ok"}

\* Stock is never promised twice: whatever order reservations of any sizes
\* come in, no product is left with less than nothing (memory-store.ts,
\* reserveStock: count > available is refused before anything is written).
StockNeverNegative ==
    \A id \in DOMAIN catalogue.inventory : catalogue.inventory[id].available >= 0

\* No two reviews share an id, across resets and reviews of one product or
\* several: the id is built from how many reviews there are, and the Durable
\* Object's table has it as primary key, so a repeat would refuse the review.
ReviewIdsUnique ==
    \A i, j \in DOMAIN catalogue.reviews :
        catalogue.reviews[i].id = catalogue.reviews[j].id => i = j

PricesStamped(c) ==
    \A id \in DOMAIN c.products \cap DOMAIN Seed.products :
        c.products[id].price # Seed.products[id].price =>
            c.products[id].updatedAt # Seed.products[id].updatedAt

StockStamped(c) ==
    \A id \in DOMAIN c.inventory \cap DOMAIN Seed.inventory :
        c.inventory[id].available # Seed.inventory[id].available =>
            c.inventory[id].reservedAt # Never

\* The activity feed is read out of the stamps (memory-store.ts, activity):
\* a price or a stock that differs from the seed carries a stamp that does
\* too, so no change is missing from the feed and from a cache keyed on it.
ChangesAreStamped == PricesStamped(catalogue) /\ StockStamped(catalogue)
=============================================================================
