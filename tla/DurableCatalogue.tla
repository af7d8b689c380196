-------------------------- MODULE DurableCatalogue --------------------------
(***************************************************************************)
(* CatalogueObject of src/store/durable-object-store.ts: the catalogue in  *)
(* SQL tables, with the catalogue_state row that lets reset do nothing     *)
(* when nothing has changed.                                               *)
(*                                                                         *)
(* A method runs its SQL statements in one turn of the object: its awaits  *)
(* are on settled promises, so no other call is delivered in between, and  *)
(* a crash loses or keeps all of a turn's writes.  A statement that throws *)
(* is another matter: what the statements before it wrote stays written.   *)
(* So a method is the trace of states its statements leave the database    *)
(* in; it ends with the last of them, or, where FailingOps allows a        *)
(* statement to throw, with any earlier one and an error.                  *)
(***************************************************************************)
EXTENDS CatalogueData

CONSTANTS
    Seeds,          \* what seed() may return, one catalogue per release
    CategoryOrder,  \* the category ids in the order seed() lists them
    ProductOrder,   \* the product ids in that order
    Legacy,         \* tables of an object older than catalogue_state
    FailingOps,     \* the operations in which a statement may throw
    Clock,          \* the timestamps new Date() gives
    Counts,         \* the counts reserveStock is asked for
    MaxReviews      \* bound: no review is added to a table with this many

ElementsOf(seq) == {seq[i] : i \in DOMAIN seq}

DistinctIds(reviews) ==
    \A i, j \in DOMAIN reviews : reviews[i].id = reviews[j].id => i = j

\* No review was added to a longer list than this one.
Numbered(reviews) ==
    \A i \in DOMAIN reviews :
        reviews[i].id[1] = "added" => reviews[i].id[2] <= Len(reviews)

NoneOversold(c) == \A id \in DOMAIN c.inventory : c.inventory[id].available >= 0

ASSUME DurableAssumption ==
    /\ CategoryOrder \in Seq(CategoryIds)
    /\ ProductOrder \in Seq(ProductIds)
    /\ Seeds # {}
    /\ \A s \in Seeds : /\ IsCatalogue(s)
                        /\ DOMAIN s.categories = ElementsOf(CategoryOrder)
                        /\ DOMAIN s.products = ElementsOf(ProductOrder)
                        /\ DOMAIN s.inventory = ElementsOf(ProductOrder)
                        /\ DistinctIds(s.reviews)
                        /\ NoneOversold(s)
                        /\ \A i \in DOMAIN s.reviews : s.reviews[i].id[1] = "seeded"
    /\ ProductOrder # <<>>
    /\ \A t \in Legacy : /\ IsCatalogue(t)
                         /\ DOMAIN t.products # {}
                         /\ DistinctIds(t.reviews)
                         /\ NoneOversold(t)
                         /\ Numbered(t.reviews)
    /\ FailingOps \subseteq Operations \cup {"construct"}
    /\ Clock \subseteq Times
    /\ Counts \subseteq Int

VARIABLES
    tables,  \* the four catalogue tables
    flag,    \* the catalogue_state row: "absent", "clean" or "dirty"
    up,      \* an instance of the object is in memory and constructed
    seed,    \* what seed() returns in the running release
    reply    \* what the last call was answered

vars == <<tables, flag, up, seed, reply>>

NoRows == [products |-> <<>>, categories |-> <<>>, reviews |-> <<>>, inventory |-> <<>>]

Init ==
    /\ tables \in {NoRows} \cup Legacy
    /\ flag = "absent"
    /\ up = FALSE
    /\ seed \in Seeds
    /\ reply = NoReply

-----------------------------------------------------------------------------
(* #seed inserts the rows of seed() one statement at a time.               *)

RowCount ==
    Len(CategoryOrder) + Len(ProductOrder) + Len(seed.reviews) + Len(ProductOrder)

FirstOf(order, n) == {order[i] : i \in {i \in DOMAIN order : i <= n}}

InsertInto(table, rows, ids) ==
    [id \in DOMAIN table \cup ids |-> IF id \in ids THEN rows[id] ELSE table[id]]

\* Mutant: the inventory goes in before the products it belongs to.
BeforeEverything == 0

\* How many rows of the tables before it an insert into this one comes after.
BeforeProducts  == Len(CategoryOrder)
BeforeReviews   == BeforeProducts + Len(ProductOrder)
BeforeInventory == BeforeReviews + Len(seed.reviews)

ReviewsAmong(n) ==
    IF n <= BeforeReviews THEN <<>>
    ELSE IF n <= BeforeInventory THEN SubSeq(seed.reviews, 1, n - BeforeReviews)
    ELSE seed.reviews

\* The tables t after the first n inserts of #seed.
Loaded(t, n) ==
    [categories |-> InsertInto(t.categories, seed.categories, FirstOf(CategoryOrder, n)),
     products   |-> InsertInto(t.products, seed.products,
                               FirstOf(ProductOrder, n - BeforeProducts)),
     reviews    |-> t.reviews \o ReviewsAmong(n),
     inventory  |-> InsertInto(t.inventory, seed.inventory,
                               FirstOf(ProductOrder, n - BeforeInventory))]

\* None of those n inserts meets a row that has its primary key.
Fits(t, n) ==
    /\ DOMAIN t.categories \cap FirstOf(CategoryOrder, n) = {}
    /\ DOMAIN t.products \cap FirstOf(ProductOrder, n - BeforeProducts) = {}
    /\ ReviewIdsOf(t.reviews) \cap ReviewIdsOf(ReviewsAmong(n)) = {}
    /\ DOMAIN t.inventory \cap FirstOf(ProductOrder, n - BeforeInventory) = {}

\* #seed on tables t: every row, then the clean mark, written last.
SeedCompletes(t) ==
    /\ Fits(t, RowCount)
    /\ tables' = Loaded(t, RowCount)
    /\ flag' = "clean"

\* Mutant: the clean mark is written before the rows.
SeedStopsMarked(op, t) ==
    \E n \in 0..RowCount :
        /\ Fits(t, n)
        /\ op \in FailingOps \/ (n < RowCount /\ ~Fits(t, n + 1))
        /\ tables' = Loaded(t, n)
        /\ flag' = "clean"

\* #seed on tables t stops after n inserts: the next statement throws.
SeedStops(op, t) ==
    \E n \in 0..RowCount :
        /\ Fits(t, n)
        /\ op \in FailingOps \/ (n < RowCount /\ ~Fits(t, n + 1))
        /\ tables' = Loaded(t, n)
        /\ UNCHANGED flag

\* The constructor, under blockConcurrencyWhile: seeds an object without
\* products.  If it throws, in #seed or in a statement before it, the instance
\* is discarded, and what it wrote by then is kept or not.
Construct ==
    /\ ~up
    /\ UNCHANGED seed
    /\ \/ /\ DOMAIN tables.products # {}
          /\ up' = TRUE
          /\ UNCHANGED <<tables, flag, reply>>
       \/ /\ DOMAIN tables.products = {}
          /\ SeedCompletes(tables)
          /\ up' = TRUE
          /\ UNCHANGED reply
       \/ /\ \/ DOMAIN tables.products = {} /\ SeedStops("construct", tables)
             \/ "construct" \in FailingOps /\ UNCHANGED <<tables, flag>>
          /\ up' = FALSE
          /\ reply' = Refusal("construct", "StorageError")

\* The instance leaves memory: idle, or its machine crashes between turns.
Evict ==
    /\ up
    /\ up' = FALSE
    /\ UNCHANGED <<tables, flag, seed, reply>>

\* A release goes out: seed.ts may have changed, and instances restart.
Deploy ==
    /\ seed' \in Seeds \ {seed}
    /\ up' = FALSE
    /\ UNCHANGED <<tables, flag, reply>>

-----------------------------------------------------------------------------
(* The methods that write.                                                 *)

Refuse(op, why) ==
    /\ reply' = Refusal(op, why)
    /\ UNCHANGED <<tables, flag>>

\* Mutant: #markDirty is forgotten.
WriteUnmarked(op, changed, answer) ==
    /\ tables' = changed
    /\ reply' = answer
    /\ UNCHANGED flag

\* Every method that writes does it in two statements: the change, then
\* #markDirty.  One that throws before the change, at the mark, or in reading
\* the row back leaves neither, the change alone, or both.
WriteThenMark(op, changed, answer) ==
    \/ /\ tables' = changed
       /\ flag' = "dirty"
       /\ reply' = answer
    \/ /\ op \in FailingOps
       /\ \/ UNCHANGED <<tables, flag>>
          \/ tables' = changed /\ flag' \in {flag, "dirty"}
       /\ reply' = Refusal(op, "StorageError")

\* Mutant: the parameters of the UPDATE are bound in the wrong order.
PricedSwapped(price, at) == [price |-> at, updatedAt |-> price]

Priced(price, at) == [price |-> price, updatedAt |-> at]

\* It answers with the row read back.
SetPrice(id, price, at) ==
    \/ /\ id \in DOMAIN tables.products
       /\ WriteThenMark("setPrice", [tables EXCEPT !.products[id] = Priced(price, at)],
                        Answer("setPrice", Priced(price, at)))
    \/ /\ id \notin DOMAIN tables.products
       /\ Refuse("setPrice", "NotFound")

\* Mutant: the number counts from the seed, not from the table.
NewReviewFromSeed(id) == AddedReview(Len(seed.reviews) + 1, id)

NewReview(id) == AddedReview(Len(tables.reviews) + 1, id)

\* The INSERT needs an id no row has; that the rule for ids gives one is the
\* property ReviewIdsUnique.
AddReview(id) ==
    \/ /\ id \in DOMAIN tables.products
       /\ Len(tables.reviews) < MaxReviews
       /\ WriteThenMark("addReview", [tables EXCEPT !.reviews = Append(@, NewReview(id))],
                        Answer("addReview", NewReview(id)))
    \/ /\ id \notin DOMAIN tables.products
       /\ Refuse("addReview", "NotFound")

\* Mutant: one more than there is.
EnoughAndOne(entry, count) == count <= entry.available + 1

Enough(entry, count) == count <= entry.available

\* Mutant: the UPDATE leaves reserved_at out.
ReservedUnstamped(entry, count, at) == [entry EXCEPT !.available = @ - count]

\* The row of a product after count of it are reserved.
Reserved(entry, count, at) == [available |-> entry.available - count, reservedAt |-> at]

ReserveStock(id, count, at) ==
    \/ /\ id \in DOMAIN tables.products \cap DOMAIN tables.inventory
       /\ Enough(tables.inventory[id], count)
       /\ LET row == Reserved(tables.inventory[id], count, at)
          IN WriteThenMark("reserveStock", [tables EXCEPT !.inventory[id] = row],
                           Answer("reserveStock", row))
    \/ /\ id \in DOMAIN tables.products \cap DOMAIN tables.inventory
       /\ ~Enough(tables.inventory[id], count)
       /\ Refuse("reserveStock", "Unavailable")
    \/ /\ id \notin DOMAIN tables.products \cap DOMAIN tables.inventory
       /\ Refuse("reserveStock", "NotFound")

RenameCategory(id, name) ==
    \/ /\ id \in DOMAIN tables.categories
       /\ WriteThenMark("renameCategory", [tables EXCEPT !.categories[id] = name],
                        Answer("renameCategory", name))
    \/ /\ id \notin DOMAIN tables.categories
       /\ Refuse("renameCategory", "NotFound")

\* Mutant: reset leaves one table out.
EmptiedButCategories(n) ==
    [products   |-> IF n >= 1 THEN <<>> ELSE tables.products,
     categories |-> tables.categories,
     reviews    |-> IF n >= 3 THEN <<>> ELSE tables.reviews,
     inventory  |-> IF n >= 4 THEN <<>> ELSE tables.inventory]

\* The tables after the first n of reset's four DELETEs.
Emptied(n) ==
    [products   |-> IF n >= 1 THEN <<>> ELSE tables.products,
     categories |-> IF n >= 2 THEN <<>> ELSE tables.categories,
     reviews    |-> IF n >= 3 THEN <<>> ELSE tables.reviews,
     inventory  |-> IF n >= 4 THEN <<>> ELSE tables.inventory]

\* Mutant: a row that is not there counts as clean.
IsMarkedDirty == flag = "dirty"

\* A row that is not there counts as dirty.
IsDirty == flag # "clean"

Reset ==
    \/ /\ ~IsDirty
       /\ reply' = Done("reset")
       /\ UNCHANGED <<tables, flag>>
    \/ /\ IsDirty
       /\ SeedCompletes(Emptied(4))
       /\ reply' = Done("reset")
    \/ /\ \/ IsDirty /\ SeedStops("reset", Emptied(4))
          \/ /\ "reset" \in FailingOps
             /\ tables' \in {Emptied(n) : n \in 0..(IF IsDirty THEN 3 ELSE 0)}
             /\ UNCHANGED flag
       /\ reply' = Refusal("reset", "StorageError")

Call ==
    /\ up
    /\ UNCHANGED <<up, seed>>
    /\ \/ \E id \in ProductIds, price \in Money, at \in Clock : SetPrice(id, price, at)
       \/ \E id \in ProductIds : AddReview(id)
       \/ \E id \in ProductIds, count \in Counts, at \in Clock : ReserveStock(id, count, at)
       \/ \E id \in CategoryIds, name \in Names : RenameCategory(id, name)
       \/ Reset

Next == Construct \/ Evict \/ Deploy \/ Call

Spec == Init /\ [][Next]_vars

\* Callers keep calling, and a call of an object that is not in memory makes
\* the platform construct it.
FairSpec == Spec /\ WF_vars(Construct)

-----------------------------------------------------------------------------
TypeOK ==
    /\ IsCatalogue(tables)
    /\ flag \in {"absent", "clean", "dirty"}
    /\ up \in BOOLEAN
    /\ seed \in Seeds
    /\ reply.op \in Operations \cup {"construct", "none"}
    /\ reply.outcome \in Refusals \cup {"ok"}

\* The way the clean mark can be wrong is silent (#markDirty): a reset that
\* answers ok must leave exactly the seed of the running release, on an object
\* written to, seeded, evicted, left by a constructor between any two inserts,
\* or older than the mark (durable-object-store.test.ts, "a reset that decides
\* to do nothing must still leave a correct catalogue behind").  It holds of one
\* seed and of methods whose statements do not throw: DurableKeptWrite.cfg,
\* DurableHalfReset.cfg and DurableNewSeed.cfg are its counterexamples.
ResetLeavesTheSeed ==
    [][up /\ up' /\ reply' = Done("reset") => tables' = seed']_vars

\* The invariant under it: a clean mark is only ever found on a catalogue a
\* seed() produced and nothing changed since (reset, #dirty, #markDirty).
CleanHoldsASeed == flag = "clean" => tables \in Seeds

\* What the constructor takes for granted when it counts only products: an
\* object without any has no reviews and no inventory either, and of the
\* categories only some of the seed's, so that inserting the whole seed makes
\* the seed (constructor, COUNT(*) FROM products, and the order of #seed).
UnseededIsEmpty ==
    DOMAIN tables.products = {} =>
        /\ DOMAIN tables.categories \subseteq ElementsOf(CategoryOrder)
        /\ tables.reviews = <<>>
        /\ DOMAIN tables.inventory = {}

\* No two reviews share an id: the id counts the reviews there are, and the
\* table has it as primary key, so a repeat would refuse the review (addReview,
\* COUNT(*) + 1).  Not even after a reset or a construction that stopped
\* between its statements and left some reviews, or put seeded ones after them.
ReviewIdsUnique == DistinctIds(tables.reviews)

\* Nothing is sold twice, whatever throws: a reservation whose answer was lost
\* has been taken off the stock or has not, and one that comes after it, or
\* after a reset that stopped with stock of the old release left, is compared
\* with what is there (reserveStock, count > available).
StockNeverNegative == NoneOversold(tables)

PricesStamped(c) ==
    \A id \in DOMAIN c.products \cap ElementsOf(ProductOrder) :
        (\E s \in Seeds : c.products[id].updatedAt = s.products[id].updatedAt)
            => \E s \in Seeds : c.products[id] = s.products[id]

StockStamped(c) ==
    \A id \in DOMAIN c.inventory \cap ElementsOf(ProductOrder) :
        c.inventory[id].reservedAt = Never
            => \E s \in Seeds : c.inventory[id].available = s.inventory[id].available

\* The feed is read out of two stamps, "so nothing can drift out of step with
\* the catalogue it describes" (activity).  Whatever throws and whatever is
\* released, a price or a stock no release has seeded carries a stamp none has:
\* the value and its stamp are one UPDATE, and the mark, which may fail after
\* it, has no part in the feed.
ChangesAreStamped == PricesStamped(tables) /\ StockStamped(tables)

\* An evicted or crashed object answers again: whatever an operation left in
\* the tables, the next instance's constructor gets through it (constructor,
\* #seed, and the order reset deletes and #seed inserts in).
ComesBack == ~up ~> up

\* The promise of the port.  An object nobody has constructed yet stands for
\* the seed it will insert.
TheSeed == CHOOSE s \in Seeds : TRUE

Held == IF DOMAIN tables.products = {} THEN TheSeed ELSE tables

Port == INSTANCE Catalogue WITH
            catalogue <- Held,
            Seed <- TheSeed, Inherited <- Legacy, Volatile <- FALSE

\* With one seed and no statement that throws, the tables, the mark that skips
\* resets and the lazy construction together are the plain catalogue of the
\* port: every call changes it and answers as the memory store does, across
\* evictions and restarts.
ImplementsPort == Port!Spec
=============================================================================
