---------------------------- MODULE CatalogueData ----------------------------
(***************************************************************************)
(* The data of the catalogue (src/store/port.ts): what a product, a        *)
(* category, a review, an inventory entry and a whole catalogue are, as    *)
(* far as any property tells them apart.  Names, ratings and the category  *)
(* of a product never change after the seed and are left out; a timestamp  *)
(* is a member of Times, an ISO string of the code.                        *)
(***************************************************************************)
EXTENDS Integers, Sequences, FiniteSets

CONSTANTS
    ProductIds,   \* every product id a caller may name, held or not
    CategoryIds,  \* every category id a caller may name, held or not
    Money,        \* prices, in minor units
    Names,        \* category names
    Times,        \* timestamps, seeded ones and those a clock gives
    Never         \* the null of Inventory.reservedAt

ASSUME TimesAssumption == Never \notin Times

Product   == [price: Money, updatedAt: Times]
Inventory == [available: Int, reservedAt: Times \cup {Never}]

\* A seeded review is called r01, r02, ...; an added one r-<n>-<product>.
\* Either way a kind, a number and the product, which r01 leaves unsaid.
ReviewId == {"seeded", "added"} \X Nat \X ProductIds
Review   == [id: ReviewId, productId: ProductIds]

\* A table: a row for some of the ids, and none for the others.
IsTable(table, Ids, Row) ==
    /\ DOMAIN table \subseteq Ids
    /\ table \in [DOMAIN table -> Row]

IsCatalogue(c) ==
    /\ c = [products   |-> c.products,  categories |-> c.categories,
            reviews    |-> c.reviews,   inventory  |-> c.inventory]
    /\ IsTable(c.products, ProductIds, Product)
    /\ IsTable(c.categories, CategoryIds, Names)
    /\ c.reviews \in Seq(Review)
    /\ IsTable(c.inventory, ProductIds, Inventory)

AddedReview(n, id) == [id |-> <<"added", n, id>>, productId |-> id]

ReviewIdsOf(reviews) == {reviews[i].id : i \in DOMAIN reviews}

\* What a call of the port answers: a value, nothing, or an error.
Answer(op, value) == [op |-> op, outcome |-> "ok", value |-> value]
Done(op)          == [op |-> op, outcome |-> "ok"]
NoReply           == Done("none")
Refusal(op, why)  == [op |-> op, outcome |-> why]

Operations == {"setPrice", "addReview", "reserveStock", "renameCategory", "reset"}
Refusals   == {"NotFound", "Unavailable", "StorageError"}
=============================================================================
