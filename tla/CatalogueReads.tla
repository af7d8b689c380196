---------------------------- MODULE CatalogueReads ----------------------------
(***************************************************************************)
(* What is read out of the catalogue: the activity feed, as each of the    *)
(* two stores orders it, and the lists of products Query.products pages    *)
(* through.                                                                *)
(***************************************************************************)
EXTENDS Catalogue, SequencesExt

CONSTANT Listing   \* the product ids in the order of seed(), which is that of the ids

ASSUME ReadsAssumption ==
    /\ Listing \in Seq(ProductIds)
    /\ IsInjective(Listing)
    /\ \A c \in {Seed} \cup Inherited :
          DOMAIN c.products \subseteq {Listing[i] : i \in DOMAIN Listing}
    /\ Times \subseteq Int

Place(id) == CHOOSE i \in DOMAIN Listing : Listing[i] = id

PriceEntry(id) == [productId |-> id, kind |-> "PRICE_CHANGED", at |-> catalogue.products[id].updatedAt]
StockEntry(id) == [productId |-> id, kind |-> "STOCK_RESERVED", at |-> catalogue.inventory[id].reservedAt]

\* The entries MemoryStore.activity pushes: one loop over the products, one
\* over the inventory.
Entries ==
    {PriceEntry(id) : id \in DOMAIN catalogue.products}
    \cup {StockEntry(id) : id \in {i \in DOMAIN catalogue.inventory :
              /\ catalogue.inventory[i].reservedAt # Never
              /\ i \in DOMAIN catalogue.products}}

PushedBefore(left, right) ==
    \/ left.kind = "PRICE_CHANGED" /\ right.kind = "STOCK_RESERVED"
    \/ left.kind = right.kind /\ Place(left.productId) < Place(right.productId)

\* Mutant: entries of one moment stay in the order they were pushed in.
NewestOnly(left, right) == left.at > right.at

NewestFirst(left, right) ==
    \/ left.at > right.at
    \/ left.at = right.at /\ Place(left.productId) < Place(right.productId)
    \/ /\ left.at = right.at /\ left.productId = right.productId
       /\ left.kind = "PRICE_CHANGED" /\ right.kind = "STOCK_RESERVED"

\* Array.prototype.sort is stable: what the comparison does not tell apart
\* stays in the order it was pushed in.
SortsBefore(left, right) ==
    \/ NewestFirst(left, right)
    \/ ~NewestFirst(right, left) /\ PushedBefore(left, right)

MemoryOrders ==
    {order \in SetToSeqs(Entries) :
        \A i, j \in DOMAIN order : i < j => SortsBefore(order[i], order[j])}

\* How many entries a caller gets that asks for limit of them.
Wanted(limit) == Max({0, limit})

\* Array.prototype.slice: what is below 0 counts from the end of the list.
Slice(list, start, end) ==
    LET At(n) == IF n < 0 THEN Max({0, Len(list) + n}) ELSE Min({n, Len(list)}) IN
    SubSeq(list, At(start) + 1, At(end))

MemoryActivity(order, limit) == Slice(order, 0, Wanted(limit))

\* The UNION ALL of the query: its second half joins the products.
SqlRows ==
    {PriceEntry(id) : id \in DOMAIN catalogue.products}
    \cup {StockEntry(id) : id \in {i \in DOMAIN catalogue.products \cap DOMAIN catalogue.inventory :
              catalogue.inventory[i].reservedAt # Never}}

\* ORDER BY at DESC, product_id ASC, kind ASC.
SqlKeyLess(left, right) ==
    \/ left.at > right.at
    \/ left.at = right.at /\ Place(left.productId) < Place(right.productId)
    \/ /\ left.at = right.at /\ left.productId = right.productId
       /\ left.kind = "PRICE_CHANGED" /\ right.kind = "STOCK_RESERVED"

\* Any order of the rows in which none stands behind one with a greater key.
SqlOrders ==
    {order \in SetToSeqs(SqlRows) :
        \A i, j \in DOMAIN order : SqlKeyLess(order[i], order[j]) => i < j}

\* LIMIT: a number below 0 is no limit.
SqlActivity(order, limit) ==
    IF Wanted(limit) < 0 THEN order ELSE SubSeq(order, 1, Min({Len(order), Wanted(limit)}))

-----------------------------------------------------------------------------
\* durable-object-store.ts, activity: "The order is spelled out completely,
\* ties included".  Whatever was written in one moment, each store has one feed
\* to answer with, and the two are the same, wherever they are cut.
FeedsAgree ==
    LET mine == MemoryOrders
        theirs == SqlOrders
    IN  /\ mine # {} /\ theirs # {}
        /\ \A left \in mine, right \in theirs : \A limit \in -1..Cardinality(Entries) :
              MemoryActivity(left, limit) = SqlActivity(right, limit)
=============================================================================
