----------------------- MODULE DurableCatalogueProofs -----------------------
(***************************************************************************)
(* Proofs about the Durable Object's catalogue, for every catalogue, seed, *)
(* order of rows, legacy object and set of operations that may fail.       *)
(***************************************************************************)
EXTENDS DurableCatalogue, TLAPS

-----------------------------------------------------------------------------
(* Tables and what #seed and reset do to them.                             *)

\* A prefix of a list has only elements of the list.
LEMMA FirstOfElements ==
    ASSUME NEW order, NEW n
    PROVE  FirstOf(order, n) \subseteq ElementsOf(order)
BY DEF FirstOf, ElementsOf

\* As many elements as there are, or more, are all of them.
LEMMA WholeOrder ==
    ASSUME NEW order, NEW n, \A i \in DOMAIN order : i <= n
    PROVE  FirstOf(order, n) = ElementsOf(order)
<1>1. {i \in DOMAIN order : i <= n} = DOMAIN order
  OBVIOUS
<1> QED
  BY <1>1 DEF FirstOf, ElementsOf

\* Inserting rows of a table of some type into another gives one of that type.
LEMMA InsertIntoType ==
    ASSUME NEW Ids, NEW Row, NEW table, NEW rows, NEW ids,
           IsTable(table, Ids, Row), IsTable(rows, Ids, Row), ids \subseteq DOMAIN rows
    PROVE  IsTable(InsertInto(table, rows, ids), Ids, Row)
<1>1. DOMAIN InsertInto(table, rows, ids) = DOMAIN table \cup ids
  BY DEF InsertInto
<1>2. \A id \in DOMAIN table \cup ids : InsertInto(table, rows, ids)[id] \in Row
  BY DEF InsertInto, IsTable
<1>3. InsertInto(table, rows, ids) \in [DOMAIN table \cup ids -> Row]
  BY <1>2 DEF InsertInto
<1> QED
  BY <1>1, <1>3 DEF IsTable

\* An empty table is a table.
LEMMA EmptyTable ==
    ASSUME NEW Ids, NEW Row
    PROVE  IsTable(<<>>, Ids, Row)
BY DEF IsTable

\* What the first rows of a seed hold of its reviews is a list of reviews.
LEMMA ReviewsAmongType ==
    ASSUME seed \in Seeds, NEW n \in Nat
    PROVE  ReviewsAmong(n) \in Seq(Review)
<1>1. seed.reviews \in Seq(Review)
  BY DurableAssumption DEF DurableAssumption, IsCatalogue
<1>2. BeforeReviews \in Nat
  BY DurableAssumption DEF DurableAssumption, BeforeReviews, BeforeProducts
<1>3. CASE n > BeforeReviews /\ n <= BeforeInventory
  <2>1. n - BeforeReviews \in 0..Len(seed.reviews)
    BY <1>1, <1>2, <1>3 DEF BeforeInventory
  <2>2. SubSeq(seed.reviews, 1, n - BeforeReviews) \in Seq(Review)
    BY <1>1, <2>1
  <2> QED
    BY <1>2, <1>3, <2>2 DEF ReviewsAmong
<1> QED
  BY <1>1, <1>2, <1>3 DEF ReviewsAmong

\* #seed stopped anywhere leaves tables of the right type.
LEMMA LoadedType ==
    ASSUME seed \in Seeds, NEW t, IsCatalogue(t), NEW n \in Nat
    PROVE  IsCatalogue(Loaded(t, n))
<1>1. /\ IsCatalogue(seed)
      /\ ElementsOf(CategoryOrder) = DOMAIN seed.categories
      /\ ElementsOf(ProductOrder) = DOMAIN seed.products
      /\ ElementsOf(ProductOrder) = DOMAIN seed.inventory
  BY DurableAssumption DEF DurableAssumption
<1>2. IsTable(Loaded(t, n).categories, CategoryIds, Names)
  BY <1>1, InsertIntoType, FirstOfElements DEF Loaded, IsCatalogue
<1>3. IsTable(Loaded(t, n).products, ProductIds, Product)
  BY <1>1, InsertIntoType, FirstOfElements DEF Loaded, IsCatalogue
<1>4. IsTable(Loaded(t, n).inventory, ProductIds, Inventory)
  BY <1>1, InsertIntoType, FirstOfElements DEF Loaded, IsCatalogue
<1>5. Loaded(t, n).reviews \in Seq(Review)
  BY ReviewsAmongType DEF Loaded, IsCatalogue
<1>6. Loaded(t, n) = [products   |-> Loaded(t, n).products,
                      categories |-> Loaded(t, n).categories,
                      reviews    |-> Loaded(t, n).reviews,
                      inventory  |-> Loaded(t, n).inventory]
  BY DEF Loaded
<1> QED
  BY <1>2, <1>3, <1>4, <1>5, <1>6 DEF IsCatalogue

\* So does reset stopped among its DELETEs.
LEMMA EmptiedType ==
    ASSUME IsCatalogue(tables), NEW n
    PROVE  IsCatalogue(Emptied(n))
<1>1. /\ IsTable(Emptied(n).products, ProductIds, Product)
      /\ IsTable(Emptied(n).categories, CategoryIds, Names)
      /\ Emptied(n).reviews \in Seq(Review)
      /\ IsTable(Emptied(n).inventory, ProductIds, Inventory)
  BY EmptyTable DEF Emptied, IsCatalogue
<1>2. Emptied(n) = [products   |-> Emptied(n).products,
                    categories |-> Emptied(n).categories,
                    reviews    |-> Emptied(n).reviews,
                    inventory  |-> Emptied(n).inventory]
  BY DEF Emptied
<1> QED
  BY <1>1, <1>2 DEF IsCatalogue

\* The four DELETEs together leave nothing.
LEMMA EmptiedAll == Emptied(4) = NoRows
BY DEF Emptied, NoRows

LEMMA NoRowsType == IsCatalogue(NoRows)
BY EmptyTable DEF NoRows, IsCatalogue

\* Where the tables lie among the rows of #seed, as numbers.
LEMMA Layout ==
    ASSUME seed \in Seeds
    PROVE  \E c, p, r \in Nat :
              /\ p > 0
              /\ DOMAIN CategoryOrder = 1..c
              /\ DOMAIN ProductOrder = 1..p
              /\ BeforeProducts = c
              /\ BeforeReviews = c + p
              /\ BeforeInventory = c + p + r
              /\ RowCount = c + p + r + p
<1>1. /\ CategoryOrder \in Seq(CategoryIds)
      /\ ProductOrder \in Seq(ProductIds)
      /\ ProductOrder # <<>>
      /\ seed.reviews \in Seq(Review)
  BY DurableAssumption DEF DurableAssumption, IsCatalogue
<1>2. /\ Len(CategoryOrder) \in Nat /\ DOMAIN CategoryOrder = 1..Len(CategoryOrder)
      /\ Len(ProductOrder) \in Nat /\ DOMAIN ProductOrder = 1..Len(ProductOrder)
      /\ Len(ProductOrder) # 0
      /\ Len(seed.reviews) \in Nat
  BY <1>1
<1>3. PICK c \in Nat, p \in Nat, r \in Nat :
         c = Len(CategoryOrder) /\ p = Len(ProductOrder) /\ r = Len(seed.reviews)
  BY <1>2
<1>4. p > 0 /\ DOMAIN CategoryOrder = 1..c /\ DOMAIN ProductOrder = 1..p
  BY <1>2, <1>3
<1>5. /\ BeforeProducts = c /\ BeforeReviews = c + p
      /\ BeforeInventory = c + p + r /\ RowCount = c + p + r + p
  BY <1>3 DEF RowCount, BeforeProducts, BeforeReviews, BeforeInventory
<1> QED
  BY <1>4, <1>5

\* All categories are among all rows.
LEMMA CategoriesFirst ==
    ASSUME seed \in Seeds
    PROVE  \A i \in DOMAIN CategoryOrder : i <= RowCount
BY Layout

\* The first product is the row after the categories.
LEMMA ProductsNext ==
    ASSUME seed \in Seeds, NEW n \in Nat, FirstOf(ProductOrder, n - BeforeProducts) = {}
    PROVE  n <= BeforeProducts
<1>1. \A i \in DOMAIN ProductOrder : ~(i <= n - BeforeProducts)
  BY DEF FirstOf
<1>2. 1 \in DOMAIN ProductOrder /\ BeforeProducts \in Nat
  BY Layout
<1>3. ~(1 <= n - BeforeProducts)
  BY <1>1, <1>2
<1> QED
  BY <1>2, <1>3

\* Reviews and inventory come after the products.
LEMMA LaterRowsAfterProducts ==
    ASSUME seed \in Seeds, NEW n \in Nat, n <= BeforeProducts
    PROVE  n <= BeforeReviews /\ FirstOf(ProductOrder, n - BeforeInventory) = {}
<1>1. n <= BeforeReviews /\ \A i \in DOMAIN ProductOrder : ~(i <= n - BeforeInventory)
  BY Layout
<1> QED
  BY <1>1 DEF FirstOf

LEMMA SeedHasProducts == \A s \in Seeds : DOMAIN s.products # {}
<1>1. ProductOrder \in Seq(ProductIds) /\ ProductOrder # <<>>
  BY DurableAssumption DEF DurableAssumption
<1>2. ProductOrder[1] \in ElementsOf(ProductOrder)
  BY <1>1 DEF ElementsOf
<1> QED
  BY <1>2, DurableAssumption DEF DurableAssumption

\* All rows of #seed into empty tables are the seed.
LEMMA LoadedAll ==
    ASSUME seed \in Seeds
    PROVE  Loaded(NoRows, RowCount) = seed
<1>1. /\ IsCatalogue(seed)
      /\ ElementsOf(CategoryOrder) = DOMAIN seed.categories
      /\ ElementsOf(ProductOrder) = DOMAIN seed.products
      /\ ElementsOf(ProductOrder) = DOMAIN seed.inventory
      /\ CategoryOrder \in Seq(CategoryIds)
      /\ ProductOrder \in Seq(ProductIds)
      /\ ProductOrder # <<>>
  BY DurableAssumption DEF DurableAssumption
<1>2. seed.reviews \in Seq(Review)
  BY <1>1 DEF IsCatalogue
<1>a. PICK c \in Nat, p \in Nat, r \in Nat :
         /\ p > 0
         /\ DOMAIN CategoryOrder = 1..c /\ DOMAIN ProductOrder = 1..p
         /\ BeforeProducts = c /\ BeforeReviews = c + p
         /\ BeforeInventory = c + p + r /\ RowCount = c + p + r + p
  BY Layout
<1>3. FirstOf(CategoryOrder, RowCount) = ElementsOf(CategoryOrder)
  <2>1. \A i \in DOMAIN CategoryOrder : i <= RowCount
    BY <1>a
  <2> QED
    BY <2>1, WholeOrder
<1>4. FirstOf(ProductOrder, RowCount - BeforeProducts) = ElementsOf(ProductOrder)
  <2>1. \A i \in DOMAIN ProductOrder : i <= RowCount - BeforeProducts
    BY <1>a
  <2> QED
    BY <2>1, WholeOrder
<1>5. FirstOf(ProductOrder, RowCount - BeforeInventory) = ElementsOf(ProductOrder)
  <2>1. \A i \in DOMAIN ProductOrder : i <= RowCount - BeforeInventory
    BY <1>a
  <2> QED
    BY <2>1, WholeOrder
<1>6. ReviewsAmong(RowCount) = seed.reviews
  BY <1>a DEF ReviewsAmong
<1>7. InsertInto(<<>>, seed.categories, ElementsOf(CategoryOrder)) = seed.categories
  BY <1>1 DEF InsertInto, IsCatalogue, IsTable
<1>8. InsertInto(<<>>, seed.products, ElementsOf(ProductOrder)) = seed.products
  BY <1>1 DEF InsertInto, IsCatalogue, IsTable
<1>9. InsertInto(<<>>, seed.inventory, ElementsOf(ProductOrder)) = seed.inventory
  BY <1>1 DEF InsertInto, IsCatalogue, IsTable
<1>10. <<>> \o seed.reviews = seed.reviews
  BY <1>2
<1> QED
  BY <1>1, <1>3, <1>4, <1>5, <1>6, <1>7, <1>8, <1>9, <1>10 DEF Loaded, NoRows, IsCatalogue

\* The number of rows of #seed is a number.
LEMMA RowCountNat ==
    ASSUME seed \in Seeds
    PROVE  RowCount \in Nat
BY Layout

-----------------------------------------------------------------------------
(* Type correctness.                                                       *)

\* The new row of a product or an inventory entry makes a catalogue again, and
\* so do a new name and a new review.
LEMMA PricedType ==
    ASSUME IsCatalogue(tables), NEW id \in DOMAIN tables.products, NEW row \in Product
    PROVE  IsCatalogue([tables EXCEPT !.products[id] = row])
BY DEF IsCatalogue, IsTable

LEMMA ReviewedType ==
    ASSUME IsCatalogue(tables), NEW id \in ProductIds, NEW n \in Nat
    PROVE  IsCatalogue([tables EXCEPT !.reviews = Append(@, AddedReview(n, id))])
<1>1. AddedReview(n, id) \in Review
  BY DEF AddedReview, Review, ReviewId
<1>2. Append(tables.reviews, AddedReview(n, id)) \in Seq(Review)
  BY <1>1 DEF IsCatalogue
<1> DEFINE new == Append(tables.reviews, AddedReview(n, id))
<1>3. [tables EXCEPT !.reviews = Append(@, AddedReview(n, id))] = [tables EXCEPT !.reviews = new]
  OBVIOUS
<1> HIDE DEF new
<1>4. \A reviews \in Seq(Review) : IsCatalogue([tables EXCEPT !.reviews = reviews])
  BY DEF IsCatalogue
<1> QED
  BY <1>2, <1>3, <1>4 DEF new

LEMMA ReservedType ==
    ASSUME IsCatalogue(tables), NEW id \in DOMAIN tables.inventory, NEW row \in Inventory
    PROVE  IsCatalogue([tables EXCEPT !.inventory[id] = row])
BY DEF IsCatalogue, IsTable

LEMMA RenamedType ==
    ASSUME IsCatalogue(tables), NEW id \in DOMAIN tables.categories, NEW name \in Names
    PROVE  IsCatalogue([tables EXCEPT !.categories[id] = name])
BY DEF IsCatalogue, IsTable

\* Both ways #seed can end leave a catalogue and a flag.
LEMMA SeedingType ==
    ASSUME TypeOK, NEW op, NEW t, IsCatalogue(t), SeedCompletes(t) \/ SeedStops(op, t)
    PROVE  IsCatalogue(tables') /\ flag' \in {"absent", "clean", "dirty"}
<1>1. seed \in Seeds
  BY DEF TypeOK
<1>2. CASE SeedCompletes(t)
  BY <1>1, <1>2, LoadedType, RowCountNat DEF SeedCompletes
<1>3. CASE SeedStops(op, t)
  <2>1. PICK n \in 0..RowCount : tables' = Loaded(t, n) /\ flag' = flag
    BY <1>3 DEF SeedStops
  <2>2. n \in Nat
    BY <1>1, RowCountNat
  <2> QED
    BY <1>1, <2>1, <2>2, LoadedType DEF TypeOK
<1> QED
  BY <1>2, <1>3

\* The part of TypeOK a call can disturb.
StoredOK ==
    /\ IsCatalogue(tables)
    /\ flag \in {"absent", "clean", "dirty"}
    /\ reply.op \in Operations \cup {"construct", "none"}
    /\ reply.outcome \in Refusals \cup {"ok"}

\* A write that is marked, or that fails, leaves a catalogue.
LEMMA WriteType ==
    ASSUME TypeOK, NEW op \in Operations, NEW changed, IsCatalogue(changed),
           NEW answer, answer.op = op, answer.outcome = "ok",
           WriteThenMark(op, changed, answer)
    PROVE  StoredOK'
BY DEF WriteThenMark, StoredOK, TypeOK, Refusal, Refusals

LEMMA RefuseType ==
    ASSUME TypeOK, NEW op \in Operations, NEW why \in Refusals, Refuse(op, why)
    PROVE  StoredOK'
BY DEF Refuse, StoredOK, TypeOK, Refusal

LEMMA InitType == Init => TypeOK
<1> SUFFICES ASSUME Init
             PROVE  TypeOK
  OBVIOUS
<1>1. IsCatalogue(tables)
  BY DurableAssumption, NoRowsType DEF DurableAssumption, Init
<1>2. reply.op = "none" /\ reply.outcome = "ok"
  BY DEF Init, NoReply, Done
<1> QED
  BY <1>1, <1>2 DEF Init, TypeOK

LEMMA ConstructType == TypeOK /\ Construct => TypeOK'
<1> SUFFICES ASSUME TypeOK, Construct
             PROVE  TypeOK'
  OBVIOUS
<1>1. seed' = seed /\ up' \in BOOLEAN
  BY DEF Construct
<1>2. CASE UNCHANGED <<tables, flag, reply>>
  BY <1>1, <1>2 DEF TypeOK, IsCatalogue, IsTable
<1>3. CASE SeedCompletes(tables) /\ UNCHANGED reply
  BY <1>1, <1>3, SeedingType DEF TypeOK
<1>4. CASE /\ SeedStops("construct", tables) \/ UNCHANGED <<tables, flag>>
           /\ reply' = Refusal("construct", "StorageError")
  BY <1>1, <1>4, SeedingType DEF TypeOK, Refusal, Refusals
<1> QED
  BY <1>2, <1>3, <1>4 DEF Construct

\* Every method leaves a catalogue, a flag and an answer.
LEMMA CallType == TypeOK /\ Call => TypeOK'
<1> SUFFICES ASSUME TypeOK, Call
             PROVE  StoredOK'
  BY DEF Call, TypeOK, StoredOK
<1>1. IsCatalogue(tables)
  BY DEF TypeOK
<1>2. ASSUME NEW id \in ProductIds, NEW price \in Money, NEW at \in Clock,
             SetPrice(id, price, at)
      PROVE  StoredOK'
  <2>1. CASE id \in DOMAIN tables.products
    <3> DEFINE row == Priced(price, at)
    <3>1. row \in Product
      BY DurableAssumption DEF DurableAssumption, Product, Priced
    <3>2. IsCatalogue([tables EXCEPT !.products[id] = row])
      BY <1>1, <2>1, <3>1, PricedType
    <3>3. WriteThenMark("setPrice", [tables EXCEPT !.products[id] = row], Answer("setPrice", row))
      BY <1>2, <2>1 DEF SetPrice
    <3> QED
      BY <3>2, <3>3, WriteType DEF Answer, Operations
  <2>2. CASE id \notin DOMAIN tables.products
    BY <1>2, <2>2, RefuseType DEF SetPrice, Operations, Refusals
  <2> QED
    BY <2>1, <2>2
<1>3. ASSUME NEW id \in ProductIds, AddReview(id)
      PROVE  StoredOK'
  <2>1. CASE id \in DOMAIN tables.products
    <3> DEFINE review == NewReview(id)
    <3>1. Len(tables.reviews) + 1 \in Nat
      BY <1>1 DEF IsCatalogue
    <3>2. IsCatalogue([tables EXCEPT !.reviews = Append(@, review)])
      BY <1>1, <3>1, ReviewedType DEF NewReview
    <3>3. WriteThenMark("addReview", [tables EXCEPT !.reviews = Append(@, review)],
                        Answer("addReview", review))
      BY <1>3, <2>1 DEF AddReview
    <3> QED
      BY <3>2, <3>3, WriteType DEF Answer, Operations
  <2>2. CASE id \notin DOMAIN tables.products
    BY <1>3, <2>2, RefuseType DEF AddReview, Operations, Refusals
  <2> QED
    BY <2>1, <2>2
<1>4. ASSUME NEW id \in ProductIds, NEW count \in Counts, NEW at \in Clock,
             ReserveStock(id, count, at)
      PROVE  StoredOK'
  <2> DEFINE row == Reserved(tables.inventory[id], count, at)
  <2>1. CASE /\ id \in DOMAIN tables.inventory
             /\ WriteThenMark("reserveStock", [tables EXCEPT !.inventory[id] = row],
                              Answer("reserveStock", row))
    <3>1. tables.inventory[id].available \in Int
      BY <1>1, <2>1 DEF IsCatalogue, IsTable, Inventory
    <3>2. row \in Inventory
      BY <3>1, DurableAssumption DEF DurableAssumption, Inventory, Reserved
    <3>3. IsCatalogue([tables EXCEPT !.inventory[id] = row])
      BY <1>1, <2>1, <3>2, ReservedType
    <3> QED
      BY <2>1, <3>3, WriteType DEF Answer, Operations
  <2>2. CASE Refuse("reserveStock", "Unavailable")
    BY <2>2, RefuseType DEF Operations, Refusals
  <2>3. CASE Refuse("reserveStock", "NotFound")
    BY <2>3, RefuseType DEF Operations, Refusals
  <2> QED
    BY <1>4, <2>1, <2>2, <2>3 DEF ReserveStock
<1>5. ASSUME NEW id \in CategoryIds, NEW name \in Names, RenameCategory(id, name)
      PROVE  StoredOK'
  <2>1. CASE id \in DOMAIN tables.categories
    <3>1. IsCatalogue([tables EXCEPT !.categories[id] = name])
      BY <1>1, <2>1, RenamedType
    <3>2. WriteThenMark("renameCategory", [tables EXCEPT !.categories[id] = name],
                        Answer("renameCategory", name))
      BY <1>5, <2>1 DEF RenameCategory
    <3> QED
      BY <3>1, <3>2, WriteType DEF Answer, Operations
  <2>2. CASE id \notin DOMAIN tables.categories
    BY <1>5, <2>2, RefuseType DEF RenameCategory, Operations, Refusals
  <2> QED
    BY <2>1, <2>2
<1>6. ASSUME Reset
      PROVE  StoredOK'
  <2>1. reply' = Done("reset") \/ reply' = Refusal("reset", "StorageError")
    BY <1>6 DEF Reset
  <2>2. CASE UNCHANGED <<tables, flag>>
    BY <2>1, <2>2 DEF TypeOK, StoredOK, Done, Refusal, Operations, Refusals
  <2>3. CASE SeedCompletes(Emptied(4)) \/ SeedStops("reset", Emptied(4))
    BY <1>1, <2>1, <2>3, EmptiedType, SeedingType DEF StoredOK, Done, Refusal, Operations, Refusals
  <2>4. CASE tables' \in {Emptied(n) : n \in 0..3} /\ UNCHANGED flag
    BY <1>1, <2>1, <2>4, EmptiedType DEF TypeOK, StoredOK, Done, Refusal, Operations, Refusals
  <2> QED
    BY <1>6, <2>2, <2>3, <2>4 DEF Reset
<1> QED
  BY <1>2, <1>3, <1>4, <1>5, <1>6 DEF Call

LEMMA NextType == TypeOK /\ [Next]_vars => TypeOK'
<1> SUFFICES ASSUME TypeOK, [Next]_vars
             PROVE  TypeOK'
  OBVIOUS
<1>1. CASE Construct
  BY <1>1, ConstructType
<1>2. CASE Evict
  BY <1>2 DEF Evict, TypeOK
<1>3. CASE Deploy
  BY <1>3 DEF Deploy, TypeOK
<1>4. CASE Call
  BY <1>4, CallType
<1>5. CASE UNCHANGED vars
  BY <1>5 DEF vars, TypeOK
<1> QED
  BY <1>1, <1>2, <1>3, <1>4, <1>5 DEF Next

\* Whatever fails, is evicted or is deployed, the tables hold well-formed
\* rows, the mark one of its three values, the answer one of the port's.
THEOREM TypeCorrect == Spec => []TypeOK
BY InitType, NextType, PTL DEF Spec

-----------------------------------------------------------------------------
(* The clean mark.  It is right as long as a statement can only fail in the *)
(* constructor: CleanHoldsASeed is inductive together with UnseededIsEmpty, *)
(* which says what the constructor seeds on top of.                         *)

CleanInv == TypeOK /\ CleanHoldsASeed /\ UnseededIsEmpty

\* A table without rows is the empty table.
LEMMA NoRowsLeft ==
    ASSUME NEW Ids, NEW Row, NEW table, IsTable(table, Ids, Row), DOMAIN table = {}
    PROVE  table = <<>>
BY DEF IsTable

\* Into tables without products, #seed can only complete when they are empty,
\* and then it leaves the seed.
LEMMA SeedingFromNothing ==
    ASSUME CleanInv, DOMAIN tables.products = {}, SeedCompletes(tables)
    PROVE  tables' = seed /\ flag' = "clean"
<1>1. seed \in Seeds /\ IsCatalogue(tables)
  BY DEF CleanInv, TypeOK
<1>2. /\ DOMAIN tables.categories \subseteq ElementsOf(CategoryOrder)
      /\ tables.reviews = <<>>
      /\ DOMAIN tables.inventory = {}
  BY DEF CleanInv, UnseededIsEmpty
<1>3. \A i \in DOMAIN CategoryOrder : i <= RowCount
  BY <1>1, CategoriesFirst
<1>4. DOMAIN tables.categories = {}
  BY <1>2, <1>3, WholeOrder DEF SeedCompletes, Fits
<1>5. tables = NoRows
  BY <1>1, <1>2, <1>4, NoRowsLeft DEF IsCatalogue, NoRows
<1> QED
  BY <1>1, <1>5, LoadedAll DEF SeedCompletes

\* With no statement that throws, #seed completes there.
LEMMA SeedingDoesNotClash ==
    ASSUME CleanInv, DOMAIN tables.products = {}, "construct" \notin FailingOps,
           DOMAIN tables.categories = {}
    PROVE  ~SeedStops("construct", tables)
BY DEF CleanInv, UnseededIsEmpty, SeedStops, Fits, ReviewIdsOf

\* #seed stopped before its end still inserts products before what depends on
\* them.
LEMMA StoppedSeeding ==
    ASSUME CleanInv, DOMAIN tables.products = {}, SeedStops("construct", tables)
    PROVE  UnseededIsEmpty' /\ flag' = flag
<1>1. seed \in Seeds /\ IsCatalogue(tables)
  BY DEF CleanInv, TypeOK
<1>2. PICK n \in 0..RowCount : tables' = Loaded(tables, n) /\ flag' = flag
  BY DEF SeedStops
<1>3. n \in Nat
  BY <1>1, RowCountNat
<1>4. SUFFICES ASSUME DOMAIN Loaded(tables, n).products = {}
               PROVE  /\ DOMAIN Loaded(tables, n).categories \subseteq ElementsOf(CategoryOrder)
                      /\ Loaded(tables, n).reviews = <<>>
                      /\ DOMAIN Loaded(tables, n).inventory = {}
  BY <1>2 DEF UnseededIsEmpty
<1>5. FirstOf(ProductOrder, n - BeforeProducts) = {}
  BY <1>4 DEF Loaded, InsertInto
<1>6. n <= BeforeProducts
  BY <1>1, <1>3, <1>5, ProductsNext
<1>7. /\ n <= BeforeReviews
      /\ FirstOf(ProductOrder, n - BeforeInventory) = {}
  BY <1>1, <1>3, <1>6, LaterRowsAfterProducts
<1>8. /\ DOMAIN tables.categories \subseteq ElementsOf(CategoryOrder)
      /\ tables.reviews = <<>>
      /\ DOMAIN tables.inventory = {}
  BY DEF CleanInv, UnseededIsEmpty
<1> QED
  BY <1>7, <1>8, FirstOfElements DEF Loaded, InsertInto, ReviewsAmong

\* Where no statement of reset fails, a reset finds the mark clean and does
\* nothing, or leaves the seed.
LEMMA ResetOutcome ==
    ASSUME CleanInv, FailingOps \subseteq {"construct"}, Reset
    PROVE  /\ reply' = Done("reset")
           /\ \/ ~IsDirty /\ UNCHANGED <<tables, flag>>
              \/ tables' = seed /\ flag' = "clean"
<1>1. seed \in Seeds
  BY DEF CleanInv, TypeOK
<1>2. \A n : Fits(NoRows, n)
  BY DEF Fits, NoRows, ReviewIdsOf
<1>3. ~SeedStops("reset", Emptied(4))
  BY <1>2, EmptiedAll DEF SeedStops
<1>4. SeedCompletes(Emptied(4)) => tables' = seed /\ flag' = "clean"
  BY <1>1, EmptiedAll, LoadedAll DEF SeedCompletes
<1> QED
  BY <1>3, <1>4 DEF Reset

\* Every other method marks what it changes, and takes no product away.
LEMMA CleanWrite ==
    ASSUME CleanInv, FailingOps \subseteq {"construct"}, Call, ~Reset
    PROVE  CleanHoldsASeed' /\ UnseededIsEmpty'
<1>1. IsCatalogue(tables)
  BY DEF CleanInv, TypeOK
<1>2. CASE UNCHANGED <<tables, flag>>
  BY <1>2 DEF CleanInv, CleanHoldsASeed, UnseededIsEmpty
<1>3. ASSUME flag' = "dirty", DOMAIN tables'.products # {}
      PROVE  CleanHoldsASeed' /\ UnseededIsEmpty'
  BY <1>3 DEF CleanHoldsASeed, UnseededIsEmpty
<1>4. ASSUME NEW id \in ProductIds, NEW price \in Money, NEW at \in Clock,
             SetPrice(id, price, at)
      PROVE  CleanHoldsASeed' /\ UnseededIsEmpty'
  BY <1>1, <1>2, <1>3, <1>4 DEF SetPrice, WriteThenMark, Refuse, IsCatalogue, IsTable
<1>5. ASSUME NEW id \in ProductIds, AddReview(id)
      PROVE  CleanHoldsASeed' /\ UnseededIsEmpty'
  BY <1>1, <1>2, <1>3, <1>5 DEF AddReview, WriteThenMark, Refuse, IsCatalogue, IsTable
<1>6. ASSUME NEW id \in ProductIds, NEW count \in Counts, NEW at \in Clock,
             ReserveStock(id, count, at)
      PROVE  CleanHoldsASeed' /\ UnseededIsEmpty'
  BY <1>1, <1>2, <1>3, <1>6 DEF ReserveStock, WriteThenMark, Refuse, IsCatalogue, IsTable
<1>7. ASSUME NEW id \in CategoryIds, NEW name \in Names, RenameCategory(id, name)
      PROVE  CleanHoldsASeed' /\ UnseededIsEmpty'
  <2>1. CASE /\ id \in DOMAIN tables.categories
             /\ tables' = [tables EXCEPT !.categories[id] = name]
             /\ flag' = "dirty"
    <3>1. /\ tables'.products = tables.products
          /\ tables'.reviews = tables.reviews
          /\ tables'.inventory = tables.inventory
          /\ DOMAIN tables'.categories = DOMAIN tables.categories
      BY <1>1, <2>1 DEF IsCatalogue, IsTable
    <3> QED
      BY <2>1, <3>1 DEF CleanInv, CleanHoldsASeed, UnseededIsEmpty
  <2> QED
    BY <1>2, <1>7, <2>1 DEF RenameCategory, WriteThenMark, Refuse
<1> QED
  BY <1>4, <1>5, <1>6, <1>7 DEF Call

LEMMA CleanInit == Init => CleanInv
<1> SUFFICES ASSUME Init
             PROVE  CleanHoldsASeed /\ UnseededIsEmpty
  BY InitType DEF CleanInv
<1> QED
  BY DurableAssumption DEF DurableAssumption, Init, CleanHoldsASeed, UnseededIsEmpty, NoRows

\* A clean reset or mutation, or a construction that fails, keeps it so.
LEMMA CleanNext ==
    ASSUME FailingOps \subseteq {"construct"}
    PROVE  CleanInv /\ [Next]_vars => CleanInv'
<1> SUFFICES ASSUME CleanInv, [Next]_vars
             PROVE  CleanHoldsASeed' /\ UnseededIsEmpty'
  BY NextType DEF CleanInv
<1>1. seed \in Seeds /\ DOMAIN seed.products # {}
  BY SeedHasProducts DEF CleanInv, TypeOK
<1>2. CASE UNCHANGED <<tables, flag>>
  BY <1>2 DEF CleanInv, CleanHoldsASeed, UnseededIsEmpty
<1>3. CASE tables' = seed /\ flag' = "clean"
  BY <1>1, <1>3 DEF CleanHoldsASeed, UnseededIsEmpty
<1>4. CASE Construct
  <2>1. CASE DOMAIN tables.products = {} /\ SeedCompletes(tables)
    BY <1>3, <2>1, SeedingFromNothing
  <2>2. CASE DOMAIN tables.products = {} /\ SeedStops("construct", tables)
    <3>1. UnseededIsEmpty' /\ flag' = flag
      BY <2>2, StoppedSeeding
    <3>2. flag # "clean"
      BY <1>1, <2>2, SeedHasProducts DEF CleanInv, CleanHoldsASeed
    <3> QED
      BY <3>1, <3>2 DEF CleanHoldsASeed
  <2> QED
    BY <1>2, <1>4, <2>1, <2>2 DEF Construct
<1>5. CASE Evict \/ Deploy
  BY <1>2, <1>5 DEF Evict, Deploy
<1>6. CASE Call
  BY <1>2, <1>3, <1>6, ResetOutcome, CleanWrite
<1> QED
  BY <1>2, <1>4, <1>5, <1>6 DEF Next, vars

LEMMA CleanInvariant ==
    ASSUME FailingOps \subseteq {"construct"}
    PROVE  Spec => []CleanInv
BY CleanInit, CleanNext, PTL DEF Spec

\* While no statement of a mutation or a reset throws, a clean mark stands on
\* a catalogue some release's seed() produced: whatever the order of writes,
\* resets, evictions, half-finished constructions and deployments.
THEOREM CleanMarkIsRight ==
    ASSUME FailingOps \subseteq {"construct"}
    PROVE  Spec => []CleanHoldsASeed
<1>1. CleanInv => CleanHoldsASeed
  BY DEF CleanInv
<1> QED
  BY <1>1, CleanInvariant, PTL

\* Under the same condition the constructor may count products only: an
\* object without any is empty enough for the whole seed to fit.
THEOREM UnseededFits ==
    ASSUME FailingOps \subseteq {"construct"}
    PROVE  Spec => []UnseededIsEmpty
<1>1. CleanInv => UnseededIsEmpty
  BY DEF CleanInv
<1> QED
  BY <1>1, CleanInvariant, PTL

-----------------------------------------------------------------------------
(* Review ids, whatever fails.  DistinctIds alone is not inductive: the new *)
(* id must also be larger than any the tables were given before.            *)

ReviewInv == TypeOK /\ DistinctIds(tables.reviews) /\ Numbered(tables.reviews)

\* The reviews among the first rows of #seed are the first of the seed's.
LEMMA ReviewsAmongSeed ==
    ASSUME seed \in Seeds, NEW n \in Nat
    PROVE  \A i \in DOMAIN ReviewsAmong(n) :
              i \in DOMAIN seed.reviews /\ ReviewsAmong(n)[i] = seed.reviews[i]
<1>1. seed.reviews \in Seq(Review)
  BY DurableAssumption DEF DurableAssumption, IsCatalogue
<1>2. CASE n > BeforeReviews /\ n <= BeforeInventory
  <2>1. PICK m \in 0..Len(seed.reviews) : m = n - BeforeReviews
    <3>1. BeforeReviews \in Nat
      BY Layout
    <3> QED
      BY <1>1, <1>2, <3>1 DEF BeforeInventory
  <2>2. ReviewsAmong(n) = SubSeq(seed.reviews, 1, m)
    BY <1>2, <2>1, Layout DEF ReviewsAmong
  <2> QED
    BY <1>1, <2>1, <2>2
<1>3. CASE n <= BeforeReviews
  BY <1>3 DEF ReviewsAmong
<1>4. CASE n > BeforeInventory
  <2>1. ReviewsAmong(n) = seed.reviews
    BY <1>4, Layout DEF ReviewsAmong
  <2> QED
    BY <2>1
<1> QED
  BY <1>2, <1>3, <1>4, Layout

\* #seed, complete or stopped, keeps ids apart: it inserts none that is there.
\* The number in a review's id is one.
LEMMA ReviewNumber ==
    ASSUME NEW review \in Review
    PROVE  review.id[2] \in Nat
<1>1. review.id \in ReviewId
  BY DEF Review
<1> QED
  BY <1>1 DEF ReviewId

KeepsIds(t) == DistinctIds(t.reviews) /\ Numbered(t.reviews)

LEMMA SeedingKeepsIds ==
    ASSUME seed \in Seeds, NEW t, IsCatalogue(t), DistinctIds(t.reviews), Numbered(t.reviews),
           NEW n \in Nat, Fits(t, n)
    PROVE  DistinctIds(Loaded(t, n).reviews) /\ Numbered(Loaded(t, n).reviews)
<1> DEFINE old == t.reviews
           new == ReviewsAmong(n)
<1>1. old \in Seq(Review) /\ new \in Seq(Review)
  BY ReviewsAmongType DEF IsCatalogue
<1>2. Loaded(t, n).reviews = old \o new
  BY DEF Loaded
<1>3. \A i \in DOMAIN new : /\ i \in DOMAIN seed.reviews
                            /\ new[i] = seed.reviews[i]
                            /\ new[i].id[1] = "seeded"
  BY ReviewsAmongSeed, DurableAssumption DEF DurableAssumption
<1>4. DistinctIds(new)
  BY <1>3, DurableAssumption DEF DurableAssumption, DistinctIds
<1>5. \A i \in DOMAIN old, j \in DOMAIN new : old[i].id # new[j].id
  BY DEF Fits, ReviewIdsOf
<1> HIDE DEF old, new
<1>6. /\ Len(old) \in Nat /\ Len(new) \in Nat
      /\ DOMAIN old = 1..Len(old) /\ DOMAIN new = 1..Len(new)
      /\ DOMAIN (old \o new) = 1..(Len(old) + Len(new))
      /\ Len(old \o new) = Len(old) + Len(new)
  BY <1>1
<1>7. \A i \in DOMAIN (old \o new) :
         \/ i \in DOMAIN old /\ (old \o new)[i] = old[i]
         \/ i - Len(old) \in DOMAIN new /\ (old \o new)[i] = new[i - Len(old)]
  BY <1>1, <1>6
<1>8. DistinctIds(old \o new)
  <2> SUFFICES ASSUME NEW i \in DOMAIN (old \o new), NEW j \in DOMAIN (old \o new),
                      (old \o new)[i].id = (old \o new)[j].id
               PROVE  i = j
    BY DEF DistinctIds
  <2>1. CASE i \in DOMAIN old /\ (old \o new)[i] = old[i]
    BY <1>5, <1>7, <2>1, DistinctIds(old) DEF DistinctIds, old
  <2>2. CASE i - Len(old) \in DOMAIN new /\ (old \o new)[i] = new[i - Len(old)]
    <3>1. j - Len(old) \in DOMAIN new /\ (old \o new)[j] = new[j - Len(old)]
      BY <1>5, <1>7, <2>2
    <3>2. i - Len(old) = j - Len(old)
      BY <1>4, <2>2, <3>1 DEF DistinctIds
    <3> QED
      BY <1>6, <3>2
  <2> QED
    BY <1>7, <2>1, <2>2
<1>9. Numbered(old \o new)
  <2> SUFFICES ASSUME NEW i \in DOMAIN (old \o new), (old \o new)[i].id[1] = "added"
               PROVE  (old \o new)[i].id[2] <= Len(old \o new)
    BY DEF Numbered
  <2>1. i \in DOMAIN old /\ (old \o new)[i] = old[i]
    BY <1>3, <1>7
  <2>2. old[i].id[2] <= Len(old)
    BY <2>1, Numbered(old) DEF Numbered, old
  <2>3. old[i].id[2] \in Nat
    BY <1>1, <2>1, ReviewNumber
  <2> QED
    BY <1>6, <2>1, <2>2, <2>3
<1> QED
  BY <1>2, <1>8, <1>9

\* A new review's number is one more than any review's.
LEMMA AddingKeepsIds ==
    ASSUME NEW reviews \in Seq(Review), DistinctIds(reviews), Numbered(reviews),
           NEW id \in ProductIds
    PROVE  LET more == Append(reviews, AddedReview(Len(reviews) + 1, id))
           IN DistinctIds(more) /\ Numbered(more)
<1> DEFINE review == AddedReview(Len(reviews) + 1, id)
           more == Append(reviews, review)
<1>1. review.id[1] = "added" /\ review.id[2] = Len(reviews) + 1
  BY DEF AddedReview
<1>2. \A i \in DOMAIN reviews : reviews[i].id[2] \in Nat
  BY ReviewNumber
<1>3. \A i \in DOMAIN reviews : reviews[i].id # review.id
  BY <1>1, <1>2 DEF Numbered
<1> HIDE DEF review
<1>4. /\ Len(more) = Len(reviews) + 1
      /\ DOMAIN more = DOMAIN reviews \cup {Len(reviews) + 1}
      /\ \A i \in DOMAIN reviews : more[i] = reviews[i] /\ i <= Len(reviews)
      /\ more[Len(reviews) + 1] = review
  OBVIOUS
<1> HIDE DEF more
<1>5. DistinctIds(more)
  BY <1>3, <1>4 DEF DistinctIds
<1>6. Numbered(more)
  BY <1>1, <1>2, <1>4 DEF Numbered
<1> QED
  BY <1>5, <1>6 DEF more, review

\* Every call keeps review ids apart, and so does every failure of one.
LEMMA CallKeepsIds ==
    ASSUME ReviewInv, Call
    PROVE  DistinctIds(tables'.reviews) /\ Numbered(tables'.reviews)
<1>1. IsCatalogue(tables) /\ seed \in Seeds /\ tables.reviews \in Seq(Review)
  BY DEF ReviewInv, TypeOK, IsCatalogue
<1>2. CASE tables'.reviews = tables.reviews
  BY <1>2 DEF ReviewInv
<1>3. ASSUME NEW id \in ProductIds, AddReview(id)
      PROVE  DistinctIds(tables'.reviews) /\ Numbered(tables'.reviews)
  <2>1. CASE tables' = [tables EXCEPT !.reviews =
                           Append(@, AddedReview(Len(tables.reviews) + 1, id))]
    <3>1. tables'.reviews = Append(tables.reviews, AddedReview(Len(tables.reviews) + 1, id))
      BY <1>1, <2>1 DEF IsCatalogue
    <3> QED
      BY <1>1, <3>1, AddingKeepsIds DEF ReviewInv
  <2> QED
    BY <1>2, <1>3, <2>1 DEF AddReview, NewReview, WriteThenMark, Refuse
<1>4. CASE Reset
  <2>1. KeepsIds(Emptied(4))
    BY EmptiedAll DEF NoRows, KeepsIds, DistinctIds, Numbered
  <2>2. IsCatalogue(Emptied(4))
    BY <1>1, EmptiedType
  <2>3. CASE SeedCompletes(Emptied(4)) \/ SeedStops("reset", Emptied(4))
    <3>1. PICK n \in 0..RowCount : Fits(Emptied(4), n) /\ tables' = Loaded(Emptied(4), n)
      BY <1>1, <2>3, RowCountNat DEF SeedCompletes, SeedStops
    <3> QED
      BY <1>1, <2>1, <2>2, <3>1, RowCountNat, SeedingKeepsIds DEF KeepsIds
  <2>4. CASE tables' \in {Emptied(n) : n \in 0..3}
    <3>1. tables'.reviews \in {<<>>, tables.reviews}
      BY <2>4 DEF Emptied
    <3> QED
      BY <1>2, <3>1 DEF DistinctIds, Numbered
  <2> QED
    BY <1>2, <1>4, <2>3, <2>4 DEF Reset
<1>5. CASE \/ \E id \in ProductIds, price \in Money, at \in Clock : SetPrice(id, price, at)
           \/ \E id \in ProductIds, count \in Counts, at \in Clock : ReserveStock(id, count, at)
           \/ \E id \in CategoryIds, name \in Names : RenameCategory(id, name)
  <2>1. tables'.reviews = tables.reviews
    BY <1>1, <1>5 DEF SetPrice, ReserveStock, RenameCategory, WriteThenMark, Refuse, IsCatalogue
  <2> QED
    BY <1>2, <2>1
<1> QED
  BY <1>3, <1>4, <1>5 DEF Call

\* The primary key of reviews never refuses a review, in whatever state failed
\* statements of any operation, evictions and new releases leave the tables.
THEOREM ReviewIdsNeverClash == Spec => []ReviewIdsUnique
<1>1. Init => ReviewInv
  <2> SUFFICES ASSUME Init
               PROVE  DistinctIds(tables.reviews) /\ Numbered(tables.reviews)
    BY InitType DEF ReviewInv
  <2>1. CASE tables = NoRows
    BY <2>1 DEF NoRows, DistinctIds, Numbered
  <2> QED
    BY <2>1, DurableAssumption DEF DurableAssumption, Init
<1>2. ReviewInv /\ [Next]_vars => ReviewInv'
  <2> SUFFICES ASSUME ReviewInv, [Next]_vars
               PROVE  DistinctIds(tables'.reviews) /\ Numbered(tables'.reviews)
    BY NextType DEF ReviewInv
  <2>1. IsCatalogue(tables) /\ seed \in Seeds
    BY DEF ReviewInv, TypeOK
  <2>2. CASE tables' = tables
    BY <2>2 DEF ReviewInv
  <2>3. CASE SeedCompletes(tables) \/ SeedStops("construct", tables)
    <3>1. PICK n \in 0..RowCount : Fits(tables, n) /\ tables' = Loaded(tables, n)
      BY <2>1, <2>3, RowCountNat DEF SeedCompletes, SeedStops
    <3> QED
      BY <2>1, <3>1, RowCountNat, SeedingKeepsIds DEF ReviewInv
  <2>4. CASE Call
    BY <2>4, CallKeepsIds
  <2> QED
    BY <2>2, <2>3, <2>4 DEF Next, vars, Construct, Evict, Deploy
<1>3. ReviewInv => ReviewIdsUnique
  BY DEF ReviewInv, ReviewIdsUnique
<1> QED
  BY <1>1, <1>2, <1>3, PTL DEF Spec

-----------------------------------------------------------------------------
(* Stock, whatever fails.                                                  *)

\* Rows of #seed add no product that is oversold, and DELETEs none either.
LEMMA SeedingKeepsStock ==
    ASSUME seed \in Seeds, NEW t, NoneOversold(t), NEW n
    PROVE  NoneOversold(Loaded(t, n))
<1> DEFINE ids == FirstOf(ProductOrder, n - BeforeInventory)
<1>1. ids \subseteq DOMAIN seed.inventory /\ NoneOversold(seed)
  BY FirstOfElements, DurableAssumption DEF DurableAssumption
<1>2. Loaded(t, n).inventory = InsertInto(t.inventory, seed.inventory, ids)
  BY DEF Loaded
<1> HIDE DEF ids
<1>3. ASSUME NEW id \in DOMAIN t.inventory \cup ids
      PROVE  InsertInto(t.inventory, seed.inventory, ids)[id].available >= 0
  BY <1>1 DEF InsertInto, NoneOversold
<1>4. DOMAIN InsertInto(t.inventory, seed.inventory, ids) = DOMAIN t.inventory \cup ids
  BY DEF InsertInto
<1> QED
  BY <1>2, <1>3, <1>4 DEF NoneOversold

LEMMA EmptyingKeepsStock ==
    ASSUME NoneOversold(tables), NEW n
    PROVE  NoneOversold(Emptied(n))
BY DEF Emptied, NoneOversold

StockInv == TypeOK /\ StockNeverNegative

\* A reservation leaves what was there less no more than there was, and no
\* other call but a reset touches the inventory.
LEMMA CallKeepsStock ==
    ASSUME StockInv, Call
    PROVE  StockNeverNegative'
<1>1. IsCatalogue(tables) /\ seed \in Seeds /\ NoneOversold(tables)
  BY DEF StockInv, TypeOK, StockNeverNegative
<1>2. CASE tables'.inventory = tables.inventory
  BY <1>1, <1>2 DEF StockNeverNegative, NoneOversold
<1>3. ASSUME NEW id \in ProductIds, NEW count \in Counts, NEW at \in Clock,
             ReserveStock(id, count, at)
      PROVE  StockNeverNegative'
  <2> DEFINE row == Reserved(tables.inventory[id], count, at)
  <2>1. CASE /\ id \in DOMAIN tables.inventory
             /\ Enough(tables.inventory[id], count)
             /\ tables' = [tables EXCEPT !.inventory[id] = row]
    <3>1. tables.inventory[id].available \in Int /\ count \in Int
      BY <1>1, <2>1, DurableAssumption
         DEF DurableAssumption, IsCatalogue, IsTable, Inventory
    <3>2. row.available >= 0
      BY <2>1, <3>1 DEF Enough, Reserved
    <3> HIDE DEF row
    <3>3. /\ tables'.inventory = [tables.inventory EXCEPT ![id] = row]
          /\ DOMAIN tables'.inventory = DOMAIN tables.inventory
      BY <1>1, <2>1 DEF IsCatalogue, IsTable
    <3> QED
      BY <1>1, <2>1, <3>2, <3>3 DEF StockNeverNegative, NoneOversold
  <2>2. CASE UNCHANGED tables
    BY <1>2, <2>2
  <2> QED
    BY <1>3, <2>1, <2>2 DEF ReserveStock, WriteThenMark, Refuse
<1>4. CASE Reset
  <2>1. CASE SeedCompletes(Emptied(4)) \/ SeedStops("reset", Emptied(4))
    <3>1. PICK n : tables' = Loaded(Emptied(4), n)
      BY <2>1 DEF SeedCompletes, SeedStops
    <3> QED
      BY <1>1, <3>1, EmptyingKeepsStock, SeedingKeepsStock DEF StockNeverNegative
  <2>2. CASE tables' \in {Emptied(n) : n \in 0..3}
    BY <1>1, <2>2, EmptyingKeepsStock DEF StockNeverNegative
  <2> QED
    BY <1>2, <1>4, <2>1, <2>2 DEF Reset
<1>5. CASE \/ \E id \in ProductIds, price \in Money, at \in Clock : SetPrice(id, price, at)
           \/ \E id \in ProductIds : AddReview(id)
           \/ \E id \in CategoryIds, name \in Names : RenameCategory(id, name)
  <2>1. tables'.inventory = tables.inventory
    BY <1>1, <1>5 DEF SetPrice, AddReview, RenameCategory, WriteThenMark, Refuse, IsCatalogue
  <2> QED
    BY <1>2, <2>1
<1> QED
  BY <1>3, <1>4, <1>5 DEF Call

\* No sequence of reservations, failed statements, stopped resets, evictions
\* and releases leaves less than nothing of a product.
THEOREM StockHolds == Spec => []StockNeverNegative
<1>1. Init => StockInv
  <2> SUFFICES ASSUME Init
               PROVE  NoneOversold(tables)
    BY InitType DEF StockInv, StockNeverNegative
  <2> QED
    BY DurableAssumption DEF DurableAssumption, Init, NoRows, NoneOversold
<1>2. StockInv /\ [Next]_vars => StockInv'
  <2> SUFFICES ASSUME StockInv, [Next]_vars
               PROVE  StockNeverNegative'
    BY NextType DEF StockInv
  <2>1. seed \in Seeds /\ NoneOversold(tables)
    BY DEF StockInv, TypeOK, StockNeverNegative
  <2>2. CASE tables' = tables
    BY <2>1, <2>2 DEF StockNeverNegative
  <2>3. CASE SeedCompletes(tables) \/ SeedStops("construct", tables)
    <3>1. PICK n : tables' = Loaded(tables, n)
      BY <2>3 DEF SeedCompletes, SeedStops
    <3> QED
      BY <2>1, <3>1, SeedingKeepsStock DEF StockNeverNegative
  <2>4. CASE Call
    BY <2>4, CallKeepsStock
  <2> QED
    BY <2>2, <2>3, <2>4 DEF Next, vars, Construct, Evict, Deploy
<1>3. StockInv => StockNeverNegative
  BY DEF StockInv
<1> QED
  BY <1>1, <1>2, <1>3, PTL DEF Spec

-----------------------------------------------------------------------------
(* Stamps, whatever fails.                                                 *)

Stamped(c) == PricesStamped(c) /\ StockStamped(c)

\* A row of a seed is what a seed has, so #seed stopped anywhere keeps the rest.
LEMMA SeedingKeepsStamps ==
    ASSUME seed \in Seeds, NEW t, Stamped(t), NEW n
    PROVE  Stamped(Loaded(t, n))
<1> DEFINE some == FirstOf(ProductOrder, n - BeforeProducts)
           late == FirstOf(ProductOrder, n - BeforeInventory)
<1>1. /\ Loaded(t, n).products = InsertInto(t.products, seed.products, some)
      /\ Loaded(t, n).inventory = InsertInto(t.inventory, seed.inventory, late)
  BY DEF Loaded
<1> HIDE DEF some, late
<1>2. /\ DOMAIN Loaded(t, n).products = DOMAIN t.products \cup some
      /\ \A id \in DOMAIN t.products \cup some :
            /\ id \notin some => Loaded(t, n).products[id] = t.products[id]
            /\ id \in some => Loaded(t, n).products[id] = seed.products[id]
  BY <1>1 DEF InsertInto
<1>3. PricesStamped(Loaded(t, n))
  <2> DEFINE rows == Loaded(t, n).products
  <2> SUFFICES ASSUME NEW id \in DOMAIN rows \cap ElementsOf(ProductOrder),
                      \E s \in Seeds : rows[id].updatedAt = s.products[id].updatedAt
               PROVE  \E s \in Seeds : rows[id] = s.products[id]
    BY DEF PricesStamped
  <2>1. CASE id \in some
    BY <1>2, <2>1
  <2>2. CASE id \notin some
    <3>1. id \in DOMAIN t.products /\ rows[id] = t.products[id]
      BY <1>2, <2>2
    <3> HIDE DEF rows
    <3> QED
      BY <3>1 DEF Stamped, PricesStamped
  <2> QED
    BY <2>1, <2>2
<1>4. /\ DOMAIN Loaded(t, n).inventory = DOMAIN t.inventory \cup late
      /\ \A id \in DOMAIN t.inventory \cup late :
            /\ id \notin late => Loaded(t, n).inventory[id] = t.inventory[id]
            /\ id \in late => Loaded(t, n).inventory[id] = seed.inventory[id]
  BY <1>1 DEF InsertInto
<1>5. StockStamped(Loaded(t, n))
  <2> DEFINE rows == Loaded(t, n).inventory
  <2> SUFFICES ASSUME NEW id \in DOMAIN rows \cap ElementsOf(ProductOrder),
                      rows[id].reservedAt = Never
               PROVE  \E s \in Seeds : rows[id].available = s.inventory[id].available
    BY DEF StockStamped
  <2>1. CASE id \in late
    BY <1>4, <2>1
  <2>2. CASE id \notin late
    <3>1. id \in DOMAIN t.inventory /\ rows[id] = t.inventory[id]
      BY <1>4, <2>2
    <3> HIDE DEF rows
    <3> QED
      BY <3>1 DEF Stamped, StockStamped
  <2> QED
    BY <2>1, <2>2
<1> QED
  BY <1>3, <1>5 DEF Stamped

LEMMA EmptyingKeepsStamps ==
    ASSUME Stamped(tables), NEW n
    PROVE  Stamped(Emptied(n))
BY DEF Emptied, Stamped, PricesStamped, StockStamped

\* A call writes a stamp of the clock beside what it changes.
LEMMA CallKeepsStamps ==
    ASSUME \A s \in Seeds : \A id \in DOMAIN s.products : s.products[id].updatedAt \notin Clock,
           TypeOK, Stamped(tables), Call
    PROVE  Stamped(tables')
<1>1. IsCatalogue(tables) /\ seed \in Seeds
  BY DEF TypeOK
<1>2. CASE tables'.products = tables.products /\ tables'.inventory = tables.inventory
  BY <1>2 DEF Stamped, PricesStamped, StockStamped
<1>3. ASSUME NEW id \in ProductIds, NEW price \in Money, NEW at \in Clock,
             SetPrice(id, price, at)
      PROVE  Stamped(tables')
  <2> DEFINE row == Priced(price, at)
  <2>1. CASE id \in DOMAIN tables.products /\ tables' = [tables EXCEPT !.products[id] = row]
    <3>1. \A s \in Seeds : id \in ElementsOf(ProductOrder) => row.updatedAt # s.products[id].updatedAt
      BY DurableAssumption DEF DurableAssumption, Priced
    <3> HIDE DEF row
    <3>2. /\ tables'.products = [tables.products EXCEPT ![id] = row]
          /\ DOMAIN tables'.products = DOMAIN tables.products
          /\ tables'.inventory = tables.inventory
      BY <1>1, <2>1 DEF IsCatalogue, IsTable
    <3>3. \A i \in DOMAIN tables.products :
             tables'.products[i] = IF i = id THEN row ELSE tables.products[i]
      BY <2>1, <3>2
    <3>4. PricesStamped(tables')
      BY <3>1, <3>2, <3>3 DEF Stamped, PricesStamped
    <3>5. StockStamped(tables')
      BY <3>2 DEF Stamped, StockStamped
    <3> QED
      BY <3>4, <3>5 DEF Stamped
  <2> QED
    BY <1>2, <1>3, <2>1 DEF SetPrice, WriteThenMark, Refuse
<1>4. ASSUME NEW id \in ProductIds, NEW count \in Counts, NEW at \in Clock,
             ReserveStock(id, count, at)
      PROVE  Stamped(tables')
  <2> DEFINE row == Reserved(tables.inventory[id], count, at)
  <2>1. CASE id \in DOMAIN tables.inventory /\ tables' = [tables EXCEPT !.inventory[id] = row]
    <3>1. row.reservedAt # Never
      BY DurableAssumption, TimesAssumption
         DEF DurableAssumption, TimesAssumption, Reserved
    <3> HIDE DEF row
    <3>2. /\ tables'.inventory = [tables.inventory EXCEPT ![id] = row]
          /\ DOMAIN tables'.inventory = DOMAIN tables.inventory
          /\ tables'.products = tables.products
      BY <1>1, <2>1 DEF IsCatalogue, IsTable
    <3>3. \A i \in DOMAIN tables.inventory :
             tables'.inventory[i] = IF i = id THEN row ELSE tables.inventory[i]
      BY <2>1, <3>2
    <3>4. StockStamped(tables')
      BY <3>1, <3>2, <3>3 DEF Stamped, StockStamped
    <3>5. PricesStamped(tables')
      BY <3>2 DEF Stamped, PricesStamped
    <3> QED
      BY <3>4, <3>5 DEF Stamped
  <2> QED
    BY <1>2, <1>4, <2>1 DEF ReserveStock, WriteThenMark, Refuse
<1>5. CASE Reset
  <2>1. CASE SeedCompletes(Emptied(4)) \/ SeedStops("reset", Emptied(4))
    <3>1. PICK n : tables' = Loaded(Emptied(4), n)
      BY <2>1 DEF SeedCompletes, SeedStops
    <3> QED
      BY <1>1, <3>1, EmptyingKeepsStamps, SeedingKeepsStamps
  <2>2. CASE tables' \in {Emptied(n) : n \in 0..3}
    BY <2>2, EmptyingKeepsStamps
  <2> QED
    BY <1>2, <1>5, <2>1, <2>2 DEF Reset
<1>6. CASE \/ \E id \in ProductIds : AddReview(id)
           \/ \E id \in CategoryIds, name \in Names : RenameCategory(id, name)
  <2>1. tables'.products = tables.products /\ tables'.inventory = tables.inventory
    BY <1>1, <1>6 DEF AddReview, RenameCategory, WriteThenMark, Refuse, IsCatalogue
  <2> QED
    BY <1>2, <2>1
<1> QED
  BY <1>3, <1>4, <1>5, <1>6 DEF Call

\* Where the clock gives no seeded timestamp, and older tables are stamped, no
\* price and no stock that no release has seeded is without a stamp of its own,
\* whatever statements throw: the feed misses no change (activity).
THEOREM StampsHold ==
    ASSUME \A t \in Legacy : PricesStamped(t) /\ StockStamped(t),
           \A s \in Seeds : \A id \in DOMAIN s.products : s.products[id].updatedAt \notin Clock
    PROVE  Spec => []ChangesAreStamped
<1>1. Init => Stamped(tables)
  <2>1. Stamped(NoRows)
    BY DEF NoRows, Stamped, PricesStamped, StockStamped
  <2> QED
    BY <2>1 DEF Init, Stamped
<1>2. TypeOK /\ Stamped(tables) /\ [Next]_vars => Stamped(tables')
  <2> SUFFICES ASSUME TypeOK, Stamped(tables), [Next]_vars
               PROVE  Stamped(tables')
    OBVIOUS
  <2>1. seed \in Seeds
    BY DEF TypeOK
  <2>2. CASE SeedCompletes(tables) \/ SeedStops("construct", tables)
    <3>1. PICK n : tables' = Loaded(tables, n)
      BY <2>2 DEF SeedCompletes, SeedStops
    <3> QED
      BY <2>1, <3>1, SeedingKeepsStamps
  <2>3. CASE Call
    BY <2>3, CallKeepsStamps
  <2> QED
    BY <2>2, <2>3 DEF Next, vars, Construct, Evict, Deploy
<1>3. (Stamped(tables))' <=> Stamped(tables')
  BY DEF Stamped, PricesStamped, StockStamped
<1>4. Stamped(tables) => ChangesAreStamped
  BY DEF Stamped, ChangesAreStamped
<1> QED
  BY <1>1, <1>2, <1>3, <1>4, TypeCorrect, PTL DEF Spec
=============================================================================
