--------------------------- MODULE CatalogueProofs ---------------------------
(***************************************************************************)
(* Proofs about the catalogue of the port, for every catalogue, and every  *)
(* set of prices, timestamps and counts, negative ones included.           *)
(***************************************************************************)
EXTENDS Catalogue, TLAPS

\* What a refusal leaves.
LEMMA RefuseType ==
    ASSUME TypeOK, NEW op \in Operations, NEW why \in Refusals, Refuse(op, why)
    PROVE  TypeOK'
BY DEF Refuse, TypeOK, Refusal, IsCatalogue, IsTable

\* The next catalogue, when a method changes one table of it.
LEMMA ChangeType ==
    ASSUME TypeOK,
           \/ \E id \in DOMAIN catalogue.products, row \in Product :
                 catalogue' = [catalogue EXCEPT !.products[id] = row]
           \/ \E reviews \in Seq(Review) :
                 catalogue' = [catalogue EXCEPT !.reviews = reviews]
           \/ \E id \in DOMAIN catalogue.inventory, row \in Inventory :
                 catalogue' = [catalogue EXCEPT !.inventory[id] = row]
           \/ \E id \in DOMAIN catalogue.categories, name \in Names :
                 catalogue' = [catalogue EXCEPT !.categories[id] = name]
    PROVE  IsCatalogue(catalogue')
<1>1. ASSUME NEW id \in DOMAIN catalogue.products, NEW row \in Product
      PROVE  IsCatalogue([catalogue EXCEPT !.products[id] = row])
  BY DEF TypeOK, IsCatalogue, IsTable
<1>2. ASSUME NEW reviews \in Seq(Review)
      PROVE  IsCatalogue([catalogue EXCEPT !.reviews = reviews])
  BY DEF TypeOK, IsCatalogue
<1>3. ASSUME NEW id \in DOMAIN catalogue.inventory, NEW row \in Inventory
      PROVE  IsCatalogue([catalogue EXCEPT !.inventory[id] = row])
  BY DEF TypeOK, IsCatalogue, IsTable
<1>4. ASSUME NEW id \in DOMAIN catalogue.categories, NEW name \in Names
      PROVE  IsCatalogue([catalogue EXCEPT !.categories[id] = name])
  <2> DEFINE table == [catalogue.categories EXCEPT ![id] = name]
  <2>1. IsTable(table, CategoryIds, Names)
    BY <1>4 DEF TypeOK, IsCatalogue, IsTable
  <2>2. [catalogue EXCEPT !.categories[id] = name] = [catalogue EXCEPT !.categories = table]
    BY DEF TypeOK, IsCatalogue
  <2> HIDE DEF table
  <2> QED
    BY <2>1, <2>2 DEF TypeOK, IsCatalogue
<1> QED
  BY <1>1, <1>2, <1>3, <1>4

\* What an action does to the inventory: nothing, one reservation, or the seed.
LEMMA InventorySteps ==
    ASSUME TypeOK, Next
    PROVE  \/ catalogue'.inventory = catalogue.inventory
           \/ \E id \in DOMAIN catalogue.inventory, count \in Counts, at \in Clock :
                 /\ count <= catalogue.inventory[id].available
                 /\ catalogue'.inventory =
                       [catalogue.inventory EXCEPT ![id] =
                           [available |-> @.available - count, reservedAt |-> at]]
           \/ catalogue' = Seed
<1>1. IsCatalogue(catalogue)
  BY DEF TypeOK
<1>2. ASSUME NEW id \in ProductIds, NEW count \in Counts, NEW at \in Clock,
             ReserveStock(id, count, at)
      PROVE  \/ catalogue'.inventory = catalogue.inventory
             \/ /\ id \in DOMAIN catalogue.inventory
                /\ count <= catalogue.inventory[id].available
                /\ catalogue'.inventory =
                      [catalogue.inventory EXCEPT ![id] =
                          [available |-> @.available - count, reservedAt |-> at]]
  BY <1>1, <1>2 DEF ReserveStock, Enough, Reserved, Refuse, IsCatalogue
<1>3. CASE \/ \E id \in ProductIds, price \in Money, at \in Clock : SetPrice(id, price, at)
           \/ \E id \in ProductIds : AddReview(id)
           \/ \E id \in CategoryIds, name \in Names : RenameCategory(id, name)
  BY <1>1, <1>3 DEF SetPrice, AddReview, RenameCategory, Refuse, IsCatalogue
<1>4. CASE Reset \/ Restart
  BY <1>4 DEF Reset, Restart
<1>5. CASE \E id \in ProductIds, count \in Counts, at \in Clock : ReserveStock(id, count, at)
  <2>1. PICK id \in ProductIds, count \in Counts, at \in Clock : ReserveStock(id, count, at)
    BY <1>5
  <2>2. CASE catalogue'.inventory = catalogue.inventory
    BY <2>2
  <2>3. ASSUME id \in DOMAIN catalogue.inventory,
               count <= catalogue.inventory[id].available,
               catalogue'.inventory =
                  [catalogue.inventory EXCEPT ![id] =
                      [available |-> @.available - count, reservedAt |-> at]]
        PROVE  \E i \in DOMAIN catalogue.inventory, n \in Counts, t \in Clock :
                  /\ n <= catalogue.inventory[i].available
                  /\ catalogue'.inventory =
                        [catalogue.inventory EXCEPT ![i] =
                            [available |-> @.available - n, reservedAt |-> t]]
    <3> WITNESS id \in DOMAIN catalogue.inventory, count \in Counts, at \in Clock
    <3> QED
      BY <2>3
  <2> QED
    BY <1>2, <2>1, <2>2, <2>3, Zenon
<1> QED
  BY <1>3, <1>4, <1>5 DEF Next

\* What an action does to the products: nothing, one price, or the seed.
LEMMA ProductSteps ==
    ASSUME TypeOK, Next
    PROVE  \/ catalogue'.products = catalogue.products
           \/ \E id \in DOMAIN catalogue.products, price \in Money, at \in Clock :
                 catalogue'.products =
                    [catalogue.products EXCEPT ![id] = [price |-> price, updatedAt |-> at]]
           \/ catalogue' = Seed
<1>1. IsCatalogue(catalogue)
  BY DEF TypeOK
<1>2. ASSUME NEW id \in ProductIds, NEW price \in Money, NEW at \in Clock,
             SetPrice(id, price, at)
      PROVE  \/ catalogue'.products = catalogue.products
             \/ /\ id \in DOMAIN catalogue.products
                /\ catalogue'.products =
                      [catalogue.products EXCEPT ![id] = [price |-> price, updatedAt |-> at]]
  BY <1>1, <1>2 DEF SetPrice, Refuse, IsCatalogue
<1>3. CASE \/ \E id \in ProductIds, count \in Counts, at \in Clock : ReserveStock(id, count, at)
           \/ \E id \in ProductIds : AddReview(id)
           \/ \E id \in CategoryIds, name \in Names : RenameCategory(id, name)
  BY <1>1, <1>3 DEF ReserveStock, AddReview, RenameCategory, Refuse, IsCatalogue
<1>4. CASE Reset \/ Restart
  BY <1>4 DEF Reset, Restart
<1>5. CASE \E id \in ProductIds, price \in Money, at \in Clock : SetPrice(id, price, at)
  <2>1. PICK id \in ProductIds, price \in Money, at \in Clock : SetPrice(id, price, at)
    BY <1>5
  <2>2. CASE catalogue'.products = catalogue.products
    BY <2>2
  <2>3. ASSUME id \in DOMAIN catalogue.products,
               catalogue'.products =
                  [catalogue.products EXCEPT ![id] = [price |-> price, updatedAt |-> at]]
        PROVE  \E i \in DOMAIN catalogue.products, p \in Money, t \in Clock :
                  catalogue'.products =
                     [catalogue.products EXCEPT ![i] = [price |-> p, updatedAt |-> t]]
    <3> WITNESS id \in DOMAIN catalogue.products, price \in Money, at \in Clock
    <3> QED
      BY <2>3
  <2>4. \/ catalogue'.products = catalogue.products
        \/ /\ id \in DOMAIN catalogue.products
           /\ catalogue'.products =
                 [catalogue.products EXCEPT ![id] = [price |-> price, updatedAt |-> at]]
    BY <1>2, <2>1
  <2> QED
    BY <2>2, <2>3, <2>4, Zenon
<1> QED
  BY <1>3, <1>4, <1>5 DEF Next

-----------------------------------------------------------------------------
LEMMA NextType == TypeOK /\ [Next]_vars => TypeOK'
<1> SUFFICES ASSUME TypeOK, [Next]_vars
             PROVE  TypeOK'
  OBVIOUS
<1>1. IsCatalogue(catalogue) /\ IsCatalogue(Seed)
  BY CatalogueAssumption DEF CatalogueAssumption, TypeOK
<1>2. ASSUME NEW id \in ProductIds, NEW price \in Money, NEW at \in Clock,
             SetPrice(id, price, at)
      PROVE  TypeOK'
  <2>1. [price |-> price, updatedAt |-> at] \in Product
    BY CatalogueAssumption DEF CatalogueAssumption, Product
  <2>2. CASE id \in DOMAIN catalogue.products
    <3>1. IsCatalogue(catalogue')
      BY <1>2, <2>1, <2>2, ChangeType DEF SetPrice
    <3> QED
      BY <1>2, <2>2, <3>1 DEF SetPrice, TypeOK, Answer, Operations
  <2> QED
    BY <1>2, <2>2, RefuseType DEF SetPrice, Operations, Refusals
<1>3. ASSUME NEW id \in ProductIds, AddReview(id)
      PROVE  TypeOK'
  <2>1. Append(catalogue.reviews, NewReview(id)) \in Seq(Review)
    <3>1. NewReview(id) \in Review
      BY <1>1 DEF NewReview, AddedReview, Review, ReviewId, IsCatalogue
    <3> QED
      BY <1>1, <3>1 DEF IsCatalogue
  <2>2. CASE id \in DOMAIN catalogue.products
    <3>1. \E reviews \in Seq(Review) : catalogue' = [catalogue EXCEPT !.reviews = reviews]
      BY <1>3, <2>1, <2>2 DEF AddReview
    <3>2. IsCatalogue(catalogue')
      BY <3>1, ChangeType
    <3> QED
      BY <1>3, <2>2, <3>2 DEF AddReview, TypeOK, Answer, Operations
  <2> QED
    BY <1>3, <2>2, RefuseType DEF AddReview, Operations, Refusals
<1>4. ASSUME NEW id \in ProductIds, NEW count \in Counts, NEW at \in Clock,
             ReserveStock(id, count, at)
      PROVE  TypeOK'
  <2> DEFINE row == Reserved(catalogue.inventory[id], count, at)
  <2>1. CASE /\ id \in DOMAIN catalogue.inventory
             /\ catalogue' = [catalogue EXCEPT !.inventory[id] = row]
             /\ reply'.op = "reserveStock" /\ reply'.outcome = "ok"
    <3>1. catalogue.inventory[id].available \in Int
      BY <1>1, <2>1 DEF IsCatalogue, IsTable, Inventory
    <3>2. row \in Inventory
      BY <3>1, CatalogueAssumption DEF CatalogueAssumption, Reserved, Inventory
    <3> HIDE DEF row
    <3>3. IsCatalogue(catalogue')
      BY <2>1, <3>2, ChangeType
    <3> QED
      BY <2>1, <3>3 DEF TypeOK, Operations
  <2>2. CASE Refuse("reserveStock", "Unavailable") \/ Refuse("reserveStock", "NotFound")
    BY <2>2, RefuseType DEF Operations, Refusals
  <2> QED
    BY <1>1, <1>4, <2>1, <2>2 DEF ReserveStock, Answer
<1>5. ASSUME NEW id \in CategoryIds, NEW name \in Names, RenameCategory(id, name)
      PROVE  TypeOK'
  <2>1. CASE id \in DOMAIN catalogue.categories
    <3>1. IsCatalogue(catalogue')
      BY <1>5, <2>1, ChangeType DEF RenameCategory
    <3> QED
      BY <1>5, <2>1, <3>1 DEF RenameCategory, TypeOK, Answer, Operations
  <2> QED
    BY <1>5, <2>1, RefuseType DEF RenameCategory, Operations, Refusals
<1>6. CASE Reset \/ Restart
  BY <1>1, <1>6 DEF Reset, Restart, TypeOK, Done, Operations
<1>7. CASE UNCHANGED vars
  BY <1>7 DEF vars, TypeOK, IsCatalogue, IsTable
<1> QED
  BY <1>2, <1>3, <1>4, <1>5, <1>6, <1>7 DEF Next

\* The catalogue and the answers stay well formed.
THEOREM TypeCorrect == Spec => []TypeOK
<1>1. Init => TypeOK
  BY CatalogueAssumption DEF CatalogueAssumption, Init, TypeOK, NoReply, Done
<1> QED
  BY <1>1, NextType, PTL DEF Spec

\* No sequence of reservations, negative counts included, resets and restarts
\* leaves a product with less than nothing in stock.
THEOREM StockHolds == Spec => []StockNeverNegative
<1>1. Init => StockNeverNegative
  BY CatalogueAssumption DEF CatalogueAssumption, Init, StockNeverNegative
<1>2. TypeOK /\ StockNeverNegative /\ [Next]_vars => StockNeverNegative'
  <2> SUFFICES ASSUME TypeOK, StockNeverNegative, Next
               PROVE  StockNeverNegative'
    BY DEF vars, StockNeverNegative
  <2>1. CASE catalogue'.inventory = catalogue.inventory
    BY <2>1 DEF StockNeverNegative
  <2>2. ASSUME NEW id \in DOMAIN catalogue.inventory, NEW count \in Counts, NEW at \in Clock,
               count <= catalogue.inventory[id].available,
               catalogue'.inventory = [catalogue.inventory EXCEPT ![id] =
                                          [available |-> @.available - count, reservedAt |-> at]]
        PROVE  StockNeverNegative'
    <3>1. catalogue.inventory[id].available \in Int /\ count \in Int
      BY CatalogueAssumption
         DEF CatalogueAssumption, TypeOK, IsCatalogue, IsTable, Inventory
    <3>2. catalogue.inventory[id].available - count >= 0
      BY <2>2, <3>1
    <3> QED
      BY <2>2, <3>2 DEF StockNeverNegative
  <2>3. CASE catalogue' = Seed
    BY <2>3, CatalogueAssumption DEF CatalogueAssumption, StockNeverNegative
  <2> QED
    BY <2>1, <2>2, <2>3, InventorySteps
<1> QED
  BY <1>1, <1>2, TypeCorrect, PTL DEF Spec

\* Where the clock gives no seeded timestamp and the tables a store may find
\* are stamped, every price and every stock that differs from the seed has a
\* stamp the seed does not have.
THEOREM StampsHold ==
    ASSUME \A c \in Inherited : PricesStamped(c) /\ StockStamped(c),
           \A id \in DOMAIN Seed.products : Seed.products[id].updatedAt \notin Clock
    PROVE  Spec => []ChangesAreStamped
<1>1. PricesStamped(Seed) /\ StockStamped(Seed)
  BY DEF PricesStamped, StockStamped
<1>2. Init => ChangesAreStamped
  BY <1>1 DEF Init, ChangesAreStamped
<1>3. TypeOK /\ ChangesAreStamped /\ [Next]_vars => ChangesAreStamped'
  <2> SUFFICES ASSUME TypeOK, ChangesAreStamped, Next
               PROVE  ChangesAreStamped'
    BY DEF vars, ChangesAreStamped, PricesStamped, StockStamped
  <2>1. PricesStamped(catalogue')
    <3>1. ASSUME NEW id \in DOMAIN catalogue.products, NEW price \in Money, NEW at \in Clock,
                 catalogue'.products =
                    [catalogue.products EXCEPT ![id] = [price |-> price, updatedAt |-> at]]
          PROVE  PricesStamped(catalogue')
      <4>1. DOMAIN catalogue'.products = DOMAIN catalogue.products
        BY <3>1
      <4>2. ASSUME NEW i \in DOMAIN catalogue.products, i \in DOMAIN Seed.products,
                   catalogue'.products[i].price # Seed.products[i].price
            PROVE  catalogue'.products[i].updatedAt # Seed.products[i].updatedAt
        <5>1. CASE i = id
          <6>1. catalogue'.products[i].updatedAt = at
            BY <3>1, <5>1
          <6> QED
            BY <4>2, <6>1
        <5>2. CASE i # id
          BY <3>1, <5>2, <4>2 DEF ChangesAreStamped, PricesStamped
        <5> QED
          BY <5>1, <5>2
      <4> QED
        BY <4>1, <4>2 DEF PricesStamped
    <3>2. CASE catalogue'.products = catalogue.products \/ catalogue' = Seed
      BY <1>1, <3>2 DEF ChangesAreStamped, PricesStamped
    <3> QED
      BY <3>1, <3>2, ProductSteps
  <2>2. StockStamped(catalogue')
    <3>1. ASSUME NEW id \in DOMAIN catalogue.inventory, NEW count \in Counts, NEW at \in Clock,
                 catalogue'.inventory = [catalogue.inventory EXCEPT ![id] =
                                            [available |-> @.available - count, reservedAt |-> at]]
          PROVE  StockStamped(catalogue')
      <4>1. at # Never
        BY TimesAssumption, CatalogueAssumption DEF TimesAssumption, CatalogueAssumption
      <4> QED
        BY <3>1, <4>1 DEF ChangesAreStamped, StockStamped
    <3>2. CASE catalogue'.inventory = catalogue.inventory \/ catalogue' = Seed
      BY <1>1, <3>2 DEF ChangesAreStamped, StockStamped
    <3> QED
      BY <3>1, <3>2, InventorySteps
  <2> QED
    BY <2>1, <2>2 DEF ChangesAreStamped
<1> QED
  BY <1>2, <1>3, TypeCorrect, PTL DEF Spec

-----------------------------------------------------------------------------
(* Review ids.  That they differ is not inductive: the new number must also *)
(* be larger than any there is.                                             *)

Apart(reviews) ==
    \A i, j \in DOMAIN reviews : reviews[i].id = reviews[j].id => i = j

NumberedUpTo(reviews) ==
    \A i \in DOMAIN reviews : reviews[i].id[1] = "added" => reviews[i].id[2] <= Len(reviews)

ApartInv == Apart(catalogue.reviews) /\ NumberedUpTo(catalogue.reviews)

LEMMA AddingKeepsApart ==
    ASSUME NEW reviews \in Seq(Review), Apart(reviews), NumberedUpTo(reviews), NEW id \in ProductIds
    PROVE  \A more : more = Append(reviews, AddedReview(Len(reviews) + 1, id)) =>
                        Apart(more) /\ NumberedUpTo(more)
<1> DEFINE review == AddedReview(Len(reviews) + 1, id)
<1> SUFFICES ASSUME NEW more, more = Append(reviews, review)
             PROVE  Apart(more) /\ NumberedUpTo(more)
  OBVIOUS
<1>1. review.id[1] = "added" /\ review.id[2] = Len(reviews) + 1
  BY DEF AddedReview
<1>2. \A i \in DOMAIN reviews : reviews[i].id[2] \in Nat
  <2> SUFFICES ASSUME NEW i \in DOMAIN reviews
               PROVE  reviews[i].id[2] \in Nat
    OBVIOUS
  <2>1. reviews[i] \in Review
    OBVIOUS
  <2>2. reviews[i].id \in ReviewId
    BY <2>1 DEF Review
  <2> QED
    BY <2>2 DEF ReviewId
<1>3. \A i \in DOMAIN reviews : reviews[i].id # review.id
  BY <1>1, <1>2 DEF NumberedUpTo
<1> HIDE DEF review
<1>4. /\ Len(more) = Len(reviews) + 1
      /\ DOMAIN more = DOMAIN reviews \cup {Len(reviews) + 1}
      /\ \A i \in DOMAIN reviews : more[i] = reviews[i] /\ i <= Len(reviews)
      /\ more[Len(reviews) + 1] = review
  OBVIOUS
<1>5. Apart(more)
  BY <1>3, <1>4 DEF Apart
<1>6. NumberedUpTo(more)
  BY <1>1, <1>2, <1>4 DEF NumberedUpTo
<1> QED
  BY <1>5, <1>6

\* No two reviews ever share an id, if those a store starts from do not, and
\* are no further numbered than there are (the seed's are not "added" at all).
THEOREM ReviewIdsApart ==
    ASSUME \A c \in {Seed} \cup Inherited : Apart(c.reviews) /\ NumberedUpTo(c.reviews)
    PROVE  Spec => []ReviewIdsUnique
<1>1. Init => ApartInv
  BY DEF Init, ApartInv
<1>2. TypeOK /\ ApartInv /\ [Next]_vars => ApartInv'
  <2> SUFFICES ASSUME TypeOK, ApartInv, [Next]_vars
               PROVE  ApartInv'
    OBVIOUS
  <2>1. IsCatalogue(catalogue) /\ catalogue.reviews \in Seq(Review)
    BY DEF TypeOK, IsCatalogue
  <2>2. CASE catalogue'.reviews = catalogue.reviews
    BY <2>2 DEF ApartInv
  <2>3. CASE catalogue' = Seed
    BY <2>3 DEF ApartInv
  <2>4. ASSUME NEW id \in ProductIds, AddReview(id)
        PROVE  ApartInv'
    <3>1. CASE catalogue' = [catalogue EXCEPT !.reviews = Append(@, NewReview(id))]
      <4>1. catalogue'.reviews = Append(catalogue.reviews, AddedReview(Len(catalogue.reviews) + 1, id))
        BY <2>1, <3>1 DEF IsCatalogue, NewReview
      <4> QED
        BY <2>1, <4>1, AddingKeepsApart DEF ApartInv
    <3> QED
      BY <2>2, <2>4, <3>1 DEF AddReview, Refuse
  <2>5. CASE \/ \E id \in ProductIds, price \in Money, at \in Clock : SetPrice(id, price, at)
             \/ \E id \in ProductIds, count \in Counts, at \in Clock : ReserveStock(id, count, at)
             \/ \E id \in CategoryIds, name \in Names : RenameCategory(id, name)
    <3>1. catalogue'.reviews = catalogue.reviews
      BY <2>1, <2>5 DEF SetPrice, ReserveStock, RenameCategory, Refuse, IsCatalogue
    <3> QED
      BY <2>2, <3>1
  <2> QED
    BY <2>2, <2>3, <2>4, <2>5 DEF Next, Reset, Restart, vars
<1>3. ApartInv => ReviewIdsUnique
  BY DEF ApartInv, Apart, ReviewIdsUnique
<1> QED
  BY <1>1, <1>2, <1>3, TypeCorrect, PTL DEF Spec
=============================================================================
