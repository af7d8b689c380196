------------------------- MODULE CatalogueReadsProofs -------------------------
(***************************************************************************)
(* Proofs about what is read out of the catalogue.  A finite set has one   *)
(* arrangement along a strict total order: an element stands where as many *)
(* stand before it as are below it.  So the two stores have one feed, and  *)
(* a list of products one order, which its pages cut into pieces.          *)
(***************************************************************************)
EXTENDS ProductPages, CatalogueProofs, FiniteSetTheorems, SequenceTheorems

-----------------------------------------------------------------------------
(* Arrangements of a finite set along an order, a set of pairs. *)

IsStrictOrder(R, S) ==
    /\ \A x \in S : <<x, x>> \notin R
    /\ \A x, y, z \in S : <<x, y>> \in R /\ <<y, z>> \in R => <<x, z>> \in R
    /\ \A x, y \in S : x = y \/ <<x, y>> \in R \/ <<y, x>> \in R

Below(x, S, R) == {y \in S : <<y, x>> \in R}

Rank(x, S, R) == Cardinality(Below(x, S, R))

Along(S, R) ==
    {order \in SetToSeqs(S) : \A i, j \in DOMAIN order : i < j => <<order[i], order[j]>> \in R}

\* Along a strict order every element has a rank of its own, below their number.
LEMMA RanksDiffer ==
    ASSUME NEW S, IsFiniteSet(S), NEW R, IsStrictOrder(R, S)
    PROVE  /\ \A x \in S : Rank(x, S, R) \in 0..(Cardinality(S) - 1)
           /\ \A x, y \in S : <<x, y>> \in R => Rank(x, S, R) < Rank(y, S, R)
<1>1. ASSUME NEW x \in S
      PROVE  /\ IsFiniteSet(Below(x, S, R)) /\ Rank(x, S, R) \in Nat
             /\ IsFiniteSet(Below(x, S, R) \cup {x})
             /\ Cardinality(Below(x, S, R) \cup {x}) = Rank(x, S, R) + 1
  <2>1. IsFiniteSet(Below(x, S, R)) /\ x \notin Below(x, S, R)
    BY FS_Subset DEF Below, IsStrictOrder
  <2> QED
    BY <2>1, FS_CardinalityType, FS_AddElement DEF Rank
<1>2. ASSUME NEW x \in S
      PROVE  Rank(x, S, R) \in 0..(Cardinality(S) - 1)
  <2>1. Below(x, S, R) \cup {x} \in SUBSET S
    BY DEF Below
  <2>2. Rank(x, S, R) + 1 <= Cardinality(S) /\ Cardinality(S) \in Nat
    BY <1>1, <2>1, FS_Subset, FS_CardinalityType
  <2>3. Rank(x, S, R) \in Nat
    BY <1>1
  <2> QED
    BY <2>2, <2>3
<1>3. ASSUME NEW x \in S, NEW y \in S, <<x, y>> \in R
      PROVE  Rank(x, S, R) < Rank(y, S, R)
  <2>1. Below(x, S, R) \cup {x} \in SUBSET Below(y, S, R)
    BY <1>3 DEF Below, IsStrictOrder
  <2>2. Cardinality(Below(x, S, R) \cup {x}) <= Rank(y, S, R)
    BY <1>1, <2>1, FS_Subset DEF Rank
  <2>3. Rank(x, S, R) \in Nat /\ Rank(y, S, R) \in Nat /\ Rank(x, S, R) + 1 <= Rank(y, S, R)
    BY <1>1, <2>2
  <2> QED
    BY <2>3
<1> QED
  BY <1>2, <1>3

\* The arrangement exists: the ranks fill the places.
LEMMA ArrangementExists ==
    ASSUME NEW S, IsFiniteSet(S), NEW R, IsStrictOrder(R, S)
    PROVE  Along(S, R) # {}
<1> DEFINE n == Cardinality(S)
           place == [x \in S |-> Rank(x, S, R) + 1]
           order == [i \in 1..n |-> CHOOSE x \in S : place[x] = i]
<1>1. n \in Nat
  BY FS_CardinalityType
<1>2. place \in [S -> 1..n]
  BY <1>1, RanksDiffer
<1>3. \A x, y \in S : <<x, y>> \in R => place[x] < place[y]
  BY <1>1, RanksDiffer
<1> HIDE DEF place
<1>4. \A x, y \in S : place[x] = place[y] => x = y
  <2> SUFFICES ASSUME NEW x \in S, NEW y \in S, place[x] = place[y]
               PROVE  x = y
    OBVIOUS
  <2>1. place[x] \in Nat /\ place[y] \in Nat
    BY <1>2
  <2>2. <<x, y>> \notin R /\ <<y, x>> \notin R
    BY <1>3, <2>1
  <2> QED
    BY <2>2 DEF IsStrictOrder
<1>5. place \in Injection(S, 1..n)
  BY <1>2, <1>4 DEF Injection, IsInjective
<1>6. place \in Surjection(S, 1..n)
  BY <1>1, <1>5, FS_Injection, FS_Interval
<1>7. \A i \in 1..n : \E x \in S : place[x] = i
  BY <1>6 DEF Surjection
<1>8. \A i \in 1..n : order[i] \in S /\ place[order[i]] = i
  BY <1>7
<1>9. order \in SetToSeqs(S)
  <2>1. order \in [1..n -> S]
    BY <1>8
  <2>2. \A i, j \in 1..n : i # j => order[i] # order[j]
    BY <1>8
  <2> QED
    BY <2>1, <2>2 DEF SetToSeqs
<1>10. ASSUME NEW i \in 1..n, NEW j \in 1..n, i < j
       PROVE  <<order[i], order[j]>> \in R
  <2> HIDE DEF order
  <2>1. order[i] \in S /\ order[j] \in S /\ order[i] # order[j]
    BY <1>8, <1>10
  <2>2. <<order[j], order[i]>> \notin R
    BY <1>1, <1>3, <1>8, <1>10, <2>1
  <2> QED
    BY <2>1, <2>2 DEF IsStrictOrder
<1>11. order \in Along(S, R)
  BY <1>9, <1>10 DEF Along
<1> QED
  BY <1>11

\* In an arrangement an element's place is one more than its rank.
LEMMA PlaceIsRank ==
    ASSUME NEW S, IsFiniteSet(S), NEW R, IsStrictOrder(R, S),
           NEW order \in Along(S, R), NEW i \in 1..Cardinality(S)
    PROVE  order[i] \in S /\ Rank(order[i], S, R) = i - 1
<1> DEFINE n == Cardinality(S)
           before == [j \in 1..(i - 1) |-> order[j]]
<1>1. n \in Nat /\ i \in 1..n
  BY FS_CardinalityType
<1>2. /\ order \in [1..n -> S] /\ DOMAIN order = 1..n
      /\ \A j, k \in 1..n : j # k => order[j] # order[k]
      /\ \A j, k \in 1..n : j < k => <<order[j], order[k]>> \in R
  BY DEF Along, SetToSeqs
<1>3. \A x \in S : \E j \in 1..n : order[j] = x
  <2>1. order \in Injection(1..n, S)
    BY <1>2 DEF Injection, IsInjective
  <2>2. order \in Surjection(1..n, S)
    BY <1>1, <2>1, FS_Injection, FS_Interval
  <2> QED
    BY <2>2 DEF Surjection
<1>4. \A j \in 1..n : <<order[j], order[i]>> \in R => j < i
  <2> SUFFICES ASSUME NEW j \in 1..n, <<order[j], order[i]>> \in R
               PROVE  j < i
    OBVIOUS
  <2>1. order[i] \in S /\ order[j] \in S
    BY <1>1, <1>2
  <2>2. j # i /\ <<order[i], order[j]>> \notin R
    BY <2>1 DEF IsStrictOrder
  <2>3. ~(i < j)
    BY <1>1, <1>2, <2>2
  <2> QED
    BY <1>1, <2>2, <2>3
<1>5. before \in [1..(i - 1) -> Below(order[i], S, R)]
  BY <1>1, <1>2 DEF Below
<1>6. \A x \in Below(order[i], S, R) : \E j \in 1..(i - 1) : before[j] = x
  BY <1>1, <1>3, <1>4 DEF Below
<1>7. \A j, k \in 1..(i - 1) : before[j] = before[k] => j = k
  <2>1. \A j \in 1..(i - 1) : j \in 1..n /\ before[j] = order[j]
    BY <1>1
  <2> HIDE DEF before
  <2> QED
    BY <1>2, <2>1
<1> HIDE DEF before
<1>8. before \in Bijection(1..(i - 1), Below(order[i], S, R))
  BY <1>5, <1>6, <1>7 DEF Bijection, Injection, Surjection, IsInjective
<1>9. ExistsBijection(1..(i - 1), Below(order[i], S, R))
  BY <1>8 DEF ExistsBijection
<1>10. IsFiniteSet(1..(i - 1)) /\ Cardinality(1..(i - 1)) = i - 1
  <2>1. i - 1 \in Nat /\ 1 \in Int
    BY <1>1
  <2> QED
    BY <2>1, FS_Interval
<1>11. Cardinality(Below(order[i], S, R)) = Cardinality(1..(i - 1))
  BY <1>9, <1>10, FS_Bijection
<1> QED
  BY <1>1, <1>2, <1>10, <1>11 DEF Rank

\* And there is only one.
LEMMA ArrangementUnique ==
    ASSUME NEW S, IsFiniteSet(S), NEW R, IsStrictOrder(R, S),
           NEW left \in Along(S, R), NEW right \in Along(S, R)
    PROVE  left = right
<1> DEFINE n == Cardinality(S)
<1>1. left \in [1..n -> S] /\ right \in [1..n -> S]
  BY DEF Along, SetToSeqs
<1>2. ASSUME NEW i \in 1..n
      PROVE  left[i] = right[i]
  <2>1. /\ left[i] \in S /\ right[i] \in S
        /\ Rank(left[i], S, R) = i - 1 /\ Rank(right[i], S, R) = i - 1
    BY PlaceIsRank
  <2>2. <<left[i], right[i]>> \notin R /\ <<right[i], left[i]>> \notin R
    BY <2>1, RanksDiffer
  <2> QED
    BY <2>1, <2>2 DEF IsStrictOrder
<1>3. /\ left = [i \in 1..n |-> left[i]] /\ right = [i \in 1..n |-> right[i]]
      /\ \A i \in 1..n : left[i] = right[i]
  BY <1>1, <1>2
<1> HIDE DEF n
<1> QED
  BY <1>3, Zenon

-----------------------------------------------------------------------------
(* The feed. *)

Held == {Listing[i] : i \in DOMAIN Listing}

\* What the proofs about reads need of a catalogue.
Readable == TypeOK /\ DOMAIN catalogue.products \subseteq Held

LEMMA Places ==
    ASSUME NEW id \in Held
    PROVE  /\ Place(id) \in 1..Len(Listing)
           /\ Listing[Place(id)] = id
<1>1. \E i \in DOMAIN Listing : Listing[i] = id
  BY DEF Held
<1>2. Place(id) \in DOMAIN Listing /\ Listing[Place(id)] = id
  BY <1>1 DEF Place
<1> QED
  BY <1>2, ReadsAssumption DEF ReadsAssumption

\* The two stores read the same entries, each named by its product and kind.
LEMMA EntriesTyped ==
    ASSUME Readable
    PROVE  /\ SqlRows = Entries
           /\ \A e \in Entries : /\ e.productId \in Held
                                /\ Place(e.productId) \in 1..Len(Listing)
                                /\ e.at \in Int
                                /\ e.kind \in {"PRICE_CHANGED", "STOCK_RESERVED"}
           /\ \A d, e \in Entries :
                 Place(d.productId) = Place(e.productId) /\ d.kind = e.kind => d = e
<1>1. SqlRows = Entries
  BY DEF SqlRows, Entries
<1>2. ASSUME NEW e \in Entries
      PROVE  /\ e.productId \in Held
             /\ \/ e.kind = "PRICE_CHANGED" /\ e = PriceEntry(e.productId)
                \/ e.kind = "STOCK_RESERVED" /\ e = StockEntry(e.productId)
  BY DEF Entries, PriceEntry, StockEntry, Readable
<1>3. ASSUME NEW e \in Entries
      PROVE  e.at \in Int
  <2>1. IsCatalogue(catalogue) /\ Times \subseteq Int
    BY ReadsAssumption DEF ReadsAssumption, Readable, TypeOK
  <2>2. \A id \in DOMAIN catalogue.products : PriceEntry(id).at \in Int
    BY <2>1 DEF IsCatalogue, IsTable, Product, PriceEntry
  <2>3. \A id \in DOMAIN catalogue.inventory :
           catalogue.inventory[id].reservedAt # Never => StockEntry(id).at \in Int
    BY <2>1 DEF IsCatalogue, IsTable, Inventory, StockEntry
  <2> QED
    BY <2>2, <2>3 DEF Entries
<1>4. \A e \in Entries : Place(e.productId) \in 1..Len(Listing)
  BY <1>2, Places
<1>5. ASSUME NEW d \in Entries, NEW e \in Entries,
             Place(d.productId) = Place(e.productId), d.kind = e.kind
      PROVE  d = e
  <2>1. d.productId = e.productId
    BY <1>2, <1>5, Places
  <2> QED
    BY <1>2, <1>5, <2>1
<1> QED
  BY <1>1, <1>2, <1>3, <1>4, <1>5

LEMMA EntriesFinite ==
    ASSUME Readable
    PROVE  IsFiniteSet(Entries)
<1> DEFINE n == Len(Listing)
           slot == [e \in Entries |-> IF e.kind = "PRICE_CHANGED" THEN 2 * Place(e.productId)
                                      ELSE 2 * Place(e.productId) - 1]
<1>1. n \in Nat
  BY ReadsAssumption DEF ReadsAssumption
<1>2. \A e \in Entries : Place(e.productId) \in 1..n /\ Place(e.productId) \in Nat
  BY <1>1, EntriesTyped
<1>3. \A e \in Entries : slot[e] \in 1..(2 * n)
  BY <1>1, <1>2
<1>4. \A d, e \in Entries : slot[d] = slot[e] => d = e
  <2> SUFFICES ASSUME NEW d \in Entries, NEW e \in Entries, slot[d] = slot[e]
               PROVE  d = e
    OBVIOUS
  <2>1. Place(d.productId) = Place(e.productId)
        /\ (d.kind = "PRICE_CHANGED" <=> e.kind = "PRICE_CHANGED")
    BY <1>2
  <2> QED
    BY <2>1, EntriesTyped
<1>5. slot \in [Entries -> 1..(2 * n)]
  BY <1>3
<1> HIDE DEF slot
<1>6. slot \in Injection(Entries, 1..(2 * n))
  BY <1>4, <1>5 DEF Injection, IsInjective
<1>7. IsFiniteSet(1..(2 * n))
  BY <1>1, FS_Interval
<1> QED
  BY <1>6, <1>7, FS_Injection

\* The order both stores mean.
FeedOrder == {pair \in Entries \X Entries : NewestFirst(pair[1], pair[2])}

LEMMA FeedOrderStrict ==
    ASSUME Readable
    PROVE  IsStrictOrder(FeedOrder, Entries)
<1>1. \A e \in Entries : /\ e.at \in Int /\ Place(e.productId) \in Int
                         /\ e.kind \in {"PRICE_CHANGED", "STOCK_RESERVED"}
  BY EntriesTyped
<1>2. \A d, e \in Entries : <<d, e>> \in FeedOrder <=> NewestFirst(d, e)
  BY DEF FeedOrder
<1>3. \A e \in Entries : ~NewestFirst(e, e)
  BY <1>1 DEF NewestFirst
<1>4. \A c, d, e \in Entries : NewestFirst(c, d) /\ NewestFirst(d, e) => NewestFirst(c, e)
  BY <1>1 DEF NewestFirst
<1>5. ASSUME NEW d \in Entries, NEW e \in Entries
      PROVE  d = e \/ NewestFirst(d, e) \/ NewestFirst(e, d)
  <2>1. \A id \in Held, other \in Held : Place(id) = Place(other) => id = other
    BY Places
  <2>2. Place(d.productId) = Place(e.productId) => d.productId = e.productId
    BY <2>1, EntriesTyped
  <2>3. Place(d.productId) = Place(e.productId) /\ d.kind = e.kind => d = e
    BY EntriesTyped
  <2> QED
    BY <1>1, <2>2, <2>3 DEF NewestFirst
<1> QED
  BY <1>2, <1>3, <1>4, <1>5 DEF IsStrictOrder

\* Sorted stably by newestFirst, or as ORDER BY allows: along the same order.
LEMMA OrdersAlong ==
    ASSUME Readable
    PROVE  MemoryOrders = Along(Entries, FeedOrder) /\ SqlOrders = Along(Entries, FeedOrder)
<1>1. /\ \A e \in Entries : ~NewestFirst(e, e)
      /\ \A d, e \in Entries : d = e \/ NewestFirst(d, e) \/ NewestFirst(e, d)
      /\ \A d, e \in Entries : ~(NewestFirst(d, e) /\ NewestFirst(e, d))
      /\ \A d, e \in Entries : <<d, e>> \in FeedOrder <=> NewestFirst(d, e)
  <2>1. \A d, e \in Entries : <<d, e>> \in FeedOrder <=> NewestFirst(d, e)
    BY DEF FeedOrder
  <2> QED
    BY <2>1, FeedOrderStrict DEF IsStrictOrder
<1>2. \A d, e : SqlKeyLess(d, e) <=> NewestFirst(d, e)
  BY DEF SqlKeyLess, NewestFirst
<1>3. ASSUME NEW order \in SetToSeqs(Entries)
      PROVE  /\ \A i, j \in DOMAIN order : i < j =>
                   (SortsBefore(order[i], order[j]) <=> <<order[i], order[j]>> \in FeedOrder)
             /\ (\A i, j \in DOMAIN order : SqlKeyLess(order[i], order[j]) => i < j) <=>
                   \A i, j \in DOMAIN order : i < j => <<order[i], order[j]>> \in FeedOrder
  <2>1. /\ \A i \in DOMAIN order : i \in Int /\ order[i] \in Entries
        /\ \A i, j \in DOMAIN order : i # j => order[i] # order[j]
    BY <1>3 DEF SetToSeqs
  <2>2. \A i, j \in DOMAIN order : i < j =>
           (SortsBefore(order[i], order[j]) <=> <<order[i], order[j]>> \in FeedOrder)
    <3> SUFFICES ASSUME NEW i \in DOMAIN order, NEW j \in DOMAIN order, i < j
                 PROVE  SortsBefore(order[i], order[j]) <=> <<order[i], order[j]>> \in FeedOrder
      OBVIOUS
    <3>1. order[i] \in Entries /\ order[j] \in Entries /\ order[i] # order[j]
      BY <2>1
    <3> QED
      BY <1>1, <3>1 DEF SortsBefore
  <2>3. ASSUME \A i, j \in DOMAIN order : SqlKeyLess(order[i], order[j]) => i < j,
               NEW i \in DOMAIN order, NEW j \in DOMAIN order, i < j
        PROVE  <<order[i], order[j]>> \in FeedOrder
    <3>1. ~NewestFirst(order[j], order[i])
      BY <1>2, <2>1, <2>3
    <3> QED
      BY <1>1, <2>1, <2>3, <3>1
  <2>4. ASSUME \A i, j \in DOMAIN order : i < j => <<order[i], order[j]>> \in FeedOrder,
               NEW i \in DOMAIN order, NEW j \in DOMAIN order, SqlKeyLess(order[i], order[j])
        PROVE  i < j
    <3>1. order[i] # order[j] /\ ~(j < i)
      BY <1>1, <1>2, <2>1, <2>4
    <3> QED
      BY <2>1, <3>1
  <2> QED
    BY <2>2, <2>3, <2>4
<1>4. MemoryOrders = Along(Entries, FeedOrder)
  BY <1>3 DEF MemoryOrders, Along
<1>5. SqlOrders = Along(Entries, FeedOrder)
  BY <1>3, EntriesTyped DEF SqlOrders, Along
<1> QED
  BY <1>4, <1>5

LEMMA MaxOfTwo ==
    ASSUME NEW a \in Int, NEW b \in Int
    PROVE  Max({a, b}) = IF a >= b THEN a ELSE b
<1>1. \E x \in {a, b} : \A y \in {a, b} : x >= y
  OBVIOUS
<1>2. Max({a, b}) \in {a, b} /\ \A y \in {a, b} : Max({a, b}) >= y
  BY <1>1 DEF Max
<1> QED
  BY <1>2

LEMMA MinOfTwo ==
    ASSUME NEW a \in Int, NEW b \in Int
    PROVE  Min({a, b}) = IF a <= b THEN a ELSE b
<1>1. \E x \in {a, b} : \A y \in {a, b} : x <= y
  OBVIOUS
<1>2. Min({a, b}) \in {a, b} /\ \A y \in {a, b} : Min({a, b}) <= y
  BY <1>1 DEF Min
<1> QED
  BY <1>2

\* Array.prototype.slice between two places that are none below 0.
LEMMA SliceForward ==
    ASSUME NEW S, NEW list \in Seq(S), NEW start \in Nat, NEW end \in Nat
    PROVE  Slice(list, start, end) = SubSeq(list, Min({start, Len(list)}) + 1, Min({end, Len(list)}))
<1>1. ~(start < 0) /\ ~(end < 0)
  OBVIOUS
<1> QED
  BY <1>1, Zenon DEF Slice

\* slice and LIMIT cut one list to the same length, numbers below 0 included.
LEMMA CutAlike ==
    ASSUME NEW S, NEW order \in Seq(S), NEW limit \in Int
    PROVE  MemoryActivity(order, limit) = SqlActivity(order, limit)
<1>1. Wanted(limit) \in Nat
  BY MaxOfTwo DEF Wanted
<1>2. Len(order) \in Nat /\ Min({0, Len(order)}) = 0
  BY MinOfTwo
<1>3. MemoryActivity(order, limit) = SubSeq(order, 1, Min({Wanted(limit), Len(order)}))
  <2>1. Slice(order, 0, Wanted(limit)) =
           SubSeq(order, Min({0, Len(order)}) + 1, Min({Wanted(limit), Len(order)}))
    BY <1>1, SliceForward
  <2>2. Min({0, Len(order)}) + 1 = 1
    BY <1>2
  <2> QED
    BY <2>1, <2>2, Zenon DEF MemoryActivity
<1>4. SqlActivity(order, limit) = SubSeq(order, 1, Min({Len(order), Wanted(limit)}))
  <2>1. ~(Wanted(limit) < 0)
    BY <1>1
  <2> QED
    BY <2>1, Zenon DEF SqlActivity
<1>5. {Len(order), Wanted(limit)} = {Wanted(limit), Len(order)}
  OBVIOUS
<1> QED
  BY <1>3, <1>4, <1>5

LEMMA FeedsOfReadable == Readable => FeedsAgree
<1> SUFFICES ASSUME Readable
             PROVE  FeedsAgree
  OBVIOUS
<1>1. IsFiniteSet(Entries) /\ IsStrictOrder(FeedOrder, Entries)
  BY EntriesFinite, FeedOrderStrict
<1>2. MemoryOrders = Along(Entries, FeedOrder) /\ SqlOrders = Along(Entries, FeedOrder)
  BY OrdersAlong
<1>3. MemoryOrders # {} /\ SqlOrders # {}
  BY <1>1, <1>2, ArrangementExists
<1>4. ASSUME NEW left \in MemoryOrders, NEW right \in SqlOrders, NEW limit \in Int
      PROVE  MemoryActivity(left, limit) = SqlActivity(right, limit)
  <2>1. left = right
    BY <1>1, <1>2, ArrangementUnique
  <2>2. left \in Seq(Entries)
    <3>1. left \in [1..Cardinality(Entries) -> Entries] /\ Cardinality(Entries) \in Nat
      BY <1>1, <1>2, FS_CardinalityType DEF Along, SetToSeqs
    <3> QED
      BY <3>1
  <2> QED
    BY <2>1, <2>2, CutAlike
<1> QED
  BY <1>3, <1>4 DEF FeedsAgree

LEMMA StepReadable ==
    ASSUME Readable, [Next]_vars
    PROVE  Readable'
<1>1. TypeOK'
  BY NextType DEF Readable
<1>2. DOMAIN Seed.products \subseteq Held
  BY ReadsAssumption DEF ReadsAssumption, Held
<1>3. DOMAIN catalogue'.products \subseteq Held
  <2>1. CASE Next
    BY <1>2, <2>1, ProductSteps DEF Readable
  <2>2. CASE UNCHANGED vars
    BY <2>2 DEF vars, Readable
  <2> QED
    BY <2>1, <2>2
<1>4. Held' = Held
  BY DEF Held
<1> QED
  BY <1>1, <1>3, <1>4 DEF Readable

LEMMA InitReadable == Init => Readable
BY CatalogueAssumption, ReadsAssumption
   DEF CatalogueAssumption, ReadsAssumption, Init, Readable, Held, TypeOK, NoReply, Done

\* For any catalogue, clock and order of writes, resets and restarts, both
\* stores answer one and the same feed, whatever number of entries is asked.
THEOREM FeedsHold == Spec => []FeedsAgree
<1>1. Readable /\ [Next]_vars => Readable'
  BY StepReadable
<1> QED
  BY <1>1, InitReadable, FeedsOfReadable, PTL DEF Spec

-----------------------------------------------------------------------------
(* The pages. *)

\* A list of products holds each of them once.
LEMMA ListOf ==
    ASSUME NEW ids, ids \subseteq Held
    PROVE  /\ InOrder(ids) \in Seq(ids)
           /\ \A i, j \in 1..Len(InOrder(ids)) : InOrder(ids)[i] = InOrder(ids)[j] => i = j
           /\ Len(InOrder(ids)) = Cardinality(ids) /\ Len(InOrder(ids)) \in Nat
<1> DEFINE R == {pair \in ids \X ids : Place(pair[1]) < Place(pair[2])}
           slot == [id \in ids |-> Place(id)]
<1>1. /\ \A id \in ids : Place(id) \in 1..Len(Listing) /\ Place(id) \in Int
      /\ \A id, other \in ids : Place(id) = Place(other) => id = other
  BY Places, ReadsAssumption DEF ReadsAssumption
<1>2. IsFiniteSet(ids) /\ Cardinality(ids) \in Nat
  <2>1. slot \in Injection(ids, 1..Len(Listing))
    BY <1>1 DEF Injection, IsInjective
  <2>2. IsFiniteSet(1..Len(Listing))
    BY ReadsAssumption, FS_Interval DEF ReadsAssumption
  <2> HIDE DEF slot
  <2> QED
    BY <2>1, <2>2, FS_Injection, FS_CardinalityType
<1>3. \A x, y \in ids : <<x, y>> \in R <=> Place(x) < Place(y)
  OBVIOUS
<1> HIDE DEF R
<1>4. IsStrictOrder(R, ids)
  <2>1. \A x, y, z \in ids : Place(x) < Place(y) /\ Place(y) < Place(z) => Place(x) < Place(z)
    BY <1>1
  <2>2. \A x \in ids : ~(Place(x) < Place(x))
    BY <1>1
  <2>3. \A x, y \in ids : x = y \/ Place(x) < Place(y) \/ Place(y) < Place(x)
    BY <1>1
  <2> QED
    BY <1>3, <2>1, <2>2, <2>3 DEF IsStrictOrder
<1>5. \E list \in SetToSeqs(ids) :
         \A i, j \in DOMAIN list : i < j => Place(list[i]) < Place(list[j])
  <2>1. PICK list \in Along(ids, R) : TRUE
    BY <1>2, <1>4, ArrangementExists
  <2>2. list \in SetToSeqs(ids)
    BY DEF Along
  <2>3. \A i \in DOMAIN list : list[i] \in ids
    BY <2>2 DEF SetToSeqs
  <2>4. \A i, j \in DOMAIN list : i < j => Place(list[i]) < Place(list[j])
    BY <1>3, <2>1, <2>3 DEF Along
  <2> QED
    BY <2>2, <2>4
<1>6. InOrder(ids) \in SetToSeqs(ids)
  BY <1>5 DEF InOrder
<1>7. /\ InOrder(ids) \in [1..Cardinality(ids) -> ids]
      /\ \A i, j \in 1..Cardinality(ids) : i # j => InOrder(ids)[i] # InOrder(ids)[j]
  BY <1>6 DEF SetToSeqs
<1>8. InOrder(ids) \in Seq(ids) /\ Len(InOrder(ids)) = Cardinality(ids)
  BY <1>2, <1>7
<1> QED
  BY <1>2, <1>7, <1>8

\* The part of a list behind its k-th element, up to its m-th.
LEMMA Between ==
    ASSUME NEW S, NEW list \in Seq(S), NEW k \in Nat, NEW m \in Nat, k <= m, m <= Len(list)
    PROVE  /\ Len(SubSeq(list, k + 1, m)) = m - k
           /\ \A i \in 1..(m - k) : SubSeq(list, k + 1, m)[i] = list[k + i]
<1> DEFINE from == k + 1
<1>1. from \in Int /\ m \in Int /\ m - from + 1 = m - k
  OBVIOUS
<1>2. \A i \in from..m : list[i] \in S
  BY ElementOfSeq
<1>3. \A i \in 1..(m - k) : from + i - 1 = k + i
  OBVIOUS
<1>4. Len(SubSeq(list, from, m)) = IF from <= m THEN m - k ELSE 0
  <2> HIDE DEF from
  <2> QED
    BY <1>1, <1>2, SubSeqProperties
<1>5. \A i \in 1..(m - k) : SubSeq(list, from, m)[i] = list[from + i - 1]
  <2> HIDE DEF from
  <2> QED
    BY <1>1, <1>2, SubSeqProperties
<1> QED
  BY <1>3, <1>4, <1>5

\* Where the page ends that begins behind the k-th product.
PageEnd(list, k, first) == IF k + first <= Len(list) THEN k + first ELSE Len(list)

LEMMA PageFrom ==
    ASSUME NEW list \in Seq(ProductIds), NEW k \in 0..Len(list), NEW first \in Nat \ {0},
           NEW after, Start(list, after) = k
    PROVE  Page(list, first, after) = SubSeq(list, k + 1, PageEnd(list, k, first))
<1>1. Len(list) \in Nat /\ k \in Nat /\ k + first \in Nat /\ k <= Len(list)
  OBVIOUS
<1>2. Min({k, Len(list)}) = k /\ Min({k + first, Len(list)}) = PageEnd(list, k, first)
  BY <1>1, MinOfTwo DEF PageEnd
<1>3. Slice(list, k, k + first) =
         SubSeq(list, Min({k, Len(list)}) + 1, Min({k + first, Len(list)}))
  BY <1>1, SliceForward
<1> QED
  BY <1>2, <1>3, Zenon DEF Page

\* What is behind a product the list holds, and behind one it does not hold.
LEMMA StartBehind ==
    ASSUME NEW S, NEW list \in Seq(S), \A i, j \in 1..Len(list) : list[i] = list[j] => i = j
    PROVE  /\ \A k \in 1..Len(list) : list[k] # NoCursor => Start(list, list[k]) = k
           /\ \A after : ~Holds(list, after) => Start(list, after) = 0
<1>1. DOMAIN list = 1..Len(list)
  OBVIOUS
<1>2. ASSUME NEW k \in 1..Len(list), list[k] # NoCursor
      PROVE  Start(list, list[k]) = k
  <2>1. (CHOOSE i \in DOMAIN list : list[i] = list[k]) = k
    BY <1>1
  <2>2. Holds(list, list[k])
    BY <1>1 DEF Holds
  <2>3. FindIndex(list, list[k]) = k - 1
    BY <2>1, <2>2 DEF FindIndex
  <2> QED
    BY <1>2, <2>3 DEF Start
<1>3. ASSUME NEW after, ~Holds(list, after)
      PROVE  Start(list, after) = 0
  BY <1>3 DEF Start, FindIndex
<1> QED
  BY <1>2, <1>3

\* A client c was shown the first k products, and asks for what is behind them.
ShownUpTo(c, k, list) ==
    /\ c.shown = SubSeq(list, 1, k)
    /\ IF c.over THEN k = Len(list) ELSE Start(list, c.after) = k

RightClient(c, list) ==
    /\ c = [filter |-> c.filter, first |-> c.first, after |-> c.after,
            shown |-> c.shown, over |-> c.over]
    /\ c.first \in Nat \ {0}
    /\ \E k \in 0..Len(list) : ShownUpTo(c, k, list)

ClientIsRight == RightClient(client, Products(client.filter))

PagesInv ==
    /\ Readable
    /\ DOMAIN catalogue.products = DOMAIN Seed.products
    /\ ClientIsRight

LEMMA ProductsOf ==
    ASSUME Readable, NEW filter
    PROVE  LET list == Products(filter) IN
           /\ list \in Seq(ProductIds) /\ Len(list) \in Nat
           /\ \A i, j \in 1..Len(list) : list[i] = list[j] => i = j
           /\ \A i \in 1..Len(list) : list[i] # NoCursor
<1> DEFINE ids == DOMAIN catalogue.products \cap filter
<1>1. ids \subseteq Held /\ ids \subseteq ProductIds
  BY DEF Readable, TypeOK, IsCatalogue, IsTable
<1>2. Products(filter) = InOrder(ids)
  BY DEF Products
<1> HIDE DEF ids
<1>3. InOrder(ids) \in Seq(ids)
  BY <1>1, ListOf
<1>4. InOrder(ids) \in Seq(ProductIds)
  BY <1>1, <1>3, SeqMonotonic
<1>5. \A i \in 1..Len(InOrder(ids)) : InOrder(ids)[i] # NoCursor
  BY <1>4, PagesAssumption, ElementOfSeq DEF PagesAssumption
<1> QED
  BY <1>1, <1>2, <1>4, <1>5, ListOf

LEMMA OpenKeeps ==
    ASSUME PagesInv, NEW filter \in Filters, NEW first \in PageSizes,
           NEW after \in ProductIds \cup {NoCursor}, Open(filter, first, after)
    PROVE  ClientIsRight'
<1> DEFINE list == Products(filter)
<1>1. /\ list \in Seq(ProductIds) /\ Len(list) \in Nat
      /\ \A i, j \in 1..Len(list) : list[i] = list[j] => i = j
  BY ProductsOf DEF PagesInv
<1>2. client' = [filter |-> filter, first |-> first, after |-> after,
                 shown |-> << >>, over |-> FALSE]
  BY DEF Open
<1>3. Products(filter)' = list
  BY DEF Open, Products
<1>4. Start(list, after) = 0
  <2>1. ~Holds(list, after)
    BY DEF Open
  <2> HIDE DEF list
  <2> QED
    BY <1>1, <2>1, StartBehind
<1> HIDE DEF list
<1>5. SubSeq(list, 1, 0) = << >> /\ 0 \in 0..Len(list)
  BY <1>1, SubSeqEmpty
<1>6. client'.filter = filter /\ client'.first = first /\ client'.after = after
      /\ client'.shown = << >> /\ client'.over = FALSE
  BY <1>2
<1>7. ShownUpTo(client', 0, list)
  BY <1>4, <1>5, <1>6 DEF ShownUpTo
<1>8. Products(client.filter)' = list
  BY <1>3, <1>6
<1>9. first \in Nat \ {0}
  BY PagesAssumption DEF PagesAssumption
<1>10. RightClient(client', list)
  BY <1>2, <1>5, <1>6, <1>7, <1>9 DEF RightClient
<1> QED
  BY <1>8, <1>10, Zenon DEF ClientIsRight

LEMMA TurnKeeps ==
    ASSUME PagesInv, Turn
    PROVE  ClientIsRight'
<1> DEFINE list == Products(client.filter)
           page == Page(list, client.first, client.after)
<1>1. /\ list \in Seq(ProductIds) /\ Len(list) \in Nat
      /\ \A i, j \in 1..Len(list) : list[i] = list[j] => i = j
      /\ \A i \in 1..Len(list) : list[i] # NoCursor
  BY ProductsOf DEF PagesInv
<1>2. /\ ~client.over
      /\ client' = IF page = << >> THEN [client EXCEPT !.over = TRUE]
                   ELSE [client EXCEPT !.after = Last(page), !.shown = @ \o page]
      /\ UNCHANGED <<catalogue, reply>>
  BY DEF Turn
<1>3. PICK k \in 0..Len(list) : ShownUpTo(client, k, list)
  BY DEF PagesInv, ClientIsRight, RightClient
<1>4. /\ client = [filter |-> client.filter, first |-> client.first, after |-> client.after,
                   shown |-> client.shown, over |-> client.over]
      /\ client.first \in Nat \ {0}
  BY DEF PagesInv, ClientIsRight, RightClient
<1>5. client'.filter = client.filter => Products(client.filter)' = list
  BY <1>2 DEF Products
<1>6. client.shown = SubSeq(list, 1, k) /\ Start(list, client.after) = k
  BY <1>2, <1>3 DEF ShownUpTo
<1> HIDE DEF list
<1> DEFINE m == PageEnd(list, k, client.first)
<1>7. m \in k..Len(list) /\ page = SubSeq(list, k + 1, m) /\ (m = k => k = Len(list))
  <2>1. page = SubSeq(list, k + 1, m)
    BY <1>1, <1>3, <1>4, <1>6, PageFrom
  <2>2. m \in k..Len(list) /\ (m = k => k = Len(list))
    BY <1>1, <1>3, <1>4 DEF PageEnd
  <2> QED
    BY <2>1, <2>2
<1> HIDE DEF page, m
<1>8. k \in Nat /\ m \in Nat /\ k <= m /\ m <= Len(list)
  BY <1>1, <1>3, <1>7
<1>9. Len(page) = m - k /\ \A i \in 1..(m - k) : page[i] = list[k + i]
  BY <1>1, <1>7, <1>8, Between
<1>10. CASE page = << >>
  <2>1. m = k /\ k = Len(list)
    BY <1>7, <1>8, <1>9, <1>10
  <2>2. client' = [client EXCEPT !.over = TRUE]
    BY <1>2, <1>10
  <2>3. /\ client' = [filter |-> client'.filter, first |-> client'.first, after |-> client'.after,
                      shown |-> client'.shown, over |-> client'.over]
        /\ client'.filter = client.filter /\ client'.first = client.first
        /\ client'.shown = client.shown /\ client'.over = TRUE
    BY <1>4, <2>2
  <2>4. ShownUpTo(client', k, list)
    BY <1>6, <2>1, <2>3 DEF ShownUpTo
  <2>5. RightClient(client', list)
    BY <1>3, <1>4, <2>3, <2>4 DEF RightClient
  <2> QED
    BY <1>5, <2>3, <2>5, Zenon DEF ClientIsRight
<1>11. CASE page # << >>
  <2>1. client' = [client EXCEPT !.after = Last(page), !.shown = @ \o page]
    BY <1>2, <1>11
  <2>2. /\ client' = [filter |-> client'.filter, first |-> client'.first, after |-> client'.after,
                      shown |-> client'.shown, over |-> client'.over]
        /\ client'.filter = client.filter /\ client'.first = client.first
        /\ client'.shown = client.shown \o page /\ client'.after = Last(page)
        /\ client'.over = client.over
    BY <1>4, <2>1
  <2>3. k < m
    BY <1>7, <1>8, <1>11, SubSeqEmpty
  <2>4. m \in 1..Len(list) /\ Last(page) = list[m]
    BY <1>8, <1>9, <2>3 DEF Last
  <2>5. client'.shown = SubSeq(list, 1, m)
    <3>1. 1 \in 1..(Len(list) + 1) /\ k \in (1 - 1)..Len(list) /\ m \in k..Len(list)
      BY <1>1, <1>8
    <3>2. SubSeq(list, 1, k) \o SubSeq(list, k + 1, m) = SubSeq(list, 1, m)
      BY <1>1, <3>1, ConcatAdjacentSubSeq
    <3> QED
      BY <1>6, <1>7, <2>2, <3>2
  <2>6. Start(list, list[m]) = m
    BY <1>1, <2>4, StartBehind
  <2>7. ShownUpTo(client', m, list)
    BY <1>2, <2>2, <2>4, <2>5, <2>6 DEF ShownUpTo
  <2>8. m \in 0..Len(list)
    BY <1>8
  <2>9. RightClient(client', list)
    BY <1>4, <2>2, <2>7, <2>8 DEF RightClient
  <2> QED
    BY <1>5, <2>2, <2>9, Zenon DEF ClientIsRight
<1> QED
  BY <1>10, <1>11

LEMMA StorePlays ==
    ASSUME PagesInv, [Next]_vars, UNCHANGED client
    PROVE  PagesInv'
<1>1. Readable'
  BY StepReadable DEF PagesInv
<1>2. DOMAIN catalogue'.products = DOMAIN Seed.products
  <2>1. CASE Next
    BY <2>1, ProductSteps DEF PagesInv, Readable
  <2>2. CASE UNCHANGED vars
    BY <2>2 DEF vars, PagesInv
  <2> QED
    BY <2>1, <2>2
<1>3. Products(client.filter)' = Products(client.filter)
  BY <1>2 DEF Products, PagesInv
<1>4. ClientIsRight'
  BY <1>3, Zenon DEF ClientIsRight, PagesInv
<1> QED
  BY <1>1, <1>2, <1>4 DEF PagesInv

LEMMA NextPagesInv == PagesInv /\ [PagesNext]_pageVars => PagesInv'
<1> SUFFICES ASSUME PagesInv, [PagesNext]_pageVars
             PROVE  PagesInv'
  OBVIOUS
<1>1. CASE [Next]_vars /\ UNCHANGED client
  BY <1>1, StorePlays
<1>2. ASSUME UNCHANGED <<catalogue, reply>>, ClientIsRight'
      PROVE  PagesInv'
  <2>1. Readable'
    BY <1>2, StepReadable DEF PagesInv, vars
  <2> QED
    BY <1>2, <2>1 DEF PagesInv
<1>3. ASSUME NEW filter \in Filters, NEW first \in PageSizes,
             NEW after \in ProductIds \cup {NoCursor}, Open(filter, first, after)
      PROVE  PagesInv'
  BY <1>2, <1>3, OpenKeeps DEF Open
<1>4. CASE Turn
  BY <1>2, <1>4, TurnKeeps DEF Turn
<1>5. CASE UNCHANGED pageVars
  BY <1>1, <1>5 DEF pageVars, vars
<1> QED
  BY <1>1, <1>3, <1>4, <1>5 DEF PagesNext

LEMMA PagesInitInv ==
    ASSUME \A c \in Inherited : DOMAIN c.products = DOMAIN Seed.products, PagesInit
    PROVE  PagesInv
<1>1. Readable /\ DOMAIN catalogue.products = DOMAIN Seed.products
  BY InitReadable DEF PagesInit, Init
<1>2. client = [filter |-> {}, first |-> 1, after |-> NoCursor, shown |-> << >>, over |-> TRUE]
  BY DEF PagesInit
<1>3. Products(client.filter) = InOrder({})
  BY <1>2 DEF Products
<1>4. InOrder({}) \in Seq({}) /\ Len(InOrder({})) = 0
  BY ListOf, FS_EmptySet
<1>5. SubSeq(InOrder({}), 1, 0) = << >>
  BY SubSeqEmpty
<1>6. ShownUpTo(client, 0, InOrder({}))
  BY <1>2, <1>4, <1>5 DEF ShownUpTo
<1>7. RightClient(client, InOrder({}))
  BY <1>2, <1>4, <1>6 DEF RightClient
<1> QED
  BY <1>1, <1>3, <1>7 DEF PagesInv, ClientIsRight

LEMMA PagesOfInv == PagesInv => PagesShowAllOnce
<1> SUFFICES ASSUME PagesInv
             PROVE  PagesShowAllOnce
  OBVIOUS
<1> DEFINE list == Products(client.filter)
<1>1. list \in Seq(ProductIds) /\ Len(list) \in Nat
  BY ProductsOf DEF PagesInv
<1>2. PICK k \in 0..Len(list) : ShownUpTo(client, k, list)
  BY DEF PagesInv, ClientIsRight, RightClient
<1> HIDE DEF list
<1>3. client.shown = SubSeq(list, 1, k) /\ (client.over => k = Len(list))
  BY <1>2 DEF ShownUpTo
<1>4. /\ client.shown \in Seq(ProductIds) /\ Len(client.shown) = k
      /\ k \in Nat /\ k <= Len(list)
  <2>1. 1 \in Int /\ k \in Int /\ k \in Nat /\ k <= Len(list)
    BY <1>1, <1>2
  <2>2. \A i \in 1..k : list[i] \in ProductIds
    BY <1>1, <2>1, ElementOfSeq
  <2>3. /\ SubSeq(list, 1, k) \in Seq(ProductIds)
        /\ Len(SubSeq(list, 1, k)) = IF 1 <= k THEN k - 1 + 1 ELSE 0
    BY <2>1, <2>2, SubSeqProperties
  <2> QED
    BY <1>3, <2>1, <2>3
<1>5. IsPrefix(client.shown, list)
  <2>1. SubSeq(client.shown, 1, Len(client.shown)) = client.shown
    BY <1>4, SubSeqFull
  <2> QED
    BY <1>3, <1>4, <2>1 DEF IsPrefix
<1>6. client.over => client.shown = list
  BY <1>1, <1>3, SubSeqFull
<1> USE DEF list
<1> QED
  BY <1>5, <1>6 DEF PagesShowAllOnce

\* A client that pages through the catalogue does not disturb it: all that is
\* proved of the catalogue holds beside the client too.
THEOREM PagesKeepTheStore == PagesSpec => Spec
<1>1. PagesInit => Init
  BY DEF PagesInit
<1>2. [PagesNext]_pageVars => [Next]_vars
  BY DEF PagesNext, pageVars, vars, Open, Turn
<1> QED
  BY <1>1, <1>2, PTL DEF PagesSpec, Spec

\* Where the tables a store may find hold the seed's products, at whatever
\* price, following the cursors shows every product of any list once, in order
\* and until the end, whatever is written, reset or restarted between pages.
THEOREM PagesHold ==
    ASSUME \A c \in Inherited : DOMAIN c.products = DOMAIN Seed.products
    PROVE  PagesSpec => []PagesShowAllOnce
<1>1. PagesInit => PagesInv
  BY PagesInitInv
<1>2. PagesInv /\ [PagesNext]_pageVars => PagesInv'
  BY NextPagesInv
<1> QED
  BY <1>1, <1>2, PagesOfInv, PTL DEF PagesSpec
=============================================================================
