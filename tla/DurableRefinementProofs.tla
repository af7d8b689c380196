----------------------- MODULE DurableRefinementProofs -----------------------
(***************************************************************************)
(* While one release runs and no statement throws, the Durable Object is   *)
(* the plain catalogue of the port, and a reset leaves its seed.           *)
(***************************************************************************)
EXTENDS DurableCatalogueProofs

\* What the refinement rests on: the mark is right, and a running object has
\* been seeded.
RefinementInv ==
    /\ CleanInv
    /\ up => DOMAIN tables.products # {}
    /\ DOMAIN tables.products = {} => tables = NoRows

\* A reset that is answered ok leaves the seed, when every release has the
\* same one and neither mutations nor resets are cut short.
THEOREM ResetRestores ==
    ASSUME FailingOps \subseteq {"construct"}, NEW s, Seeds = {s}
    PROVE  Spec => ResetLeavesTheSeed
<1>1. CleanInv /\ [Next]_vars
         => [up /\ up' /\ reply' = Done("reset") => tables' = seed']_vars
  <2> SUFFICES ASSUME CleanInv, Next, up, up', reply' = Done("reset")
               PROVE  tables' = seed'
    BY DEF vars
  <2>1. Call
    BY DEF Next, Construct, Evict, Deploy
  <2>2. seed' = s /\ seed = s
    BY <2>1 DEF Call, CleanInv, TypeOK
  <2>3. CASE Reset
    <3>1. CASE tables' = seed
      BY <2>2, <3>1
    <3>2. CASE ~IsDirty /\ UNCHANGED <<tables, flag>>
      BY <2>2, <3>2 DEF IsDirty, CleanInv, CleanHoldsASeed
    <3> QED
      BY <2>3, <3>1, <3>2, ResetOutcome DEF Done, Refusal
  <2>4. CASE ~Reset
    <3>1. reply'.op # "reset"
      BY <2>1, <2>4 DEF Call, SetPrice, AddReview, ReserveStock, RenameCategory,
                        WriteThenMark, Refuse, Answer, Refusal
    <3> QED
      BY <3>1 DEF Done
  <2> QED
    BY <2>3, <2>4
<1>2. Spec => []CleanInv
  BY CleanInvariant
<1> QED
  BY <1>1, <1>2, PTL DEF Spec, ResetLeavesTheSeed

-----------------------------------------------------------------------------
(* Refinement.                                                             *)

\* A construction finds the tables seeded, or seeds them.
LEMMA Construction ==
    ASSUME FailingOps = {}, RefinementInv, Construct
    PROVE  \/ DOMAIN tables.products # {} /\ up' = TRUE /\ UNCHANGED <<tables, reply>>
           \/ /\ DOMAIN tables.products = {}
              /\ tables' = seed /\ UNCHANGED reply
<1>1. DOMAIN tables.products = {} => DOMAIN tables.categories = {}
  BY DEF RefinementInv, NoRows
<1>2. DOMAIN tables.products = {} => ~SeedStops("construct", tables)
  BY <1>1, SeedingDoesNotClash DEF RefinementInv
<1> QED
  BY <1>2, SeedingFromNothing DEF Construct, RefinementInv

\* No method takes the last product away.
LEMMA CallKeepsProducts ==
    ASSUME FailingOps = {}, CleanInv, Call, DOMAIN tables.products # {}
    PROVE  DOMAIN tables'.products # {}
<1>1. seed \in Seeds /\ IsCatalogue(tables)
  BY DEF CleanInv, TypeOK
<1>2. CASE Reset
  BY <1>1, <1>2, ResetOutcome, SeedHasProducts
<1>3. ASSUME NEW id, NEW price, NEW at, SetPrice(id, price, at)
      PROVE  DOMAIN tables'.products # {}
  <2>1. \/ tables'.products = tables.products
        \/ tables'.products = [tables.products EXCEPT ![id] = Priced(price, at)]
    BY <1>1, <1>3 DEF SetPrice, WriteThenMark, Refuse, IsCatalogue
  <2> QED
    BY <1>1, <2>1 DEF IsCatalogue, IsTable
<1>4. CASE \/ \E id \in ProductIds : AddReview(id)
           \/ \E id \in ProductIds, count \in Counts, at \in Clock : ReserveStock(id, count, at)
           \/ \E id \in CategoryIds, name \in Names : RenameCategory(id, name)
  <2>1. tables'.products = tables.products
    BY <1>1, <1>4 DEF AddReview, ReserveStock, RenameCategory, WriteThenMark, Refuse, IsCatalogue
  <2> QED
    BY <2>1
<1> QED
  BY <1>2, <1>3, <1>4 DEF Call

\* With nothing that fails, construction seeds and nothing else unseeds.
LEMMA RefinementInvariant ==
    ASSUME FailingOps = {}
    PROVE  Spec => []RefinementInv
<1>1. Init => RefinementInv
  <2>1. Init => (DOMAIN tables.products = {} => tables = NoRows)
    BY DurableAssumption DEF DurableAssumption, Init
  <2> QED
    BY <2>1, CleanInit DEF RefinementInv, Init
<1>2. RefinementInv /\ [Next]_vars => RefinementInv'
  <2> SUFFICES ASSUME RefinementInv, [Next]_vars
               PROVE  /\ up' => DOMAIN tables'.products # {}
                      /\ DOMAIN tables'.products = {} => tables' = NoRows
    BY CleanNext DEF RefinementInv, NoRows
  <2>1. seed \in Seeds /\ IsCatalogue(tables) /\ CleanInv
    BY DEF RefinementInv, CleanInv, TypeOK
  <2>2. CASE UNCHANGED vars
    BY <2>2 DEF vars, RefinementInv
  <2>3. CASE Construct
    BY <2>1, <2>3, Construction, SeedHasProducts DEF RefinementInv
  <2>4. CASE Call
    <3>1. DOMAIN tables.products # {}
      BY <2>4 DEF Call, RefinementInv
    <3>2. DOMAIN tables'.products # {}
      BY <2>1, <2>4, <3>1, CallKeepsProducts
    <3> QED
      BY <3>2
  <2> QED
    BY <2>2, <2>3, <2>4 DEF Next, Evict, Deploy, RefinementInv
<1> QED
  BY <1>1, <1>2, PTL DEF Spec

\* The port's data are the object's.
LEMMA SameData ==
    /\ \A op, value : Port!Answer(op, value) = Answer(op, value)
    /\ \A op, why : Port!Refusal(op, why) = Refusal(op, why)
    /\ \A op : Port!Done(op) = Done(op)
    /\ \A n, id : Port!AddedReview(n, id) = AddedReview(n, id)
    /\ Port!NoReply = NoReply
BY DEF Port!Answer, Answer, Port!Refusal, Refusal, Port!Done, Done, Port!AddedReview,
       AddedReview, Port!NoReply, NoReply

\* A call of the object is the call of the port.
LEMMA CallRefines ==
    ASSUME FailingOps = {}, NEW s, Seeds = {s}, RefinementInv, RefinementInv', Call
    PROVE  [Port!Next]_(Port!vars)
<1>1. Held = tables /\ Held' = tables'
  BY DEF Held, RefinementInv, Call
<1>2. seed = s /\ TheSeed = s
  BY DEF RefinementInv, CleanInv, TypeOK, TheSeed
<1>3. ASSUME NEW id \in ProductIds, NEW price \in Money, NEW at \in Clock,
             SetPrice(id, price, at)
      PROVE  Port!SetPrice(id, price, at)
  BY <1>1, SameData, <1>3 DEF SetPrice, Priced, WriteThenMark, Refuse, Port!SetPrice, Port!Refuse,
                    RefinementInv, CleanInv, TypeOK, IsCatalogue, IsTable
<1>4. ASSUME NEW id \in ProductIds, AddReview(id)
      PROVE  Port!AddReview(id)
  BY <1>1, SameData, <1>4 DEF AddReview, NewReview, Port!NewReview, WriteThenMark, Refuse, Port!AddReview, Port!Refuse
<1>5. ASSUME NEW id \in ProductIds, NEW count \in Counts, NEW at \in Clock,
             ReserveStock(id, count, at)
      PROVE  Port!ReserveStock(id, count, at)
  <2>1. id \in DOMAIN tables.inventory =>
           /\ tables.inventory[id].available \in Int
           /\ count \in Int
    BY DurableAssumption
       DEF DurableAssumption, RefinementInv, CleanInv, TypeOK, IsCatalogue, IsTable, Inventory
  <2>2. id \in DOMAIN tables.inventory =>
           (Port!Enough(tables.inventory[id], count) <=> Enough(tables.inventory[id], count))
    BY <2>1 DEF Port!Enough, Enough
  <2> QED
    BY <1>1, <1>5, <2>1, <2>2, SameData
       DEF ReserveStock, Reserved, WriteThenMark, Refuse, Port!ReserveStock, Port!Refuse, Port!Reserved,
           RefinementInv, CleanInv, TypeOK, IsCatalogue, IsTable
<1>6. ASSUME NEW id \in CategoryIds, NEW name \in Names, RenameCategory(id, name)
      PROVE  Port!RenameCategory(id, name)
  BY <1>1, SameData, <1>6 DEF RenameCategory, WriteThenMark, Refuse, Port!RenameCategory, Port!Refuse
<1>7. ASSUME Reset
      PROVE  Port!Reset
  <2>1. tables' = TheSeed
    BY <1>2, <1>7, ResetOutcome DEF RefinementInv, CleanInv, CleanHoldsASeed, IsDirty
  <2>2. reply' = Done("reset")
    BY <1>7, ResetOutcome DEF RefinementInv
  <2> QED
    BY <1>1, SameData, <2>1, <2>2 DEF Port!Reset, Held
<1> QED
  BY <1>3, <1>4, <1>5, <1>6, <1>7 DEF Call, Port!Next

\* The lazy construction, evictions and restarts are invisible: they leave
\* what the tables stand for, and the last answer, as they are.
LEMMA LifeCycleRefines ==
    ASSUME FailingOps = {}, NEW s, Seeds = {s}, RefinementInv,
           Construct \/ Evict \/ Deploy \/ UNCHANGED vars
    PROVE  UNCHANGED Port!vars
<1>1. seed = s /\ TheSeed = s /\ CleanInv
  BY DEF RefinementInv, CleanInv, TypeOK, TheSeed
<1>2. CASE UNCHANGED <<tables, reply>>
  BY <1>2 DEF Port!vars, Held
<1>3. CASE DOMAIN tables.products = {} /\ tables' = seed /\ UNCHANGED reply
  BY <1>1, <1>3, SeedHasProducts DEF Port!vars, Held
<1> QED
  BY <1>2, <1>3, Construction DEF Evict, Deploy, vars

\* The Durable Object implements the port: with one seed and no statement that
\* throws, each of its steps is the port's step with the port's answer, or
\* changes nothing a caller can see.
THEOREM DurableImplementsPort ==
    ASSUME FailingOps = {}, NEW s, Seeds = {s}
    PROVE  Spec => ImplementsPort
<1>1. Init => Port!Init
  <2> SUFFICES ASSUME Init
               PROVE  Port!Init
    OBVIOUS
  <2>1. CASE tables = NoRows
    BY <2>1, SameData DEF Init, Port!Init, Held, NoRows
  <2>2. CASE tables \in Legacy
    BY <2>2, SameData, DurableAssumption DEF DurableAssumption, Init, Port!Init, Held
  <2> QED
    BY <2>1, <2>2 DEF Init
<1>2. RefinementInv /\ RefinementInv' /\ [Next]_vars => [Port!Next]_(Port!vars)
  BY CallRefines, LifeCycleRefines DEF Next
<1>3. Spec => []RefinementInv
  BY RefinementInvariant
<1> QED
  BY <1>1, <1>2, <1>3, PTL DEF Spec, ImplementsPort, Port!Spec

\* What module Catalogue takes for granted is so of the object's data, and what
\* is proved of every Catalogue therefore holds of what the object stands for.
LEMMA PortAssumption ==
    ASSUME NEW s, Seeds = {s}
    PROVE  Port!CatalogueAssumption
<1>1. TheSeed = s
  BY DEF TheSeed
<1> QED
  BY <1>1, DurableAssumption
     DEF DurableAssumption, NoneOversold, Port!CatalogueAssumption, Port!IsCatalogue, IsCatalogue,
         Port!IsTable, IsTable, Port!Product, Product, Port!Inventory, Inventory, Port!Review,
         Review, Port!ReviewId, ReviewId
=============================================================================
