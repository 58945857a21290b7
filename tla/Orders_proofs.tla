----------------------------- MODULE Orders_proofs -----------------------------
(***************************************************************************)
(* Theorems about orders, for every set of orders, groups, sizes, sweepers *)
(* and connections and every bound.  The draft flow (DraftFlow): types,    *)
(* exactness of the reservation counter, no overselling, and the           *)
(* step-by-step implementation of StockLedger.  What runs on its rows: the *)
(* order socket with its broadcasts (OrderSocket) implements DraftFlow and *)
(* leaves nobody with a wrong last word but where it is known to,          *)
(* and the back office (Fulfilment) ships an order once and keeps the      *)
(* counters exact while it confirms, packs, cancels and dispatches.        *)
(***************************************************************************)
EXTENDS OrderSocket, Fulfilment, FiniteSetTheorems, TLAPS

\* The quantities of all lines, and the pieces of one size under them.
Quantities == [Groups -> [Variants -> 0..MaxQty]]
Pieces(q, v) == {u \in Units : u[2] <= q[u[1]][v]}
PiecesOf(q, v, D) == {u \in Pieces(q, v) : u[1] \in D}

-----------------------------------------------------------------------------
\* Counting pieces

\* There are finitely many pieces, so their number is a natural number.
LEMMA PiecesFinite ==
  ASSUME NEW q, NEW v, NEW D
  PROVE  /\ IsFiniteSet(Pieces(q, v))
         /\ IsFiniteSet(PiecesOf(q, v, D))
         /\ Cardinality(Pieces(q, v)) \in Nat
         /\ Cardinality(PiecesOf(q, v, D)) \in Nat
         /\ Cardinality(PiecesOf(q, v, D)) <= Cardinality(Pieces(q, v))
<1>1. IsFiniteSet(1..MaxQty)
  BY FS_Interval, BoundsAssumption
<1>2. IsFiniteSet(Units)
  BY <1>1, FS_Product, SetsAssumption DEF Units
<1>3. IsFiniteSet(Pieces(q, v))
  BY <1>2, FS_Subset DEF Pieces
<1>4. PiecesOf(q, v, D) \subseteq Pieces(q, v)
  BY DEF PiecesOf
<1>5. IsFiniteSet(PiecesOf(q, v, D)) /\ Cardinality(PiecesOf(q, v, D)) <= Cardinality(Pieces(q, v))
  BY <1>3, <1>4, FS_Subset
<1> QED
  BY <1>3, <1>5, FS_CardinalityType

\* The pieces of one line are as many as its quantity.
LEMMA LinePieces ==
  ASSUME NEW q \in Quantities, NEW v \in Variants, NEW g \in Groups
  PROVE  Cardinality(PiecesOf(q, v, {g})) = q[g][v]
<1> DEFINE n == q[g][v]
           f == [k \in 1..n |-> <<g, k>>]
<1>1. n \in 0..MaxQty
  BY DEF Quantities
<1>2. PiecesOf(q, v, {g}) = {<<g, k>> : k \in 1..n}
  BY <1>1, BoundsAssumption DEF PiecesOf, Pieces, Units
<1>3. f \in Bijection(1..n, PiecesOf(q, v, {g}))
  <2>1. f \in [1..n -> PiecesOf(q, v, {g})]
    BY <1>2
  <2>2. \A a, b \in 1..n : f[a] = f[b] => a = b
    OBVIOUS
  <2>3. \A t \in PiecesOf(q, v, {g}) : \E s \in 1..n : f[s] = t
    BY <1>2
  <2> QED
    BY <2>1, <2>2, <2>3 DEF Bijection, Injection, IsInjective, Surjection
<1>4. ExistsBijection(1..n, PiecesOf(q, v, {g}))
  BY <1>3 DEF ExistsBijection
<1> QED
  BY <1>1, <1>4, FS_CountingElements

\* When the lines of the groups in D vanish and the others stay, the pieces
\* that vanish are those of D.
LEMMA DropPieces ==
  ASSUME NEW q \in Quantities, NEW p \in Quantities, NEW v \in Variants,
         NEW D \in SUBSET Groups,
         \A h \in Groups : p[h][v] = IF h \in D THEN 0 ELSE q[h][v]
  PROVE  Cardinality(Pieces(p, v)) = Cardinality(Pieces(q, v)) - Cardinality(PiecesOf(q, v, D))
<1>1. \A h \in Groups : q[h][v] \in 0..MaxQty /\ p[h][v] \in 0..MaxQty
  BY DEF Quantities
<1>2. Pieces(p, v) = Pieces(q, v) \ PiecesOf(q, v, D)
  BY <1>1, BoundsAssumption DEF Pieces, PiecesOf, Units
<1>3. PiecesOf(q, v, D) \subseteq Pieces(q, v)
  BY DEF PiecesOf
<1>4. Pieces(q, v) \cap PiecesOf(q, v, D) = PiecesOf(q, v, D)
  BY <1>3
<1>5. Cardinality(Pieces(q, v) \ PiecesOf(q, v, D))
        = Cardinality(Pieces(q, v)) - Cardinality(Pieces(q, v) \cap PiecesOf(q, v, D))
  BY PiecesFinite, FS_Difference
<1> QED
  BY <1>2, <1>4, <1>5

\* When one line changes, the number of pieces changes by the difference.
LEMMA ChangePieces ==
  ASSUME NEW q \in Quantities, NEW p \in Quantities, NEW v \in Variants,
         NEW g \in Groups,
         \A h \in Groups : h # g => p[h][v] = q[h][v]
  PROVE  Cardinality(Pieces(p, v)) = Cardinality(Pieces(q, v)) - q[g][v] + p[g][v]
<1> DEFINE r == [h \in Groups |-> [w \in Variants |-> IF h = g THEN 0 ELSE q[h][w]]]
<1>1. r \in Quantities
  BY BoundsAssumption DEF Quantities
<1>2. Cardinality(Pieces(r, v)) = Cardinality(Pieces(q, v)) - q[g][v]
  <2>1. \A h \in Groups : r[h][v] = IF h \in {g} THEN 0 ELSE q[h][v]
    OBVIOUS
  <2> HIDE DEF r
  <2>2. {g} \in SUBSET Groups
    OBVIOUS
  <2>3. Cardinality(Pieces(r, v)) = Cardinality(Pieces(q, v)) - Cardinality(PiecesOf(q, v, {g}))
    BY <2>1, <2>2, <1>1, DropPieces
  <2> QED
    BY <2>3, LinePieces
<1>3. Cardinality(Pieces(r, v)) = Cardinality(Pieces(p, v)) - p[g][v]
  <2>1. \A h \in Groups : r[h][v] = IF h \in {g} THEN 0 ELSE p[h][v]
    OBVIOUS
  <2> HIDE DEF r
  <2>2. {g} \in SUBSET Groups
    OBVIOUS
  <2>3. Cardinality(Pieces(r, v)) = Cardinality(Pieces(p, v)) - Cardinality(PiecesOf(p, v, {g}))
    BY <2>1, <2>2, <1>1, DropPieces
  <2> QED
    BY <2>3, LinePieces
<1>4. q[g][v] \in Nat /\ p[g][v] \in Nat
  BY BoundsAssumption DEF Quantities
<1>5. Cardinality(Pieces(q, v)) \in Nat /\ Cardinality(Pieces(p, v)) \in Nat
  BY PiecesFinite
<1> QED
  BY <1>2, <1>3, <1>4, <1>5

\* The operators of DraftFlow in these terms.
LEMMA ItemPieces ==
  ASSUME NEW v
  PROVE  /\ ItemUnits(v) = Pieces(qty, v)
         /\ ItemUnits(v)' = Pieces(qty', v)
BY DEF ItemUnits, Pieces

-----------------------------------------------------------------------------
\* Types

\* A release yields a natural number whatever is subtracted.
LEMMA ReleasedType ==
  ASSUME NEW r \in Nat, NEW n \in Nat
  PROVE  Released(r, n) \in Nat /\ Released(r, n) <= r /\ (n <= r => Released(r, n) = r - n)
BY DEF Released

\* The lines of an order and of an offline payload are counted by naturals.
LEMMA OrderUnitsType ==
  ASSUME NEW o, NEW v
  PROVE  Cardinality(OrderUnits(o, v)) \in Nat
<1>1. OrderUnits(o, v) \subseteq Pieces(qty, v)
  BY ItemPieces DEF OrderUnits
<1> QED
  BY <1>1, PiecesFinite, FS_Subset, FS_CardinalityType

LEMMA SyncUnitsType ==
  ASSUME NEW gs \in SUBSET Groups, NEW lines \in [gs -> OfflineItems], NEW v
  PROVE  Cardinality(SyncUnits(lines, v)) \in Nat
<1>1. IsFiniteSet(1..MaxQty)
  BY FS_Interval, BoundsAssumption
<1>2. IsFiniteSet(gs)
  BY FS_Subset, SetsAssumption
<1>3. IsFiniteSet(gs \X (1..MaxQty))
  BY <1>1, <1>2, FS_Product
<1>4. SyncUnits(lines, v) \subseteq gs \X (1..MaxQty)
  BY DEF SyncUnits
<1> QED
  BY <1>3, <1>4, FS_Subset, FS_CardinalityType

\* TypeOK, for a larger set of statuses: other components know more of them.
TypeIn(S) ==
  /\ status \in [Orders -> S]
  /\ exp \in [Orders -> {"none", "future", "past"}]
  /\ owner \in [Groups -> Orders \cup {NoOrder}]
  /\ ref \in [Groups -> Refs \cup {NoRef}]
  /\ qty \in [Groups -> [Variants -> 0..MaxQty]]
  /\ stock \in [Variants -> 0..MaxStock]
  /\ reserved \in [Variants -> Nat]
  /\ batch \in [Sweepers -> SUBSET Orders]

LEMMA TypeInStatuses ==
  (TypeOK <=> TypeIn(Statuses)) /\ (TypeOK' <=> TypeIn(Statuses)')
BY DEF TypeOK, TypeIn

\* Deleting an order keeps the types.
LEMMA DeleteTypeOK ==
  ASSUME NEW S, Statuses \subseteq S, TypeIn(S), NEW o \in Orders, ReleaseAndDelete(o),
         batch' \in [Sweepers -> SUBSET Orders]
  PROVE  TypeIn(S)'
<1>1. reserved' \in [Variants -> Nat]
  <2>1. reserved' = [v \in Variants |-> Released(reserved[v], Cardinality(OrderUnits(o, v)))]
    BY DEF ReleaseAndDelete, ReleaseAll
  <2>2. \A v \in Variants : Released(reserved[v], Cardinality(OrderUnits(o, v))) \in Nat
    BY ReleasedType, OrderUnitsType DEF TypeIn
  <2> QED
    BY <2>1, <2>2
<1>2. /\ qty' \in [Groups -> [Variants -> 0..MaxQty]]
      /\ owner' \in [Groups -> Orders \cup {NoOrder}]
      /\ ref' \in [Groups -> Refs \cup {NoRef}]
  BY BoundsAssumption DEF ReleaseAndDelete, DropItems, TypeIn
<1>3. /\ status' \in [Orders -> S]
      /\ exp' \in [Orders -> {"none", "future", "past"}]
      /\ stock' \in [Variants -> 0..MaxStock]
  BY DEF ReleaseAndDelete, TypeIn, Statuses
<1> QED
  BY <1>1, <1>2, <1>3 DEF TypeIn

\* Every call a user makes keeps the types.
LEMMA MutateTypeOK ==
  ASSUME NEW S, Statuses \subseteq S, TypeIn(S), NEW o \in Orders, Mutate(o)
  PROVE  TypeIn(S)'
<1>1. CASE CreateDraft(o)
  BY <1>1 DEF CreateDraft, TypeIn, Statuses
<1>2. ASSUME NEW g \in Groups, NEW range \in Ranges, NEW q \in 1..MaxQty,
             NEW r \in Refs \cup {NoRef}, AddItem(o, g, range, q, r)
      PROVE  TypeIn(S)'
  <2>1. qty' \in [Groups -> [Variants -> 0..MaxQty]]
    BY <1>2, BoundsAssumption DEF AddItem, Book, TypeIn
  <2>2. reserved' \in [Variants -> Nat]
    BY <1>2, BoundsAssumption DEF AddItem, Book, TypeIn
  <2> QED
    BY <1>2, <2>1, <2>2 DEF AddItem, Book, TypeIn
<1>3. ASSUME NEW g \in Groups, NEW sizes \in SUBSET Variants, RemoveItem(o, g, sizes)
      PROVE  TypeIn(S)'
  <2>1. qty' \in [Groups -> [Variants -> 0..MaxQty]]
    BY <1>3, BoundsAssumption DEF RemoveItem, TypeIn
  <2>2. ASSUME NEW v \in Variants
        PROVE  Released(reserved[v], IF v \in sizes THEN qty[g][v] ELSE 0) \in Nat
    <3>1. reserved[v] \in Nat /\ (IF v \in sizes THEN qty[g][v] ELSE 0) \in Nat
      BY BoundsAssumption DEF TypeIn
    <3> QED
      BY <3>1, ReleasedType
  <2>3. reserved' \in [Variants -> Nat]
    BY <1>3, <2>2 DEF RemoveItem, ReleaseAll
  <2> QED
    BY <1>3, <2>1, <2>3 DEF RemoveItem, TypeIn, Statuses
<1>4. ASSUME NEW g \in Groups, NEW q \in 1..MaxQty, UpdateQuantity(o, g, q)
      PROVE  TypeIn(S)'
  <2>1. qty' \in [Groups -> [Variants -> 0..MaxQty]]
    BY <1>4, BoundsAssumption DEF UpdateQuantity, TypeIn
  <2>2. ASSUME NEW v \in Variants
        PROVE  reserved'[v] \in Nat
    <3>1. reserved[v] \in Nat /\ qty[g][v] \in Nat /\ q \in Nat
      BY BoundsAssumption DEF TypeIn
    <3>2. ASSUME ~(q >= qty[g][v])
          PROVE  Released(reserved[v], qty[g][v] - q) \in Nat
      <4>1. qty[g][v] - q \in Nat
        BY <3>1, <3>2
      <4> QED
        BY <3>1, <4>1, ReleasedType
    <3> QED
      BY <1>4, <3>1, <3>2 DEF UpdateQuantity
  <2>3. reserved' \in [Variants -> Nat]
    BY <1>4, <2>2 DEF UpdateQuantity
  <2> QED
    BY <1>4, <2>1, <2>3 DEF UpdateQuantity, TypeIn
<1>5. ASSUME NEW placed \in Placed, Submit(o, placed)
      PROVE  TypeIn(S)'
  BY <1>5 DEF Submit, TypeIn, Placed, Statuses
<1>6. CASE Discard(o)
  BY <1>6, DeleteTypeOK DEF Discard, TypeIn
<1>7. ASSUME NEW gs \in SUBSET Groups, NEW lines \in [gs -> OfflineItems],
             NEW placed \in Placed, SyncOffline(o, lines, placed)
      PROVE  TypeIn(S)'
  <2>1. qty' \in [Groups -> [Variants -> 0..MaxQty]]
    <3>1. \A g \in gs : lines[g].q \in 0..MaxQty
      BY BoundsAssumption DEF OfflineItems
    <3> QED
      BY <1>7, <3>1, BoundsAssumption DEF SyncOffline, TypeIn
  <2>2. reserved' \in [Variants -> Nat]
    <3>1. \A v \in Variants : Cardinality(SyncUnits(lines, v)) \in Nat
      BY SyncUnitsType
    <3> QED
      BY <1>7, <3>1 DEF SyncOffline, TypeIn
  <2> QED
    BY <1>7, <2>1, <2>2 DEF SyncOffline, TypeIn, Placed, Statuses
<1> QED
  BY <1>1, <1>2, <1>3, <1>4, <1>5, <1>6, <1>7 DEF Mutate

\* Every step keeps the types.
LEMMA NextTypeIn ==
  ASSUME NEW S, Statuses \subseteq S, TypeIn(S), [Next]_vars
  PROVE  TypeIn(S)'
<1>1. ASSUME NEW o \in Orders, Mutate(o)
      PROVE  TypeIn(S)'
  BY <1>1, MutateTypeOK
<1>2. ASSUME NEW o \in Orders, Expire(o)
      PROVE  TypeIn(S)'
  BY <1>2 DEF Expire, ExpiryPasses, ShortenEmptyDraft, TypeIn
<1>3. ASSUME NEW s \in Sweepers, Sweep(s)
      PROVE  TypeIn(S)'
  <2>1. CASE SweepCollect(s)
    BY <2>1 DEF SweepCollect, TypeIn
  <2>2. ASSUME NEW o \in Orders, SweepOne(s, o)
        PROVE  TypeIn(S)'
    <3>1. batch' \in [Sweepers -> SUBSET Orders]
      BY <2>2 DEF SweepOne, TypeIn
    <3> QED
      BY <2>2, <3>1, DeleteTypeOK DEF SweepOne, TypeIn
  <2>3. CASE SweepAbort(s)
    BY <2>3 DEF SweepAbort, TypeIn
  <2> QED
    BY <1>3, <2>1, <2>2, <2>3 DEF Sweep
<1>4. ASSUME NEW v \in Variants, NEW d \in (-MaxStock)..MaxStock, AdjustStock(v, d)
      PROVE  TypeIn(S)'
  <2>1. stock[v] + d \in 0..MaxStock
    BY <1>4, BoundsAssumption DEF AdjustStock, Available, TypeIn
  <2> QED
    BY <1>4, <2>1 DEF AdjustStock, TypeIn
<1>5. CASE UNCHANGED vars
  BY <1>5 DEF vars, TypeIn
<1> QED
  BY <1>1, <1>2, <1>3, <1>4, <1>5 DEF Next

\* The variables keep their types: every counter stays a natural number and
\* the shelf within its bound (DraftFlow's TypeOK, for every instance).
THEOREM TypeCorrect == Spec => []TypeOK
<1>1. Init => TypeOK
  BY BoundsAssumption DEF Init, TypeOK, Statuses
<1>2. TypeOK /\ [Next]_vars => TypeOK'
  BY NextTypeIn, TypeInStatuses
<1> QED
  BY <1>1, <1>2, PTL DEF Spec

-----------------------------------------------------------------------------
\* Orders and their items

\* Deleting an order keeps orders and items in agreement.
LEMMA DeleteAgree ==
  ASSUME NEW S, Statuses \subseteq S, TypeIn(S), OrdersAndItemsAgree,
         NEW o \in Orders, ReleaseAndDelete(o)
  PROVE  OrdersAndItemsAgree'
<1>1. \A g \in Groups : /\ owner[g] = o => owner'[g] = NoOrder /\ Lines(g)' = {}
                        /\ owner[g] # o => owner'[g] = owner[g] /\ Lines(g)' = Lines(g)
  BY DEF ReleaseAndDelete, DropItems, TypeIn, Lines
<1>2. /\ status'[o] = "absent" /\ exp'[o] = "none"
      /\ \A p \in Orders : p # o => status'[p] = status[p] /\ exp'[p] = exp[p]
  BY DEF ReleaseAndDelete, TypeIn
<1>3. \A p \in Orders : p # o => GroupsOf(p)' = GroupsOf(p)
  BY <1>1, SetsAssumption DEF GroupsOf
<1>4. \A g \in Groups : (owner'[g] = NoOrder) <=> (Lines(g)' = {})
  BY <1>1 DEF OrdersAndItemsAgree
<1>5. \A g \in Groups : owner'[g] # NoOrder => status'[owner'[g]] # "absent"
  BY <1>1, <1>2 DEF OrdersAndItemsAgree, TypeIn
<1>6. \A p \in Orders : (exp'[p] = "none") <=> (status'[p] # "draft")
  BY <1>2 DEF OrdersAndItemsAgree
<1>7. \A p \in Orders : status'[p] \in Placed => GroupsOf(p)' # {}
  BY <1>2, <1>3 DEF OrdersAndItemsAgree, Placed
<1> QED
  BY <1>4, <1>5, <1>6, <1>7 DEF OrdersAndItemsAgree

\* Every call a user makes keeps orders and items in agreement.
LEMMA MutateAgree ==
  ASSUME NEW S, Statuses \subseteq S, TypeIn(S), OrdersAndItemsAgree,
         NEW o \in Orders, Mutate(o)
  PROVE  OrdersAndItemsAgree'
<1>1. CASE CreateDraft(o)
  BY <1>1 DEF CreateDraft, OrdersAndItemsAgree, Placed, TypeIn, Lines, GroupsOf
<1>2. ASSUME NEW g \in Groups, NEW range \in Ranges, NEW q \in 1..MaxQty,
             NEW r \in Refs \cup {NoRef}, AddItem(o, g, range, q, r)
      PROVE  OrdersAndItemsAgree'
  <2>1. /\ owner'[g] = o /\ Lines(g)' = range /\ range # {}
        /\ \A h \in Groups : h # g => owner'[h] = owner[h] /\ Lines(h)' = Lines(h)
    BY <1>2, SetsAssumption, BoundsAssumption DEF AddItem, Book, TypeIn, Lines
  <2>2. \A p \in Orders : GroupsOf(p) \subseteq GroupsOf(p)'
    BY <1>2, <2>1, SetsAssumption DEF GroupsOf, AddItem, Book
  <2>3. /\ status' = status /\ status[o] = "draft" /\ exp'[o] = "future"
        /\ \A p \in Orders : p # o => exp'[p] = exp[p]
    BY <1>2 DEF AddItem, Book, OpenDraft, TypeIn
  <2> QED
    BY <2>1, <2>2, <2>3, SetsAssumption DEF OrdersAndItemsAgree
<1>3. ASSUME NEW g \in Groups, NEW sizes \in SUBSET Variants, RemoveItem(o, g, sizes)
      PROVE  OrdersAndItemsAgree'
  <2>1. /\ sizes \subseteq Lines(g) /\ Lines(g)' = Lines(g) \ sizes
        /\ owner'[g] = IF sizes = Lines(g) THEN NoOrder ELSE o
        /\ \A h \in Groups : h # g => owner'[h] = owner[h] /\ Lines(h)' = Lines(h)
    BY <1>3, BoundsAssumption DEF RemoveItem, TypeIn, Lines
  <2>2. \A p \in Orders : p # o => GroupsOf(p)' = GroupsOf(p)
    BY <1>3, <2>1, SetsAssumption DEF GroupsOf, RemoveItem
  <2>3. /\ status[o] = "draft" /\ owner[g] = o
        /\ \A p \in Orders : p # o => status'[p] = status[p] /\ exp'[p] = exp[p]
    BY <1>3 DEF RemoveItem, OpenDraft, TypeIn
  <2>4. \/ status'[o] = "draft" /\ exp'[o] = "future"
        \/ /\ status'[o] = "absent" /\ exp'[o] = "none"
           /\ sizes = Lines(g) /\ GroupsOf(o) = {g}
    BY <1>3 DEF RemoveItem, TypeIn
  <2>5. \A h \in Groups : (owner'[h] = NoOrder) <=> (Lines(h)' = {})
    BY <2>1, SetsAssumption DEF OrdersAndItemsAgree
  <2>6. \A h \in Groups : owner'[h] # NoOrder => status'[owner'[h]] # "absent"
    BY <2>1, <2>3, <2>4 DEF OrdersAndItemsAgree, GroupsOf, TypeIn
  <2>7. \A p \in Orders : (exp'[p] = "none") <=> (status'[p] # "draft")
    BY <2>3, <2>4 DEF OrdersAndItemsAgree
  <2>8. \A p \in Orders : status'[p] \in Placed => GroupsOf(p)' # {}
    BY <2>2, <2>3, <2>4 DEF OrdersAndItemsAgree, Placed
  <2> QED
    BY <2>5, <2>6, <2>7, <2>8 DEF OrdersAndItemsAgree
<1>4. ASSUME NEW g \in Groups, NEW q \in 1..MaxQty, UpdateQuantity(o, g, q)
      PROVE  OrdersAndItemsAgree'
  <2>1. \A h \in Groups : owner'[h] = owner[h] /\ Lines(h)' = Lines(h)
    BY <1>4, BoundsAssumption DEF UpdateQuantity, TypeIn, Lines
  <2>2. \A p \in Orders : GroupsOf(p)' = GroupsOf(p)
    BY <2>1 DEF GroupsOf
  <2>3. /\ status' = status /\ status[o] = "draft" /\ exp'[o] = "future"
        /\ \A p \in Orders : p # o => exp'[p] = exp[p]
    BY <1>4 DEF UpdateQuantity, OpenDraft, TypeIn
  <2> QED
    BY <2>1, <2>2, <2>3 DEF OrdersAndItemsAgree
<1>5. ASSUME NEW placed \in Placed, Submit(o, placed)
      PROVE  OrdersAndItemsAgree'
  <2>1. /\ \A h \in Groups : owner'[h] = owner[h] /\ Lines(h)' = Lines(h)
        /\ \A p \in Orders : GroupsOf(p)' = GroupsOf(p)
    BY <1>5 DEF Submit, Lines, GroupsOf
  <2>2. /\ status'[o] = placed /\ exp'[o] = "none" /\ GroupsOf(o) # {}
        /\ \A p \in Orders : p # o => status'[p] = status[p] /\ exp'[p] = exp[p]
    BY <1>5 DEF Submit, TypeIn
  <2>3. placed # "absent" /\ placed # "draft"
    BY DEF Placed
  <2>4. \A g \in Groups : owner'[g] # NoOrder => status'[owner'[g]] # "absent"
    BY <2>1, <2>2, <2>3 DEF OrdersAndItemsAgree, TypeIn
  <2>5. \A p \in Orders : (exp'[p] = "none") <=> (status'[p] # "draft")
    BY <2>2, <2>3 DEF OrdersAndItemsAgree
  <2>6. \A p \in Orders : status'[p] \in Placed => GroupsOf(p)' # {}
    BY <2>1, <2>2 DEF OrdersAndItemsAgree
  <2> QED
    BY <2>1, <2>4, <2>5, <2>6 DEF OrdersAndItemsAgree
<1>6. CASE Discard(o)
  BY <1>6, DeleteAgree DEF Discard
<1>7. ASSUME NEW gs \in SUBSET Groups, NEW lines \in [gs -> OfflineItems],
             NEW placed \in Placed, SyncOffline(o, lines, placed)
      PROVE  OrdersAndItemsAgree'
  <2>1. \A g \in gs : owner[g] = NoOrder /\ owner'[g] = o /\ Lines(g)' # {}
    <3>1. \A g \in gs : /\ lines[g].range \subseteq Variants /\ lines[g].range # {}
                        /\ lines[g].q \in 1..MaxQty
      BY SetsAssumption DEF OfflineItems
    <3>2. \A g \in gs : Lines(g)' = lines[g].range
      BY <1>7, <3>1, BoundsAssumption DEF SyncOffline, Lines
    <3> QED
      BY <1>7, <3>1, <3>2 DEF SyncOffline
  <2>2. \A g \in Groups \ gs : owner'[g] = owner[g] /\ Lines(g)' = Lines(g)
    BY <1>7 DEF SyncOffline, Lines
  <2>3. \A p \in Orders : GroupsOf(p) \subseteq GroupsOf(p)'
    BY <2>1, <2>2, SetsAssumption DEF GroupsOf
  <2>4. GroupsOf(o)' # {}
    BY <1>7, <2>1 DEF GroupsOf, SyncOffline
  <2>5. /\ status[o] = "absent" /\ status'[o] = placed /\ exp' = exp
        /\ \A p \in Orders : p # o => status'[p] = status[p]
    BY <1>7 DEF SyncOffline, TypeIn
  <2>6. \A g \in Groups : (owner'[g] = NoOrder) <=> (Lines(g)' = {})
    BY <2>1, <2>2, SetsAssumption DEF OrdersAndItemsAgree
  <2>7. \A g \in Groups : owner'[g] # NoOrder => status'[owner'[g]] # "absent"
    BY <2>1, <2>2, <2>5 DEF OrdersAndItemsAgree, TypeIn, Placed
  <2> QED
    BY <2>3, <2>4, <2>5, <2>6, <2>7 DEF OrdersAndItemsAgree, Placed
<1> QED
  BY <1>1, <1>2, <1>3, <1>4, <1>5, <1>6, <1>7 DEF Mutate

\* Every step keeps orders and items in agreement.
LEMMA NextAgree ==
  ASSUME NEW S, Statuses \subseteq S, TypeIn(S), OrdersAndItemsAgree, [Next]_vars
  PROVE  OrdersAndItemsAgree'
<1>1. ASSUME NEW o \in Orders, Mutate(o)
      PROVE  OrdersAndItemsAgree'
  BY <1>1, MutateAgree
<1>2. ASSUME NEW o \in Orders, Expire(o)
      PROVE  OrdersAndItemsAgree'
  BY <1>2 DEF Expire, ExpiryPasses, ShortenEmptyDraft, TypeIn, Lines, GroupsOf, OrdersAndItemsAgree
<1>3. ASSUME NEW s \in Sweepers, Sweep(s)
      PROVE  OrdersAndItemsAgree'
  <2>1. CASE SweepCollect(s)
    BY <2>1 DEF SweepCollect, Lines, GroupsOf, OrdersAndItemsAgree
  <2>2. ASSUME NEW o \in Orders, SweepOne(s, o)
        PROVE  OrdersAndItemsAgree'
    <3>1. CASE Expired(o)
      BY <2>2, <3>1, DeleteAgree DEF SweepOne
    <3>2. CASE ~Expired(o)
      BY <2>2, <3>2 DEF SweepOne, Lines, GroupsOf, OrdersAndItemsAgree
    <3> QED
      BY <3>1, <3>2
  <2>3. CASE SweepAbort(s)
    BY <2>3 DEF SweepAbort, Lines, GroupsOf, OrdersAndItemsAgree
  <2> QED
    BY <1>3, <2>1, <2>2, <2>3 DEF Sweep
<1>4. ASSUME NEW v \in Variants, NEW d \in (-MaxStock)..MaxStock, AdjustStock(v, d)
      PROVE  OrdersAndItemsAgree'
  BY <1>4 DEF AdjustStock, Lines, GroupsOf, OrdersAndItemsAgree
<1>5. CASE UNCHANGED vars
  BY <1>5 DEF vars, Lines, GroupsOf, OrdersAndItemsAgree
<1> QED
  BY <1>1, <1>2, <1>3, <1>4, <1>5 DEF Next

\* Items always belong to an existing order, only drafts expire, and a placed
\* order is never empty (DraftFlow's OrdersAndItemsAgree, for every instance).
THEOREM AgreeCorrect == Spec => []OrdersAndItemsAgree
<1>1. Init => OrdersAndItemsAgree
  BY BoundsAssumption DEF Init, OrdersAndItemsAgree, Lines, GroupsOf, Placed
<1>2. TypeOK /\ OrdersAndItemsAgree /\ [Next]_vars => OrdersAndItemsAgree'
  BY NextAgree, TypeInStatuses
<1> QED
  BY <1>1, <1>2, TypeCorrect, PTL DEF Spec

-----------------------------------------------------------------------------
\* The reservation counter

\* The quantities that orders in a status of H hold, and the counter when it is
\* exactly their sum.  DraftFlow counts the orders that exist; the back office
\* knows statuses whose pieces have left the counter.
HoldingQty(H) ==
  [g \in Groups |-> IF owner[g] \in Orders /\ status[owner[g]] \in H
                    THEN qty[g] ELSE [v \in Variants |-> 0]]

ReservedFor(H) == \A v \in Variants : reserved[v] = Cardinality(Pieces(HoldingQty(H), v))

LEMMA HoldingType ==
  ASSUME NEW S, NEW H, TypeIn(S)
  PROVE  HoldingQty(H) \in Quantities
BY BoundsAssumption DEF HoldingQty, Quantities, TypeIn

\* Among the orders that exist these are all the lines.
LEMMA ExistingHold ==
  ASSUME NEW S, TypeIn(S), OrdersAndItemsAgree
  PROVE  /\ HoldingQty(S \ {"absent"}) = qty
         /\ ReservedFor(S \ {"absent"}) <=> ReservationExact
<1>1. ASSUME NEW g \in Groups, ~(owner[g] \in Orders /\ status[owner[g]] \in S \ {"absent"})
      PROVE  qty[g] = [v \in Variants |-> 0]
  <2>1. Lines(g) = {}
    BY <1>1 DEF OrdersAndItemsAgree, TypeIn
  <2> QED
    BY <2>1, BoundsAssumption DEF Lines, TypeIn
<1>2. HoldingQty(S \ {"absent"}) = qty
  BY <1>1 DEF HoldingQty, TypeIn
<1> QED
  BY <1>2, ItemPieces DEF ReservedFor, ReservationExact

\* The counter matches the pieces before and after a step that changes one
\* group by the same amounts in both.
LEMMA GroupStepExact ==
  ASSUME NEW S, NEW H, TypeIn(S), TypeIn(S)', ReservedFor(H), NEW g \in Groups,
         \A h \in Groups : h # g => HoldingQty(H)'[h] = HoldingQty(H)[h],
         \A v \in Variants :
           reserved'[v] = reserved[v] - HoldingQty(H)[g][v] + HoldingQty(H)'[g][v]
  PROVE  ReservedFor(H)'
<1> SUFFICES ASSUME NEW v \in Variants
             PROVE  reserved'[v] = Cardinality(Pieces(HoldingQty(H)', v))
  BY DEF ReservedFor, Pieces
<1> DEFINE q == HoldingQty(H)
           p == HoldingQty(H)'
<1>1. q \in Quantities
  BY HoldingType
<1>2. p \in Quantities
  BY BoundsAssumption DEF HoldingQty, Quantities, TypeIn
<1>3. reserved[v] = Cardinality(Pieces(q, v))
  BY DEF ReservedFor
<1>4. reserved'[v] = reserved[v] - q[g][v] + p[g][v] /\ \A h \in Groups : h # g => p[h][v] = q[h][v]
  OBVIOUS
<1> HIDE DEF q, p
<1>5. Cardinality(Pieces(p, v)) = Cardinality(Pieces(q, v)) - q[g][v] + p[g][v]
  BY <1>1, <1>2, <1>4, ChangePieces
<1>6. reserved'[v] = Cardinality(Pieces(p, v))
  BY <1>3, <1>4, <1>5
<1> QED
  BY <1>6 DEF p

\* Nor does one that changes nothing that is held.
LEMMA SameHeldExact ==
  ASSUME NEW H, ReservedFor(H), HoldingQty(H)' = HoldingQty(H), reserved' = reserved
  PROVE  ReservedFor(H)'
BY DEF ReservedFor, Pieces

\* A line is covered by the counter, so releasing it is never clamped.
LEMMA LineCovered ==
  ASSUME NEW S, NEW H, TypeIn(S), ReservedFor(H), NEW g \in Groups, NEW v \in Variants
  PROVE  /\ reserved[v] \in Nat /\ HoldingQty(H)[g][v] \in Nat
         /\ HoldingQty(H)[g][v] <= reserved[v]
<1> DEFINE q == HoldingQty(H)
<1>1. q \in Quantities
  BY HoldingType
<1>2. reserved[v] = Cardinality(Pieces(q, v))
  BY DEF ReservedFor
<1> HIDE DEF q
<1>3. Cardinality(PiecesOf(q, v, {g})) = q[g][v]
  BY <1>1, LinePieces
<1>4. reserved[v] \in Nat /\ q[g][v] \in Nat /\ q[g][v] <= reserved[v]
  BY <1>2, <1>3, PiecesFinite
<1> QED
  BY <1>4 DEF q

\* The pieces of an order that holds them are covered, and when its lines no
\* longer count, releasing all of them is exact.
LEMMA ReleaseExact ==
  ASSUME NEW S, NEW H, TypeIn(S), TypeIn(S)', ReservedFor(H), NEW o \in Orders, status[o] \in H,
         reserved' = ReleaseAll([v \in Variants |-> Cardinality(OrderUnits(o, v))]),
         \A g \in Groups : HoldingQty(H)'[g] = IF owner[g] = o THEN [v \in Variants |-> 0]
                                               ELSE HoldingQty(H)[g]
  PROVE  /\ ReservedFor(H)'
         /\ \A v \in Variants : /\ Cardinality(OrderUnits(o, v)) \in Nat
                                /\ reserved[v] \in Nat
                                /\ reserved'[v] = reserved[v] - Cardinality(OrderUnits(o, v))
                                /\ Cardinality(OrderUnits(o, v)) <= reserved[v]
<1> SUFFICES ASSUME NEW v \in Variants
             PROVE  /\ reserved'[v] = Cardinality(Pieces(HoldingQty(H)', v))
                    /\ Cardinality(OrderUnits(o, v)) \in Nat
                    /\ reserved[v] \in Nat
                    /\ reserved'[v] = reserved[v] - Cardinality(OrderUnits(o, v))
                    /\ Cardinality(OrderUnits(o, v)) <= reserved[v]
  BY DEF ReservedFor, Pieces
<1> DEFINE D == GroupsOf(o)
           q == HoldingQty(H)
           p == HoldingQty(H)'
<1>1. q \in Quantities /\ D \in SUBSET Groups
  BY HoldingType DEF GroupsOf
<1>2. p \in Quantities
  BY BoundsAssumption DEF HoldingQty, Quantities, TypeIn
<1>3. \A h \in Groups : p[h][v] = IF h \in D THEN 0 ELSE q[h][v]
  BY DEF GroupsOf
<1>4. OrderUnits(o, v) = PiecesOf(q, v, D)
  <2>1. \A h \in D : q[h] = qty[h]
    BY DEF HoldingQty, GroupsOf
  <2> HIDE DEF q
  <2> QED
    BY <2>1 DEF OrderUnits, ItemUnits, PiecesOf, GroupsOf, Pieces, Units
<1>5. reserved'[v] = Released(reserved[v], Cardinality(OrderUnits(o, v)))
  BY DEF ReleaseAll
<1>6. reserved[v] = Cardinality(Pieces(q, v))
  BY DEF ReservedFor
<1> HIDE DEF D, q, p
<1>7. Cardinality(Pieces(p, v)) = Cardinality(Pieces(q, v)) - Cardinality(PiecesOf(q, v, D))
  BY <1>1, <1>2, <1>3, DropPieces
<1>8. reserved'[v] = reserved[v] - Cardinality(PiecesOf(q, v, D))
  BY <1>4, <1>5, <1>6, PiecesFinite, ReleasedType
<1>9. reserved'[v] = Cardinality(Pieces(p, v))
  BY <1>6, <1>7, <1>8
<1> QED
  BY <1>4, <1>6, <1>8, <1>9, PiecesFinite DEF p

\* Deleting a draft takes exactly its pieces out of the counter.
LEMMA DeleteExact ==
  ASSUME NEW S, NEW H, "absent" \notin H, "draft" \in H, TypeIn(S), TypeIn(S)', ReservedFor(H),
         NEW o \in Orders, status[o] = "draft", ReleaseAndDelete(o)
  PROVE  ReservedFor(H)'
<1>1. \A g \in Groups : HoldingQty(H)'[g] = IF owner[g] = o THEN [v \in Variants |-> 0]
                                            ELSE HoldingQty(H)[g]
  BY SetsAssumption DEF HoldingQty, ReleaseAndDelete, DropItems, TypeIn
<1> QED
  BY <1>1, ReleaseExact DEF ReleaseAndDelete

\* Every call a user makes changes the counter and the lines alike.
LEMMA MutateExact ==
  ASSUME NEW S, NEW H, "absent" \notin H, Statuses \ {"absent"} \subseteq H,
         TypeIn(S), TypeIn(S)', OrdersAndItemsAgree, ReservedFor(H), NEW o \in Orders, Mutate(o)
  PROVE  ReservedFor(H)'
<1>0. {"draft", "submitted", "confirmed"} \subseteq H
  BY DEF Statuses
<1>a. \A g \in Groups : owner[g] = NoOrder => HoldingQty(H)[g] = [v \in Variants |-> 0]
  BY SetsAssumption DEF HoldingQty
<1>1. CASE CreateDraft(o)
  <2>1. HoldingQty(H)' = HoldingQty(H)
    <3>1. \A g \in Groups : owner[g] # o
      BY <1>1, SetsAssumption DEF CreateDraft, OrdersAndItemsAgree
    <3>2. owner' = owner /\ qty' = qty /\ \A p \in Orders : p # o => status'[p] = status[p]
      BY <1>1 DEF CreateDraft, TypeIn
    <3> QED
      BY <3>1, <3>2 DEF HoldingQty
  <2> QED
    BY <1>1, <2>1, SameHeldExact DEF CreateDraft
<1>2. ASSUME NEW g \in Groups, NEW range \in Ranges, NEW q \in 1..MaxQty,
             NEW r \in Refs \cup {NoRef}, AddItem(o, g, range, q, r)
      PROVE  ReservedFor(H)'
  <2>1. \A h \in Groups : h # g => HoldingQty(H)'[h] = HoldingQty(H)[h]
    BY <1>2 DEF AddItem, Book, TypeIn, HoldingQty
  <2>2. HoldingQty(H)'[g] = [v \in Variants |-> IF v \in range THEN q ELSE 0]
    BY <1>0, <1>2 DEF AddItem, Book, OpenDraft, TypeIn, HoldingQty
  <2>3. HoldingQty(H)[g] = [v \in Variants |-> 0]
    BY <1>a, <1>2 DEF AddItem
  <2>4. ASSUME NEW v \in Variants
        PROVE  reserved'[v] = reserved[v] - HoldingQty(H)[g][v] + HoldingQty(H)'[g][v]
    <3>1. reserved[v] \in Nat /\ reserved'[v] = IF v \in range THEN reserved[v] + q ELSE reserved[v]
      BY <1>2 DEF AddItem, Book, TypeIn
    <3> QED
      BY <2>2, <2>3, <3>1, BoundsAssumption
  <2> QED
    BY <2>1, <2>4, GroupStepExact
<1>3. ASSUME NEW g \in Groups, NEW sizes \in SUBSET Variants, RemoveItem(o, g, sizes)
      PROVE  ReservedFor(H)'
  <2>0. status[o] = "draft" /\ owner[g] = o
    BY <1>3 DEF RemoveItem, OpenDraft
  <2>1. \A h \in Groups : h # g => HoldingQty(H)'[h] = HoldingQty(H)[h]
    <3>1. ASSUME NEW h \in Groups, h # g
          PROVE  /\ owner'[h] = owner[h] /\ qty'[h] = qty[h]
                 /\ owner[h] \in Orders => status'[owner[h]] = status[owner[h]]
      <4>1. status' = [status EXCEPT ![o] =
                         IF sizes = Lines(g) /\ GroupsOf(o) = {g} THEN "absent" ELSE "draft"]
        BY <1>3 DEF RemoveItem
      <4>2. owner[h] = o => GroupsOf(o) # {g}
        BY <3>1 DEF GroupsOf
      <4>3. owner'[h] = owner[h] /\ qty'[h] = qty[h]
        BY <1>3, <3>1 DEF RemoveItem, TypeIn
      <4> QED
        BY <2>0, <4>1, <4>2, <4>3 DEF TypeIn
    <3> QED
      BY <3>1 DEF HoldingQty
  <2>2. HoldingQty(H)[g] = qty[g]
    BY <1>0, <2>0 DEF HoldingQty
  <2>3. HoldingQty(H)'[g] = [v \in Variants |-> IF v \in sizes THEN 0 ELSE qty[g][v]]
    <3>1. qty'[g] = [v \in Variants |-> IF v \in sizes THEN 0 ELSE qty[g][v]]
      BY <1>3 DEF RemoveItem, TypeIn
    <3>2. CASE sizes = Lines(g)
      <4>1. owner'[g] \notin Orders
        BY <1>3, <3>2, SetsAssumption DEF RemoveItem, TypeIn
      <4>2. HoldingQty(H)'[g] = [v \in Variants |-> 0]
        BY <4>1 DEF HoldingQty
      <4>3. \A v \in Variants : v \notin sizes => qty[g][v] = 0
        BY <3>2, BoundsAssumption DEF Lines, TypeIn
      <4> QED
        BY <4>2, <4>3
    <3>3. CASE sizes # Lines(g)
      <4>1. owner'[g] = o /\ status'[o] = "draft"
        BY <1>3, <3>3 DEF RemoveItem, TypeIn
      <4> QED
        BY <1>0, <3>1, <4>1 DEF HoldingQty
    <3> QED
      BY <3>2, <3>3
  <2>4. ASSUME NEW v \in Variants
        PROVE  reserved'[v] = reserved[v] - HoldingQty(H)[g][v] + HoldingQty(H)'[g][v]
    <3>1. reserved'[v] = Released(reserved[v], IF v \in sizes THEN qty[g][v] ELSE 0)
      BY <1>3 DEF RemoveItem, ReleaseAll
    <3>2. reserved[v] \in Nat /\ qty[g][v] \in Nat /\ qty[g][v] <= reserved[v]
      BY <2>2, LineCovered
    <3> QED
      BY <2>2, <2>3, <3>1, <3>2 DEF Released
  <2> QED
    BY <2>1, <2>4, GroupStepExact
<1>4. ASSUME NEW g \in Groups, NEW q \in 1..MaxQty, UpdateQuantity(o, g, q)
      PROVE  ReservedFor(H)'
  <2>1. \A h \in Groups : h # g => HoldingQty(H)'[h] = HoldingQty(H)[h]
    BY <1>4 DEF UpdateQuantity, TypeIn, HoldingQty
  <2>2. HoldingQty(H)[g] = qty[g]
    BY <1>0, <1>4 DEF UpdateQuantity, OpenDraft, HoldingQty
  <2>3. HoldingQty(H)'[g] = [v \in Variants |-> IF v \in Lines(g) THEN q ELSE 0]
    BY <1>0, <1>4 DEF UpdateQuantity, OpenDraft, TypeIn, HoldingQty
  <2>4. ASSUME NEW v \in Variants
        PROVE  reserved'[v] = reserved[v] - HoldingQty(H)[g][v] + HoldingQty(H)'[g][v]
    <3>1. reserved'[v] = IF v \notin Lines(g) THEN reserved[v]
                         ELSE IF q >= qty[g][v] THEN reserved[v] + (q - qty[g][v])
                         ELSE Released(reserved[v], qty[g][v] - q)
      BY <1>4 DEF UpdateQuantity
    <3>2. reserved[v] \in Nat /\ qty[g][v] \in Nat /\ qty[g][v] <= reserved[v]
      BY <2>2, LineCovered
    <3>3. v \notin Lines(g) => qty[g][v] = 0
      BY <3>2 DEF Lines
    <3>4. q \in Nat
      BY BoundsAssumption
    <3> QED
      BY <2>2, <2>3, <3>1, <3>2, <3>3, <3>4 DEF Released
  <2> QED
    BY <2>1, <2>4, GroupStepExact
<1>5. ASSUME NEW placed \in Placed, Submit(o, placed)
      PROVE  ReservedFor(H)'
  <2>1. HoldingQty(H)' = HoldingQty(H)
    BY <1>0, <1>5 DEF Submit, OpenDraft, Placed, HoldingQty, TypeIn
  <2> QED
    BY <1>5, <2>1, SameHeldExact DEF Submit
<1>6. CASE Discard(o)
  BY <1>0, <1>6, DeleteExact DEF Discard, OpenDraft
<1>7. ASSUME NEW gs \in SUBSET Groups, NEW lines \in [gs -> OfflineItems],
             NEW placed \in Placed, SyncOffline(o, lines, placed)
      PROVE  ReservedFor(H)'
  <2> SUFFICES ASSUME NEW v \in Variants
               PROVE  reserved'[v] = Cardinality(Pieces(HoldingQty(H)', v))
    BY DEF ReservedFor, Pieces
  <2> DEFINE q == HoldingQty(H)
             p == HoldingQty(H)'
  <2>1. q \in Quantities
    BY HoldingType
  <2>2. p \in Quantities
    BY BoundsAssumption DEF HoldingQty, Quantities, TypeIn
  <2>3. \A g \in gs : /\ owner[g] = NoOrder
                      /\ p[g] = [w \in Variants |-> IF w \in lines[g].range THEN lines[g].q ELSE 0]
    BY <1>0, <1>7 DEF SyncOffline, HoldingQty, TypeIn, Placed
  <2>4. \A g \in Groups \ gs : p[g] = q[g]
    <3>1. \A g \in Groups : owner[g] # o
      BY <1>7, SetsAssumption DEF SyncOffline, OrdersAndItemsAgree
    <3> QED
      BY <1>7, <3>1 DEF SyncOffline, HoldingQty, TypeIn
  <2>5. \A h \in Groups : q[h][v] = IF h \in gs THEN 0 ELSE p[h][v]
    <3>1. ASSUME NEW h \in gs
          PROVE  q[h][v] = 0
      BY <1>a, <2>3
    <3> QED
      BY <2>4, <3>1
  <2>6. reserved[v] = Cardinality(Pieces(q, v))
    BY DEF ReservedFor
  <2> HIDE DEF q, p
  <2>7. Cardinality(Pieces(q, v)) = Cardinality(Pieces(p, v)) - Cardinality(PiecesOf(p, v, gs))
    BY <2>1, <2>2, <2>5, DropPieces
  <2>8. SyncUnits(lines, v) = PiecesOf(p, v, gs)
    <3>1. \A g \in gs : p[g][v] = IF v \in lines[g].range THEN lines[g].q ELSE 0
      BY <2>3
    <3> QED
      BY <3>1 DEF SyncUnits, PiecesOf, Pieces, Units
  <2>9. reserved'[v] = reserved[v] + Cardinality(SyncUnits(lines, v))
    BY <1>7 DEF SyncOffline
  <2>10. reserved'[v] = Cardinality(Pieces(p, v))
    BY <2>6, <2>7, <2>8, <2>9, PiecesFinite
  <2> QED
    BY <2>10 DEF p
<1> QED
  BY <1>1, <1>2, <1>3, <1>4, <1>5, <1>6, <1>7 DEF Mutate

\* Every step changes the counter and the lines alike.
LEMMA NextExact ==
  ASSUME NEW S, NEW H, "absent" \notin H, Statuses \ {"absent"} \subseteq H,
         TypeIn(S), TypeIn(S)', OrdersAndItemsAgree, ReservedFor(H), [Next]_vars
  PROVE  ReservedFor(H)'
<1>1. ASSUME NEW o \in Orders, Mutate(o)
      PROVE  ReservedFor(H)'
  BY <1>1, MutateExact
<1>2. CASE UNCHANGED <<status, owner, qty, reserved>>
  BY <1>2, SameHeldExact DEF HoldingQty
<1>3. ASSUME NEW o \in Orders, Expire(o)
      PROVE  ReservedFor(H)'
  BY <1>2, <1>3 DEF Expire, ExpiryPasses, ShortenEmptyDraft
<1>4. ASSUME NEW s \in Sweepers, Sweep(s)
      PROVE  ReservedFor(H)'
  <2>1. ASSUME NEW o \in Orders, SweepOne(s, o), Expired(o)
        PROVE  ReservedFor(H)'
    BY <2>1, DeleteExact DEF SweepOne, Expired, Statuses
  <2>2. ASSUME NEW o \in Orders, SweepOne(s, o), ~Expired(o)
        PROVE  ReservedFor(H)'
    BY <1>2, <2>2 DEF SweepOne
  <2>3. CASE SweepCollect(s) \/ SweepAbort(s)
    BY <1>2, <2>3 DEF SweepCollect, SweepAbort
  <2> QED
    BY <1>4, <2>1, <2>2, <2>3 DEF Sweep
<1>5. ASSUME NEW v \in Variants, NEW d \in (-MaxStock)..MaxStock, AdjustStock(v, d)
      PROVE  ReservedFor(H)'
  BY <1>2, <1>5 DEF AdjustStock
<1>6. CASE UNCHANGED vars
  BY <1>2, <1>6 DEF vars
<1> QED
  BY <1>1, <1>3, <1>4, <1>5, <1>6 DEF Next

\* reserved_qty is at all times the sum of the lines of the orders that exist
\* (DraftFlow's ReservationExact, for every instance).
THEOREM ReservationCorrect == Spec => []ReservationExact
<1>1. Init => ReservationExact
  <2> SUFFICES ASSUME Init, NEW v \in Variants
               PROVE  reserved[v] = Cardinality(ItemUnits(v))
    BY DEF ReservationExact
  <2>1. ItemUnits(v) = {}
    BY BoundsAssumption DEF Init, ItemUnits, Units
  <2> QED
    BY <2>1, FS_EmptySet DEF Init
<1>2. ASSUME TypeOK, TypeOK', OrdersAndItemsAgree, OrdersAndItemsAgree', ReservationExact,
             [Next]_vars
      PROVE  ReservationExact'
  <2> DEFINE H == Statuses \ {"absent"}
  <2>1. ReservedFor(H)
    BY <1>2, TypeInStatuses, ExistingHold
  <2>2. ReservedFor(H)'
    BY <1>2, <2>1, TypeInStatuses, NextExact
  <2>3. HoldingQty(H)' = qty'
    <3>1. ASSUME NEW g \in Groups, ~(owner'[g] \in Orders /\ status'[owner'[g]] \in H)
          PROVE  qty'[g] = [v \in Variants |-> 0]
      <4>1. Lines(g)' = {}
        BY <1>2, <3>1 DEF OrdersAndItemsAgree, TypeOK
      <4> QED
        BY <1>2, <4>1, BoundsAssumption DEF Lines, TypeOK
    <3> QED
      BY <1>2, <3>1 DEF HoldingQty, TypeOK
  <2> QED
    BY <2>2, <2>3, ItemPieces DEF ReservedFor, ReservationExact, Pieces
<1> QED
  BY <1>1, <1>2, TypeCorrect, AgreeCorrect, PTL DEF Spec

-----------------------------------------------------------------------------
\* The shelf

\* No call a user makes promises beyond the shelf.
LEMMA MutateNoOversell ==
  ASSUME NEW S, Statuses \subseteq S, TypeIn(S), NoOversell, NEW o \in Orders, Mutate(o)
  PROVE  NoOversell'
<1> SUFFICES ASSUME NEW v \in Variants
             PROVE  reserved'[v] <= stock'[v]
  BY DEF NoOversell
<1>0. /\ reserved[v] \in Nat /\ stock[v] \in Nat /\ reserved[v] <= stock[v]
      /\ \A n \in Nat : Available(v) >= n => reserved[v] + n <= stock[v]
  BY BoundsAssumption DEF TypeIn, NoOversell, Available
<1>1. CASE CreateDraft(o)
  BY <1>0, <1>1 DEF CreateDraft
<1>2. ASSUME NEW g \in Groups, NEW range \in Ranges, NEW q \in 1..MaxQty,
             NEW r \in Refs \cup {NoRef}, AddItem(o, g, range, q, r)
      PROVE  reserved'[v] <= stock'[v]
  BY <1>0, <1>2, BoundsAssumption DEF AddItem, Book
<1>3. ASSUME NEW g \in Groups, NEW sizes \in SUBSET Variants, RemoveItem(o, g, sizes)
      PROVE  reserved'[v] <= stock'[v]
  <2>1. (IF v \in sizes THEN qty[g][v] ELSE 0) \in Nat
    BY BoundsAssumption DEF TypeIn
  <2> QED
    BY <1>0, <1>3, <2>1 DEF RemoveItem, ReleaseAll, Released
<1>4. ASSUME NEW g \in Groups, NEW q \in 1..MaxQty, UpdateQuantity(o, g, q)
      PROVE  reserved'[v] <= stock'[v]
  <2>1. q \in Nat /\ qty[g][v] \in Nat
    BY BoundsAssumption DEF TypeIn
  <2>2. stock' = stock /\ (v \notin Lines(g) => reserved'[v] = reserved[v])
    BY <1>4 DEF UpdateQuantity
  <2>3. CASE v \in Lines(g) /\ q > qty[g][v]
    <3>1. q - qty[g][v] \in Nat
      BY <2>1, <2>3
    <3>2. Available(v) >= q - qty[g][v]
      BY <1>4, <2>3 DEF UpdateQuantity
    <3>3. reserved'[v] = reserved[v] + (q - qty[g][v])
      BY <1>4, <2>1, <2>3 DEF UpdateQuantity
    <3> QED
      BY <1>0, <2>2, <3>1, <3>2, <3>3
  <2>4. CASE v \in Lines(g) /\ ~(q > qty[g][v])
    BY <1>0, <1>4, <2>1, <2>2, <2>4 DEF UpdateQuantity, Released
  <2> QED
    BY <1>0, <2>2, <2>3, <2>4
<1>5. ASSUME NEW placed \in Placed, Submit(o, placed)
      PROVE  reserved'[v] <= stock'[v]
  BY <1>0, <1>5 DEF Submit
<1>6. CASE Discard(o)
  BY <1>0, <1>6, OrderUnitsType DEF Discard, ReleaseAndDelete, ReleaseAll, Released
<1>7. ASSUME NEW gs \in SUBSET Groups, NEW lines \in [gs -> OfflineItems],
             NEW placed \in Placed, SyncOffline(o, lines, placed)
      PROVE  reserved'[v] <= stock'[v]
  <2>1. Cardinality(SyncUnits(lines, v)) \in Nat
    BY SyncUnitsType
  <2>2. SyncUnits(lines, v) = {} => Cardinality(SyncUnits(lines, v)) = 0
    BY FS_EmptySet
  <2> QED
    BY <1>0, <1>7, <2>1, <2>2 DEF SyncOffline
<1> QED
  BY <1>1, <1>2, <1>3, <1>4, <1>5, <1>6, <1>7 DEF Mutate

\* No step promises beyond the shelf.
LEMMA NextNoOversell ==
  ASSUME NEW S, Statuses \subseteq S, TypeIn(S), NoOversell, [Next]_vars
  PROVE  NoOversell'
<1>1. ASSUME NEW o \in Orders, Mutate(o)
      PROVE  NoOversell'
  BY <1>1, MutateNoOversell
<1>2. ASSUME NEW o \in Orders, Expire(o)
      PROVE  NoOversell'
  BY <1>2 DEF Expire, ExpiryPasses, ShortenEmptyDraft, NoOversell
<1>3. ASSUME NEW s \in Sweepers, Sweep(s)
      PROVE  NoOversell'
  <2>1. ASSUME NEW o \in Orders, SweepOne(s, o), Expired(o)
        PROVE  NoOversell'
    <3> SUFFICES ASSUME NEW v \in Variants
                 PROVE  reserved'[v] <= stock'[v]
      BY DEF NoOversell
    <3>1. reserved[v] \in Nat /\ stock[v] \in Nat /\ reserved[v] <= stock[v]
      BY BoundsAssumption DEF TypeIn, NoOversell
    <3> QED
      BY <2>1, <3>1, OrderUnitsType DEF SweepOne, ReleaseAndDelete, ReleaseAll, Released
  <2>2. ASSUME NEW o \in Orders, SweepOne(s, o), ~Expired(o)
        PROVE  NoOversell'
    BY <2>2 DEF SweepOne, NoOversell
  <2>3. CASE SweepCollect(s) \/ SweepAbort(s)
    BY <2>3 DEF SweepCollect, SweepAbort, NoOversell
  <2> QED
    BY <1>3, <2>1, <2>2, <2>3 DEF Sweep
<1>4. ASSUME NEW v \in Variants, NEW d \in (-MaxStock)..MaxStock, AdjustStock(v, d)
      PROVE  NoOversell'
  <2>1. \A w \in Variants : reserved[w] \in Nat /\ stock[w] \in Nat /\ reserved[w] <= stock[w]
    BY BoundsAssumption DEF TypeIn, NoOversell
  <2>2. d \in Int
    BY BoundsAssumption
  <2>3. reserved[v] <= stock[v] + d
    BY <1>4, <2>1, <2>2 DEF AdjustStock, Available
  <2>4. /\ reserved' = reserved /\ stock'[v] = stock[v] + d
        /\ \A w \in Variants : w # v => stock'[w] = stock[w]
    BY <1>4 DEF AdjustStock, TypeIn
  <2> QED
    BY <2>1, <2>3, <2>4 DEF NoOversell
<1>5. CASE UNCHANGED vars
  BY <1>5 DEF vars, NoOversell
<1> QED
  BY <1>1, <1>2, <1>3, <1>4, <1>5 DEF Next

\* No size is ever promised beyond what is on the shelf (DraftFlow's
\* NoOversell, for every instance).
THEOREM OversellExcluded == Spec => []NoOversell
<1>1. Init => NoOversell
  BY BoundsAssumption DEF Init, NoOversell
<1>2. TypeOK /\ NoOversell /\ [Next]_vars => NoOversell'
  BY NextNoOversell, TypeInStatuses
<1> QED
  BY <1>1, <1>2, TypeCorrect, PTL DEF Spec

-----------------------------------------------------------------------------
\* Groups

\* The lines of one scan keep one quantity (DraftFlow's GroupUniform, for
\* every instance): each step gives all lines of a group the same new
\* quantity, drops some of them, or leaves the group alone.
THEOREM UniformCorrect == Spec => []GroupUniform
<1>1. Init => GroupUniform
  BY BoundsAssumption DEF Init, GroupUniform, Lines
<1>2. ASSUME TypeOK, GroupUniform, [Next]_vars
      PROVE  GroupUniform'
  <2> SUFFICES ASSUME NEW g \in Groups, NEW v \in Variants, NEW w \in Variants,
                      qty'[g][v] > 0, qty'[g][w] > 0
               PROVE  qty'[g][v] = qty'[g][w]
    BY DEF GroupUniform, Lines
  <2>0. qty[g][v] > 0 /\ qty[g][w] > 0 => qty[g][v] = qty[g][w]
    BY <1>2 DEF GroupUniform, Lines
  <2>1. CASE qty'[g] = qty[g]
    BY <2>0, <2>1
  <2>2. ASSUME NEW o \in Orders, Mutate(o), qty'[g] # qty[g]
        PROVE  qty'[g][v] = qty'[g][w]
    <3>1. ASSUME NEW h \in Groups, NEW range \in Ranges, NEW q \in 1..MaxQty,
                 NEW r \in Refs \cup {NoRef}, AddItem(o, h, range, q, r)
          PROVE  qty'[g][v] = qty'[g][w]
      BY <1>2, <2>2, <3>1 DEF AddItem, Book, TypeOK
    <3>2. ASSUME NEW h \in Groups, NEW sizes \in SUBSET Variants, RemoveItem(o, h, sizes)
          PROVE  qty'[g][v] = qty'[g][w]
      BY <1>2, <2>0, <2>2, <3>2 DEF RemoveItem, TypeOK
    <3>3. ASSUME NEW h \in Groups, NEW q \in 1..MaxQty, UpdateQuantity(o, h, q)
          PROVE  qty'[g][v] = qty'[g][w]
      BY <1>2, <2>2, <3>3 DEF UpdateQuantity, TypeOK
    <3>4. CASE Discard(o)
      BY <2>2, <3>4 DEF Discard, ReleaseAndDelete, DropItems
    <3>5. ASSUME NEW gs \in SUBSET Groups, NEW lines \in [gs -> OfflineItems],
                 NEW placed \in Placed, SyncOffline(o, lines, placed)
          PROVE  qty'[g][v] = qty'[g][w]
      BY <2>2, <3>5 DEF SyncOffline
    <3>6. CASE CreateDraft(o) \/ \E placed \in Placed : Submit(o, placed)
      BY <2>2, <3>6 DEF CreateDraft, Submit
    <3> QED
      BY <2>2, <3>1, <3>2, <3>3, <3>4, <3>5, <3>6 DEF Mutate
  <2>3. ASSUME NEW s \in Sweepers, Sweep(s), qty'[g] # qty[g]
        PROVE  qty'[g][v] = qty'[g][w]
    <3>1. ASSUME NEW o \in Orders, SweepOne(s, o)
          PROVE  qty'[g][v] = qty'[g][w]
      BY <2>3, <3>1 DEF SweepOne, ReleaseAndDelete, DropItems
    <3>2. CASE SweepCollect(s) \/ SweepAbort(s)
      BY <2>3, <3>2 DEF SweepCollect, SweepAbort
    <3> QED
      BY <2>3, <3>1, <3>2 DEF Sweep
  <2>4. ASSUME NEW o \in Orders, Expire(o)
        PROVE  qty' = qty
    BY <2>4 DEF Expire, ExpiryPasses, ShortenEmptyDraft
  <2>5. ASSUME NEW u \in Variants, NEW d \in (-MaxStock)..MaxStock, AdjustStock(u, d)
        PROVE  qty' = qty
    BY <2>5 DEF AdjustStock
  <2>6. CASE UNCHANGED vars
    BY <2>1, <2>6 DEF vars
  <2> QED
    BY <1>2, <2>1, <2>2, <2>3, <2>4, <2>5, <2>6 DEF Next
<1> QED
  BY <1>1, <1>2, TypeCorrect, PTL DEF Spec

-----------------------------------------------------------------------------
\* Implementing the stock ledger

PromisedUnits == [v \in Variants |-> ItemUnits(v)]

\* The instance counts the way this module does.
LEMMA SameCardinality ==
  ASSUME NEW S
  PROVE  Ledger!Cardinality(S) = Cardinality(S)
BY DEF Ledger!Cardinality, Cardinality, Ledger!IsFiniteSet, IsFiniteSet

\* A step that only adds pieces and leaves them covered is a promise.
LEMMA AddingReserves ==
  ASSUME ReservationExact', NoOversell', stock' = stock,
         \A v \in Variants : ItemUnits(v) \subseteq ItemUnits(v)'
  PROVE  Ledger!Reserve
<1>1. \A v \in Variants : Cardinality(ItemUnits(v)') <= stock[v]
  BY DEF ReservationExact, NoOversell
<1>2. PromisedUnits' \in [Variants -> SUBSET Units]
  BY DEF PromisedUnits, ItemUnits
<1> QED
  BY <1>1, <1>2, SameCardinality DEF Ledger!Reserve, PromisedUnits

\* A step that only removes pieces is a withdrawal.
LEMMA RemovingReleases ==
  ASSUME stock' = stock,
         \A v \in Variants : ItemUnits(v)' \subseteq ItemUnits(v)
  PROVE  Ledger!Release
<1>1. PromisedUnits' \in [Variants -> SUBSET Units]
  BY DEF PromisedUnits, ItemUnits
<1> QED
  BY <1>1 DEF Ledger!Release, PromisedUnits

\* Deleting an order withdraws its promises.
LEMMA DeleteReleases ==
  ASSUME TypeOK, NEW o \in Orders, ReleaseAndDelete(o)
  PROVE  Ledger!Release
<1>1. \A g \in Groups, v \in Variants : qty'[g][v] <= qty[g][v]
  BY BoundsAssumption DEF ReleaseAndDelete, DropItems, TypeOK
<1>2. \A g \in Groups, v \in Variants : qty'[g][v] \in Int /\ qty[g][v] \in Int
  BY BoundsAssumption DEF ReleaseAndDelete, DropItems, TypeOK
<1>3. \A v \in Variants : ItemUnits(v)' \subseteq ItemUnits(v)
  BY <1>1, <1>2, BoundsAssumption DEF ItemUnits, Units
<1>4. stock' = stock
  BY DEF ReleaseAndDelete
<1> QED
  BY <1>3, <1>4, RemovingReleases

\* Every call a user makes is a step of the ledger.
LEMMA MutateRefines ==
  ASSUME TypeOK, TypeOK', OrdersAndItemsAgree, GroupUniform, ReservationExact', NoOversell',
         NEW o \in Orders, Mutate(o)
  PROVE  Ledger!LedgerNext
<1> DEFINE Grows == \A g \in Groups, v \in Variants : qty[g][v] <= qty'[g][v]
           Shrinks == \A g \in Groups, v \in Variants : qty'[g][v] <= qty[g][v]
<1>1. \A g \in Groups, v \in Variants : qty[g][v] \in 0..MaxQty /\ qty'[g][v] \in 0..MaxQty
  BY DEF TypeOK
<1>2. stock' = stock
  BY DEF Mutate, CreateDraft, AddItem, Book, RemoveItem, UpdateQuantity, Submit, Discard,
         ReleaseAndDelete, SyncOffline
<1>3. Grows => Ledger!Reserve
  <2>1. Grows => \A v \in Variants : ItemUnits(v) \subseteq ItemUnits(v)'
    BY <1>1, BoundsAssumption DEF ItemUnits, Units
  <2> QED
    BY <1>2, <2>1, AddingReserves
<1>4. Shrinks => Ledger!Release
  <2>1. Shrinks => \A v \in Variants : ItemUnits(v)' \subseteq ItemUnits(v)
    BY <1>1, BoundsAssumption DEF ItemUnits, Units
  <2> QED
    BY <1>2, <2>1, RemovingReleases
<1>5. CASE CreateDraft(o) \/ \E placed \in Placed : Submit(o, placed)
  <2>1. Grows
    BY <1>1, <1>5, BoundsAssumption DEF CreateDraft, Submit
  <2> QED
    BY <1>3, <2>1 DEF Ledger!LedgerNext
<1>6. ASSUME NEW g \in Groups, NEW range \in Ranges, NEW q \in 1..MaxQty,
             NEW r \in Refs \cup {NoRef}, AddItem(o, g, range, q, r)
      PROVE  Ledger!LedgerNext
  <2>1. \A v \in Variants : qty[g][v] = 0
    BY <1>1, <1>6, BoundsAssumption DEF AddItem, Book, OrdersAndItemsAgree, Lines
  <2>2. Grows
    BY <1>1, <1>6, <2>1, BoundsAssumption DEF AddItem, Book, TypeOK
  <2> QED
    BY <1>3, <2>2 DEF Ledger!LedgerNext
<1>7. ASSUME NEW g \in Groups, NEW sizes \in SUBSET Variants, RemoveItem(o, g, sizes)
      PROVE  Ledger!LedgerNext
  <2>1. Shrinks
    BY <1>1, <1>7, BoundsAssumption DEF RemoveItem, TypeOK
  <2> QED
    BY <1>4, <2>1 DEF Ledger!LedgerNext
<1>8. ASSUME NEW g \in Groups, NEW q \in 1..MaxQty, UpdateQuantity(o, g, q)
      PROVE  Ledger!LedgerNext
  <2>1. \A h \in Groups : h # g => qty'[h] = qty[h]
    BY <1>8 DEF UpdateQuantity, TypeOK
  <2>2. \A v \in Variants : qty'[g][v] = IF qty[g][v] > 0 THEN q ELSE 0
    BY <1>8 DEF UpdateQuantity, TypeOK, Lines
  <2>3. \A v, w \in Variants : qty[g][v] > 0 /\ qty[g][w] > 0 => qty[g][v] = qty[g][w]
    BY DEF GroupUniform, Lines
  <2>4. \/ \A v \in Variants : qty[g][v] <= qty'[g][v]
        \/ \A v \in Variants : qty'[g][v] <= qty[g][v]
    BY <1>1, <2>2, <2>3, BoundsAssumption
  <2>5. Grows \/ Shrinks
    BY <1>1, <2>1, <2>4, BoundsAssumption
  <2> QED
    BY <1>3, <1>4, <2>5 DEF Ledger!LedgerNext
<1>9. CASE Discard(o)
  BY <1>9, DeleteReleases DEF Discard, Ledger!LedgerNext
<1>10. ASSUME NEW gs \in SUBSET Groups, NEW lines \in [gs -> OfflineItems],
              NEW placed \in Placed, SyncOffline(o, lines, placed)
       PROVE  Ledger!LedgerNext
  <2>1. \A g \in gs, v \in Variants : qty[g][v] = 0
    BY <1>1, <1>10, BoundsAssumption DEF SyncOffline, OrdersAndItemsAgree, Lines
  <2>2. \A g \in Groups \ gs : qty'[g] = qty[g]
    BY <1>10 DEF SyncOffline
  <2>3. Grows
    BY <1>1, <2>1, <2>2, BoundsAssumption
  <2> QED
    BY <1>3, <2>3 DEF Ledger!LedgerNext
<1> QED
  BY <1>5, <1>6, <1>7, <1>8, <1>9, <1>10 DEF Mutate

\* A recount is a recount.
LEMMA AdjustRefines ==
  ASSUME TypeOK, TypeOK', ReservationExact, NEW v \in Variants,
         NEW d \in (-MaxStock)..MaxStock, AdjustStock(v, d)
  PROVE  Ledger!LedgerNext
<1>1. \A w \in Variants : ItemUnits(w)' = ItemUnits(w)
  BY DEF AdjustStock, ItemUnits
<1>2. stock[v] + d \in 0..MaxStock /\ stock' = [stock EXCEPT ![v] = stock[v] + d]
  BY DEF AdjustStock, TypeOK
<1>3. stock[v] \in Nat /\ reserved[v] \in Nat /\ d \in Int
  BY BoundsAssumption DEF TypeOK
<1>4. reserved[v] = Cardinality(PromisedUnits[v])
  BY DEF ReservationExact, PromisedUnits
<1>5. d > 0 \/ reserved[v] <= stock[v] + d
  BY <1>3 DEF AdjustStock, Available
<1>6. stock[v] + d > stock[v] \/ Cardinality(PromisedUnits[v]) <= stock[v] + d
  BY <1>3, <1>4, <1>5
<1>7. UNCHANGED PromisedUnits
  BY <1>1 DEF PromisedUnits
<1>8. Ledger!Adjust
  BY <1>2, <1>6, <1>7, SameCardinality DEF Ledger!Adjust, PromisedUnits
<1> QED
  BY <1>8 DEF Ledger!LedgerNext

\* The order flow implements the stock ledger (DraftFlow's LedgerSpec): every
\* step is a promise the shelf covers, a withdrawal, a recount that leaves the
\* promises covered, or no step of the ledger.
THEOREM ImplementsLedger == Spec => LedgerSpec
<1>1. Init => Ledger!LedgerInit
  <2> SUFFICES ASSUME Init
               PROVE  Ledger!LedgerInit
    OBVIOUS
  <2>1. \A v \in Variants : ItemUnits(v) = {}
    BY BoundsAssumption DEF Init, ItemUnits, Units
  <2> QED
    BY <2>1 DEF Init, Ledger!LedgerInit
<1>2. ASSUME TypeOK, TypeOK', OrdersAndItemsAgree, GroupUniform, ReservationExact,
             ReservationExact', NoOversell', [Next]_vars
      PROVE  [Ledger!LedgerNext]_(Ledger!ledgerVars)
  <2>1. ASSUME NEW o \in Orders, Mutate(o)
        PROVE  Ledger!LedgerNext
    BY <1>2, <2>1, MutateRefines
  <2>2. ASSUME qty' = qty, stock' = stock
        PROVE  UNCHANGED Ledger!ledgerVars
    BY <2>2 DEF Ledger!ledgerVars, ItemUnits
  <2>3. ASSUME NEW o \in Orders, Expire(o)
        PROVE  qty' = qty /\ stock' = stock
    BY <2>3 DEF Expire, ExpiryPasses, ShortenEmptyDraft
  <2>4. ASSUME NEW s \in Sweepers, Sweep(s)
        PROVE  Ledger!LedgerNext \/ (qty' = qty /\ stock' = stock)
    <3>1. ASSUME NEW o \in Orders, SweepOne(s, o), Expired(o)
          PROVE  Ledger!LedgerNext
      BY <1>2, <3>1, DeleteReleases DEF SweepOne, Ledger!LedgerNext
    <3>2. ASSUME NEW o \in Orders, SweepOne(s, o), ~Expired(o)
          PROVE  qty' = qty /\ stock' = stock
      BY <3>2 DEF SweepOne
    <3>3. CASE SweepCollect(s) \/ SweepAbort(s)
      BY <3>3 DEF SweepCollect, SweepAbort
    <3> QED
      BY <2>4, <3>1, <3>2, <3>3 DEF Sweep
  <2>5. ASSUME NEW v \in Variants, NEW d \in (-MaxStock)..MaxStock, AdjustStock(v, d)
        PROVE  Ledger!LedgerNext
    BY <1>2, <2>5, AdjustRefines
  <2>6. CASE UNCHANGED vars
    BY <2>2, <2>6 DEF vars
  <2> QED
    BY <1>2, <2>1, <2>2, <2>3, <2>4, <2>5, <2>6 DEF Next
<1> QED
  BY <1>1, <1>2, TypeCorrect, AgreeCorrect, UniformCorrect, ReservationCorrect,
     OversellExcluded, PTL DEF Spec, LedgerSpec, Ledger!LedgerSpec

-----------------------------------------------------------------------------
\* Client references

\* A retried add never books twice (DraftFlow's ClientRefOnce, for every
\* instance): an add compares its reference with those of all groups the order
\* has, and whatever takes the items of a group away takes its reference too.
THEOREM RefsCorrect == Spec => []ClientRefOnce
<1>1. Init => ClientRefOnce
  BY DEF Init, ClientRefOnce
<1>2. ASSUME TypeOK, OrdersAndItemsAgree, ClientRefOnce, [Next]_vars
      PROVE  ClientRefOnce'
  <2> SUFFICES ASSUME NEW g \in Groups, NEW h \in Groups,
                      owner'[g] = owner'[h], ref'[g] = ref'[h], ref'[g] # NoRef
               PROVE  g = h
    BY DEF ClientRefOnce
  <2>0. owner[g] = owner[h] /\ ref[g] = ref[h] /\ ref[g] # NoRef => g = h
    BY <1>2 DEF ClientRefOnce
  <2>1. ASSUME NEW o \in Orders, ReleaseAndDelete(o)
        PROVE  g = h
    BY <2>0, <2>1 DEF ReleaseAndDelete, DropItems
  <2>2. ASSUME NEW o \in Orders, Mutate(o)
        PROVE  g = h
    <3>1. ASSUME NEW k \in Groups, NEW range \in Ranges, NEW q \in 1..MaxQty,
                 NEW r \in Refs \cup {NoRef}, AddItem(o, k, range, q, r)
          PROVE  g = h
      <4>1. /\ owner' = [owner EXCEPT ![k] = o] /\ ref' = [ref EXCEPT ![k] = r]
            /\ r = NoRef \/ \A i \in Groups : owner[i] = o => ref[i] # r
        BY <3>1 DEF AddItem, Book, GroupsOf
      <4> QED
        BY <1>2, <2>0, <4>1 DEF TypeOK
    <3>2. ASSUME NEW k \in Groups, NEW sizes \in SUBSET Variants, RemoveItem(o, k, sizes)
          PROVE  g = h
      <4>1. /\ owner[k] = o
            /\ \E emptied \in BOOLEAN :
                 /\ owner' = [owner EXCEPT ![k] = IF emptied THEN NoOrder ELSE o]
                 /\ ref' = [ref EXCEPT ![k] = IF emptied THEN NoRef ELSE ref[k]]
        BY <3>2 DEF RemoveItem
      <4> QED
        BY <1>2, <2>0, <4>1 DEF TypeOK
    <3>3. ASSUME NEW k \in Groups, NEW q \in 1..MaxQty, UpdateQuantity(o, k, q)
          PROVE  g = h
      BY <2>0, <3>3 DEF UpdateQuantity
    <3>4. CASE Discard(o)
      BY <2>1, <3>4 DEF Discard
    <3>5. ASSUME NEW gs \in SUBSET Groups, NEW lines \in [gs -> OfflineItems],
                 NEW placed \in Placed, SyncOffline(o, lines, placed)
          PROVE  g = h
      <4>1. \A i \in Groups : owner[i] # o
        BY <1>2, <3>5, SetsAssumption DEF SyncOffline, OrdersAndItemsAgree
      <4>2. /\ ref' = ref
            /\ \A i \in Groups : owner'[i] = IF i \in gs THEN o ELSE owner[i]
            /\ \A i \in gs : owner[i] = NoOrder
        BY <3>5 DEF SyncOffline
      <4> QED
        BY <2>0, <4>1, <4>2
    <3>6. CASE CreateDraft(o) \/ \E placed \in Placed : Submit(o, placed)
      BY <2>0, <3>6 DEF CreateDraft, Submit
    <3> QED
      BY <2>2, <3>1, <3>2, <3>3, <3>4, <3>5, <3>6 DEF Mutate
  <2>3. ASSUME NEW s \in Sweepers, Sweep(s)
        PROVE  g = h
    BY <2>0, <2>1, <2>3 DEF Sweep, SweepCollect, SweepOne, SweepAbort
  <2>4. ASSUME NEW o \in Orders, Expire(o)
        PROVE  g = h
    BY <2>0, <2>4 DEF Expire, ExpiryPasses, ShortenEmptyDraft
  <2>5. ASSUME NEW v \in Variants, NEW d \in (-MaxStock)..MaxStock, AdjustStock(v, d)
        PROVE  g = h
    BY <2>0, <2>5 DEF AdjustStock
  <2>6. CASE UNCHANGED vars
    BY <2>0, <2>6 DEF vars
  <2> QED
    BY <1>2, <2>2, <2>3, <2>4, <2>5, <2>6 DEF Next
<1> QED
  BY <1>1, <1>2, TypeCorrect, AgreeCorrect, PTL DEF Spec

-----------------------------------------------------------------------------
\* What a step may never do

\* A step leaves order o and the lines of its groups as they are.
Untouched(o) ==
  /\ status'[o] = status[o]
  /\ \A g \in Groups : /\ (owner'[g] = o) <=> (owner[g] = o)
                       /\ owner[g] = o => qty'[g] = qty[g]

\* Deleting another order leaves an order as it is.
LEMMA DeleteLeavesOthers ==
  ASSUME NEW S, TypeIn(S), NEW o \in Orders, NEW p \in Orders, p # o, ReleaseAndDelete(p)
  PROVE  Untouched(o)
BY SetsAssumption DEF ReleaseAndDelete, DropItems, Untouched, TypeIn

\* A user's call about another order leaves an order as it is.
LEMMA MutateLeavesOthers ==
  ASSUME NEW S, TypeIn(S), NEW o \in Orders, NEW p \in Orders, p # o, Mutate(p)
  PROVE  Untouched(o)
<1>1. CASE CreateDraft(p) \/ \E placed \in Placed : Submit(p, placed)
  BY <1>1 DEF CreateDraft, Submit, Untouched, TypeIn
<1>2. ASSUME NEW g \in Groups, NEW range \in Ranges, NEW q \in 1..MaxQty,
             NEW r \in Refs \cup {NoRef}, AddItem(p, g, range, q, r)
      PROVE  Untouched(o)
  BY <1>2, SetsAssumption DEF AddItem, Book, Untouched, TypeIn
<1>3. ASSUME NEW g \in Groups, NEW sizes \in SUBSET Variants, RemoveItem(p, g, sizes)
      PROVE  Untouched(o)
  BY <1>3, SetsAssumption DEF RemoveItem, Untouched, TypeIn
<1>4. ASSUME NEW g \in Groups, NEW q \in 1..MaxQty, UpdateQuantity(p, g, q)
      PROVE  Untouched(o)
  BY <1>4 DEF UpdateQuantity, Untouched, TypeIn
<1>5. CASE Discard(p)
  BY <1>5, DeleteLeavesOthers DEF Discard
<1>6. ASSUME NEW gs \in SUBSET Groups, NEW lines \in [gs -> OfflineItems],
             NEW placed \in Placed, SyncOffline(p, lines, placed)
      PROVE  Untouched(o)
  BY <1>6, SetsAssumption DEF SyncOffline, Untouched, TypeIn
<1> QED
  BY <1>1, <1>2, <1>3, <1>4, <1>5, <1>6 DEF Mutate

\* What runs beside the users' calls leaves an order as it is, unless a sweep
\* finds it expired.
LEMMA OthersLeaveAlone ==
  ASSUME NEW S, TypeIn(S), NEW o \in Orders,
         \/ \E p \in Orders : Expire(p)
         \/ \E s \in Sweepers : Sweep(s)
         \/ \E v \in Variants, d \in (-MaxStock)..MaxStock : AdjustStock(v, d)
         \/ UNCHANGED vars
  PROVE  Untouched(o) \/ (Expired(o) /\ ReleaseAndDelete(o))
<1>1. CASE \E p \in Orders : Expire(p)
  BY <1>1 DEF Expire, ExpiryPasses, ShortenEmptyDraft, Untouched
<1>2. ASSUME NEW s \in Sweepers, Sweep(s)
      PROVE  Untouched(o) \/ (Expired(o) /\ ReleaseAndDelete(o))
  <2>1. CASE SweepCollect(s) \/ SweepAbort(s)
    BY <2>1 DEF SweepCollect, SweepAbort, Untouched
  <2>2. ASSUME NEW p \in Orders, SweepOne(s, p), Expired(p)
        PROVE  Untouched(o) \/ (Expired(o) /\ ReleaseAndDelete(o))
    BY <2>2, DeleteLeavesOthers DEF SweepOne
  <2>3. ASSUME NEW p \in Orders, SweepOne(s, p), ~Expired(p)
        PROVE  Untouched(o)
    BY <2>3 DEF SweepOne, Untouched
  <2> QED
    BY <1>2, <2>1, <2>2, <2>3 DEF Sweep
<1>3. CASE \E v \in Variants, d \in (-MaxStock)..MaxStock : AdjustStock(v, d)
  BY <1>3 DEF AdjustStock, Untouched
<1>4. CASE UNCHANGED vars
  BY <1>4 DEF vars, Untouched
<1> QED
  BY <1>1, <1>2, <1>3, <1>4

\* Nothing in the flow touches an order that is no draft any more.
LEMMA SettledUntouched ==
  ASSUME NEW S, TypeIn(S), [Next]_vars, NEW o \in Orders, status[o] \notin {"draft", "absent"}
  PROVE  Untouched(o)
<1>1. ~Mutate(o)
  BY DEF Mutate, CreateDraft, AddItem, RemoveItem, UpdateQuantity, Submit, Discard,
         SyncOffline, OpenDraft
<1>2. ~Expired(o)
  BY DEF Expired
<1> QED
  BY <1>1, <1>2, MutateLeavesOthers, OthersLeaveAlone DEF Next

\* The flow writes none but its own statuses.
LEMMA FlowStatuses ==
  ASSUME NEW S, TypeIn(S), [Next]_vars, NEW o \in Orders
  PROVE  status'[o] = status[o] \/ status'[o] \in Statuses
<1>1. ASSUME NEW p \in Orders, Mutate(p)
      PROVE  status'[o] = status[o] \/ status'[o] \in Statuses
  <2>1. ASSUME NEW g \in Groups, NEW sizes \in SUBSET Variants, RemoveItem(p, g, sizes)
        PROVE  status'[o] = status[o] \/ status'[o] \in Statuses
    BY <2>1 DEF RemoveItem, TypeIn, Statuses
  <2>2. CASE \E gs \in SUBSET Groups : \E lines \in [gs -> OfflineItems], placed \in Placed :
               SyncOffline(p, lines, placed)
    BY <2>2 DEF SyncOffline, TypeIn, Statuses, Placed
  <2>3. CASE \E placed \in Placed : Submit(p, placed)
    BY <2>3 DEF Submit, TypeIn, Statuses, Placed
  <2> QED
    BY <1>1, <2>1, <2>2, <2>3 DEF Mutate, CreateDraft, AddItem, Book, UpdateQuantity, Discard,
       ReleaseAndDelete, TypeIn, Statuses
<1>2. ASSUME NEW s \in Sweepers, Sweep(s)
      PROVE  status'[o] = status[o] \/ status'[o] \in Statuses
  BY <1>2 DEF Sweep, SweepCollect, SweepOne, SweepAbort, ReleaseAndDelete, TypeIn, Statuses
<1> QED
  BY <1>1, <1>2 DEF Next, Expire, ExpiryPasses, ShortenEmptyDraft, AdjustStock, vars

\* Once placed, an order keeps its status and its lines (DraftFlow's
\* PlacedKeepsItems, for every instance): calls about it are refused, and a
\* sweep that still holds its id finds it is no draft.
THEOREM PlacedKept == Spec => PlacedKeepsItems
<1>1. ASSUME TypeOK, [Next]_vars, NEW o \in Orders, status[o] \in Placed
      PROVE  Untouched(o)
  BY <1>1, TypeInStatuses, SettledUntouched DEF Placed
<1>2. TypeOK /\ [Next]_vars =>
        [\A o \in Orders : status[o] \in Placed =>
           /\ status'[o] = status[o]
           /\ \A g \in GroupsOf(o) : owner'[g] = o /\ qty'[g] = qty[g]]_vars
  BY <1>1 DEF Untouched, GroupsOf
<1> QED
  BY <1>2, TypeCorrect, PTL DEF Spec, PlacedKeepsItems

\* An expired draft is frozen until it is swept, and then all of it goes
\* (DraftFlow's ExpiredIsFrozen, for every instance).
THEOREM ExpiredFrozen == Spec => ExpiredIsFrozen
<1> DEFINE Swept(o)  == status'[o] = "absent" /\ GroupsOf(o)' = {}
           Frozen(o) == /\ status'[o] = "draft"
                        /\ GroupsOf(o)' = GroupsOf(o)
                        /\ \A g \in GroupsOf(o) : qty'[g] = qty[g]
<1>1. ASSUME TypeOK, [Next]_vars, NEW o \in Orders, Expired(o)
      PROVE  Swept(o) \/ Frozen(o)
  <2>1. ~Mutate(o)
    BY <1>1 DEF Mutate, CreateDraft, AddItem, RemoveItem, UpdateQuantity, Submit, Discard,
                SyncOffline, OpenDraft, Expired
  <2>2. Untouched(o) \/ ReleaseAndDelete(o)
    BY <1>1, <2>1, TypeInStatuses, MutateLeavesOthers, OthersLeaveAlone DEF Next
  <2>3. CASE Untouched(o)
    BY <1>1, <2>3 DEF Untouched, GroupsOf, Expired
  <2>4. CASE ReleaseAndDelete(o)
    BY <1>1, <2>4, SetsAssumption DEF ReleaseAndDelete, DropItems, GroupsOf, TypeOK
  <2> QED
    BY <2>2, <2>3, <2>4
<1>2. TypeOK /\ [Next]_vars =>
        [\A o \in Orders : Expired(o) =>
           \/ status'[o] = "absent" /\ GroupsOf(o)' = {}
           \/ /\ status'[o] = "draft"
              /\ GroupsOf(o)' = GroupsOf(o)
              /\ \A g \in GroupsOf(o) : qty'[g] = qty[g]]_vars
  BY <1>1
<1> QED
  BY <1>2, TypeCorrect, PTL DEF Spec, ExpiredIsFrozen

\* A sweep deletes only what has expired when it looks (DraftFlow's
\* SweepSparesRefreshed, for every instance): whoever else deletes a draft
\* leaves the lists of the sweeps alone.
THEOREM SweepsSpare == Spec => SweepSparesRefreshed
<1>1. ASSUME TypeOK, [Next]_vars, NEW o \in Orders,
             status[o] = "draft", exp[o] = "future", status'[o] = "absent"
      PROVE  batch' = batch
  <2>1. ASSUME NEW p \in Orders, Mutate(p)
        PROVE  batch' = batch
    BY <2>1 DEF Mutate, CreateDraft, AddItem, Book, RemoveItem, UpdateQuantity, Submit,
                Discard, SyncOffline
  <2>2. ~Expired(o) /\ ~Untouched(o)
    BY <1>1 DEF Expired, Untouched
  <2> QED
    BY <1>1, <2>1, <2>2, TypeInStatuses, OthersLeaveAlone DEF Next
<1>2. TypeOK /\ [Next]_vars =>
        [\A o \in Orders :
           status[o] = "draft" /\ exp[o] = "future" /\ status'[o] = "absent"
             => batch' = batch]_vars
  BY <1>1
<1> QED
  BY <1>2, TypeCorrect, PTL DEF Spec, SweepSparesRefreshed

-----------------------------------------------------------------------------
\* The stock ledger itself, whatever tokens are promised in it

CONSTANT Tokens
VARIABLE promised

AnyLedger == INSTANCE StockLedger WITH Units <- Tokens, held <- promised

\* The instance counts the way this module does.
LEMMA SameCount ==
  ASSUME NEW S
  PROVE  AnyLedger!Cardinality(S) = Cardinality(S)
BY DEF AnyLedger!Cardinality, Cardinality, AnyLedger!IsFiniteSet, IsFiniteSet

\* The tokens promised in a size are finite in number, and no more than the
\* tokens promised before when some of them are taken back.
LEMMA PromisedFinite ==
  ASSUME IsFiniteSet(Tokens), AnyLedger!LedgerTypeOK, NEW v \in Variants
  PROVE  IsFiniteSet(promised[v]) /\ Cardinality(promised[v]) \in Nat
<1>1. promised[v] \subseteq Tokens
  BY DEF AnyLedger!LedgerTypeOK
<1>2. IsFiniteSet(promised[v])
  BY <1>1, FS_Subset
<1> QED
  BY <1>2, FS_CardinalityType

\* Every promised piece is on the shelf, in every state of the ledger: promises
\* in a size are only added while the shelf covers all of them, and the shelf
\* shrinks to no less than what is promised.
THEOREM PromisesCovered ==
  ASSUME IsFiniteSet(Tokens), MaxStock \in Nat
  PROVE  AnyLedger!LedgerSpec => []AnyLedger!EveryPromiseCovered
<1> DEFINE Inv == AnyLedger!LedgerTypeOK /\ AnyLedger!EveryPromiseCovered
<1>1. AnyLedger!LedgerInit => Inv
  BY FS_EmptySet, SameCount DEF AnyLedger!LedgerInit, AnyLedger!LedgerTypeOK, AnyLedger!EveryPromiseCovered
<1>2. Inv /\ [AnyLedger!LedgerNext]_AnyLedger!ledgerVars => Inv'
  <2> SUFFICES ASSUME Inv, [AnyLedger!LedgerNext]_AnyLedger!ledgerVars
               PROVE  Inv'
    OBVIOUS
  <2>1. CASE AnyLedger!Reserve
    BY <2>1, SameCount DEF AnyLedger!Reserve, AnyLedger!LedgerTypeOK, AnyLedger!EveryPromiseCovered
  <2>2. CASE AnyLedger!Release
    <3>1. AnyLedger!LedgerTypeOK'
      BY <2>2 DEF AnyLedger!Release, AnyLedger!LedgerTypeOK
    <3>2. ASSUME NEW v \in Variants
          PROVE  Cardinality(promised'[v]) <= stock'[v]
      <4>1. IsFiniteSet(promised[v]) /\ Cardinality(promised[v]) \in Nat
        BY PromisedFinite
      <4>2. promised'[v] \subseteq promised[v]
        BY <2>2 DEF AnyLedger!Release
      <4>3. Cardinality(promised'[v]) \in Nat /\ Cardinality(promised'[v]) <= Cardinality(promised[v])
        BY <4>1, <4>2, FS_Subset, FS_CardinalityType
      <4> QED
        BY <2>2, <4>1, <4>3, SameCount DEF AnyLedger!Release, AnyLedger!LedgerTypeOK, AnyLedger!EveryPromiseCovered
    <3> QED
      BY <3>1, <3>2, SameCount DEF AnyLedger!EveryPromiseCovered
  <2>3. CASE AnyLedger!Adjust
    <3>1. PICK v \in Variants, n \in 0..MaxStock :
            /\ n > stock[v] \/ Cardinality(promised[v]) <= n
            /\ stock' = [stock EXCEPT ![v] = n]
      BY <2>3, SameCount DEF AnyLedger!Adjust
    <3>2. promised' = promised
      BY <2>3 DEF AnyLedger!Adjust
    <3>3. AnyLedger!LedgerTypeOK'
      BY <3>1, <3>2 DEF AnyLedger!LedgerTypeOK
    <3>4. ASSUME NEW w \in Variants
          PROVE  Cardinality(promised'[w]) <= stock'[w]
      <4>1. Cardinality(promised[w]) \in Nat /\ Cardinality(promised[w]) <= stock[w]
        BY PromisedFinite, SameCount DEF AnyLedger!EveryPromiseCovered
      <4>2. stock[w] \in Nat
        BY DEF AnyLedger!LedgerTypeOK
      <4> QED
        BY <3>1, <3>2, <4>1, <4>2 DEF AnyLedger!LedgerTypeOK
    <3> QED
      BY <3>3, <3>4, SameCount DEF AnyLedger!EveryPromiseCovered
  <2>4. CASE UNCHANGED AnyLedger!ledgerVars
    BY <2>4 DEF AnyLedger!ledgerVars, AnyLedger!LedgerTypeOK, AnyLedger!EveryPromiseCovered
  <2> QED
    BY <2>1, <2>2, <2>3, <2>4 DEF AnyLedger!LedgerNext
<1> QED
  BY <1>1, <1>2, PTL DEF AnyLedger!LedgerSpec

-----------------------------------------------------------------------------
\* The order socket runs the draft flow

\* A call of the flow, whoever makes it, is a step of the draft flow.
LEMMA FlowIsMutation ==
  ASSUME NEW o \in Orders, NEW op \in FlowOps, Flow(o, op)
  PROVE  Next
<1>1. CASE op = "create"
  <2>1. CreateDraft(o)
    BY <1>1 DEF Flow
  <2> QED BY <2>1 DEF Next, Mutate
<1>2. CASE op = "edit"
  <2>1. Edit(o)
    BY <1>2 DEF Flow
  <2> QED BY <2>1 DEF Next, Mutate, Edit
<1>3. CASE op = "submit"
  <2>1. \E placed \in Placed : Submit(o, placed)
    BY <1>3 DEF Flow
  <2> QED BY <2>1 DEF Next, Mutate
<1>4. CASE op = "discard"
  <2>1. Discard(o)
    BY <1>4 DEF Flow
  <2> QED BY <2>1 DEF Next, Mutate
<1> QED BY <1>1, <1>2, <1>3, <1>4 DEF FlowOps

\* What the REST request in progress is.
RestOK == rest = NoTask \/ (rest.order \in Orders /\ rest.op \in FlowOps)

LEMMA RestInit == OInit => RestOK
BY DEF OInit, RestOK

LEMMA RestStep == RestOK /\ [ONext]_ovars => RestOK'
<1> SUFFICES ASSUME RestOK, [ONext]_ovars PROVE RestOK'
  OBVIOUS
<1>1. CASE UNCHANGED rest
  BY <1>1 DEF RestOK
<1>2. CASE rest' = NoTask
  BY <1>2 DEF RestOK
<1>3. CASE \E o \in Orders, op \in FlowOps : Announce(o, op)
  BY <1>3 DEF RestOK, Announce
<1>4. UNCHANGED rest \/ rest' = NoTask \/ \E o \in Orders, op \in FlowOps : Announce(o, op)
  <2>1. CASE ONext
    BY <2>1 DEF ONext, Connect, Connected, ListDrafts, Disconnect, Kill, Deliver, Broadcast,
                Answer, Get, Shorten, Call, Push, TimeUp, Offline, Commit, Rollback, Recount,
                Collect, Cut, Expire1, socketVars
  <2>2. CASE UNCHANGED ovars
    BY <2>2 DEF ovars, socketVars
  <2> QED BY <2>1, <2>2
<1> QED BY <1>1, <1>2, <1>3, <1>4

-----------------------------------------------------------------------------
\* Steps of connections, requests and sweeps, as steps of the draft flow.
LEMMA ClientStep ==
  ASSUME NEW c \in Clients,
         \/ Connect(c) \/ Connected(c) \/ ListDrafts(c) \/ Disconnect(c) \/ Kill(c)
         \/ Deliver(c) \/ Broadcast(c) \/ Answer(c)
         \/ \E o \in Orders : Get(c, o) \/ Shorten(c, o) \/ \E op \in FlowOps : Call(c, o, op)
  PROVE  [Next]_vars
<1>1. CASE UNCHANGED vars
  BY <1>1
<1>2. CASE \E o \in Orders : ShortenEmptyDraft(o)
  BY <1>2 DEF Next, Expire
<1>3. CASE \E o \in Orders, op \in FlowOps : Flow(o, op)
  BY <1>3, FlowIsMutation
<1>4. \/ UNCHANGED vars \/ \E o \in Orders : ShortenEmptyDraft(o)
      \/ \E o \in Orders, op \in FlowOps : Flow(o, op)
  BY DEF Connect, Connected, ListDrafts, Disconnect, Kill, Deliver, Broadcast, Answer,
         Get, Shorten, Call
<1> QED BY <1>1, <1>2, <1>3, <1>4

LEMMA OrderStep ==
  ASSUME NEW o \in Orders,
         Push(o) \/ TimeUp(o) \/ Offline(o) \/ \E op \in FlowOps : Announce(o, op)
  PROVE  [Next]_vars
<1>1. CASE Push(o) \/ \E op \in FlowOps : Announce(o, op)
  BY <1>1 DEF Push, Announce
<1>2. CASE TimeUp(o)
  BY <1>2 DEF TimeUp, Next, Expire
<1>3. CASE Offline(o)
  BY <1>3 DEF Offline, Next, Mutate
<1> QED BY <1>1, <1>2, <1>3

LEMMA SweepStep ==
  ASSUME NEW s \in Sweepers,
         Collect(s) \/ Cut(s) \/ \E o \in Orders : Expire1(s, o)
  PROVE  [Next]_vars
<1>1. UNCHANGED vars \/ Sweep(s)
  BY DEF Collect, Cut, Expire1, Sweep
<1> QED BY <1>1 DEF Next

LEMMA FlowStep == RestOK /\ [ONext]_ovars => [Next]_vars
<1> SUFFICES ASSUME RestOK, [ONext]_ovars PROVE [Next]_vars
  OBVIOUS
<1>1. CASE UNCHANGED ovars
  BY <1>1 DEF ovars
<1>2. CASE Commit
  <2>1. rest.order \in Orders /\ rest.op \in FlowOps /\ Flow(rest.order, rest.op)
    BY <1>2 DEF Commit, RestOK
  <2> QED BY <2>1, FlowIsMutation
<1>3. CASE Rollback
  BY <1>3 DEF Rollback
<1>4. CASE Recount
  BY <1>4 DEF Recount, Next
<1>5. CASE ONext /\ ~Commit /\ ~Rollback /\ ~Recount
  BY <1>5, ClientStep, OrderStep, SweepStep DEF ONext
<1> QED BY <1>1, <1>2, <1>3, <1>4, <1>5

\* Whatever arrives over sockets and REST, and however broadcasts are lost or
\* overtake each other, the rows only move as the draft flow moves them: the
\* detailed specification implements DraftFlow.
THEOREM SocketRunsFlow == OSpec => Spec
<1>1. OInit => Init
  BY DEF OInit
<1>2. OSpec => []RestOK
  BY RestInit, RestStep, PTL DEF OSpec
<1> QED BY <1>1, <1>2, FlowStep, PTL DEF OSpec, Spec

\* So stock is never promised twice over sockets either.
COROLLARY SocketNoOversell == OSpec => [](NoOversell /\ ReservationExact)
BY SocketRunsFlow, ReservationCorrect, OversellExcluded, PTL

-----------------------------------------------------------------------------
\* What a connection is told

Words   == {"draft", "placed", "expired"}
Events  == [order : Orders, says : Words]
Chores  == [order : Orders, says : Words, step : {"send", "answer"}]
Errands == [order : Orders, op : FlowOps, heard : SUBSET Clients]

SocketTypeOK ==
  /\ conn \in [Clients -> {"closed", "joined", "open", "leaving"}]
  /\ told \in [Clients -> SUBSET Orders]
  /\ inbox \in [Clients -> Seq(Events)]
  /\ task \in [Clients -> Chores \cup {NoTask}]
  /\ rest \in Errands \cup {NoTask}
  /\ swept \in SUBSET Orders
  /\ stale \in [Clients -> SUBSET Orders]

\* The last of the events about o, if there is one, says b.
LastTells(q, o, b) ==
  \A i \in DOMAIN q :
    q[i].order = o /\ (\A j \in DOMAIN q : j > i => q[j].order # o)
      => (q[i].says = "draft" <=> b)

\* Some event is about o.
Mentions(q, o) == \E i \in DOMAIN q : q[i].order = o

\* When c has handled the events that wait for it, it takes o for a draft or not.
Believes(c, o, b) ==
  /\ LastTells(inbox[c], o, b)
  /\ conn[c] = "open" /\ ~Waiting(c, o) => (o \in told[c] <=> b)

\* What there is to be told of o: of a REST request, what it has announced.
Expected(o) == IF Locked(o) THEN Says(rest.op) = "draft" ELSE status[o] = "draft"

\* The handler of c has still to broadcast its change of o.
Sending(c, o) == Serving(c, o) /\ task[c].step = "send"

\* The event that is to be sent of o is the only one, and true.
OneSender(o) ==
  /\ ~Locked(o)
  /\ o \in swept => status[o] = "absent" /\ \A c \in Clients : ~Sending(c, o)
  /\ \A c \in Clients : Sending(c, o) =>
       /\ task[c].says = "draft" <=> status[o] = "draft"
       /\ \A d \in Clients : Sending(d, o) => d = c

\* Nobody is told wrong about o but where the code may do it (stale).
Fine(c, o) ==
  c \in Joined /\ o \notin stale[c] =>
    IF Unsent(o) THEN OneSender(o) ELSE Believes(c, o, Expected(o))

\* Who is not connected hears nothing and runs nothing.
Quiet == \A c \in Clients : c \notin Joined => inbox[c] = <<>> /\ task[c] = NoTask

\* What a handler will call expired is gone.
TasksTrue ==
  \A c \in Clients :
    task[c] # NoTask /\ task[c].says = "expired" => status[task[c].order] = "absent"

\* Nobody serves an order that a REST request is about to create.
NewUnserved ==
  rest # NoTask /\ rest.op = "create" => \A c \in Clients : ~Serving(c, rest.order)

SocketInv ==
  /\ SocketTypeOK /\ Quiet /\ TasksTrue /\ NewUnserved
  /\ \A c \in Clients, o \in Orders : Fine(c, o)

StatusTyped == status \in [Orders -> Statuses]

-----------------------------------------------------------------------------
\* Queues of events

\* An event that arrives is the last word on its order, and none on another.
LEMMA AppendTells ==
  ASSUME NEW q \in Seq(Events), NEW e \in Events, NEW o \in Orders, NEW b \in BOOLEAN
  PROVE  /\ e.order = o /\ (e.says = "draft" <=> b) =>
              LastTells(Append(q, e), o, b) /\ Mentions(Append(q, e), o)
         /\ e.order # o =>
              /\ LastTells(q, o, b) => LastTells(Append(q, e), o, b)
              /\ Mentions(Append(q, e), o) <=> Mentions(q, o)
<1> DEFINE a == Append(q, e)
           n == Len(q)
<1>1. /\ n \in Nat /\ DOMAIN q = 1..n /\ DOMAIN a = 1..(n + 1)
      /\ a[n + 1] = e /\ \A i \in 1..n : a[i] = q[i]
  OBVIOUS
<1> HIDE DEF a, n
<1>2. ASSUME e.order = o, e.says = "draft" <=> b
      PROVE  LastTells(a, o, b) /\ Mentions(a, o)
  <2>1. ASSUME NEW i \in DOMAIN a, \A j \in DOMAIN a : j > i => a[j].order # o
        PROVE  i = n + 1
    BY <1>1, <1>2, <2>1
  <2> QED BY <1>1, <1>2, <2>1 DEF LastTells, Mentions
<1>3. ASSUME e.order # o
      PROVE  Mentions(a, o) <=> Mentions(q, o)
  <2>1. ASSUME NEW i \in DOMAIN a, a[i].order = o PROVE i \in DOMAIN q /\ q[i].order = o
    BY <1>1, <1>3, <2>1
  <2>2. ASSUME NEW i \in DOMAIN q, q[i].order = o PROVE i \in DOMAIN a /\ a[i].order = o
    BY <1>1, <2>2
  <2> QED BY <2>1, <2>2 DEF Mentions
<1>4. ASSUME e.order # o, LastTells(q, o, b)
      PROVE  LastTells(a, o, b)
  <2> SUFFICES ASSUME NEW i \in DOMAIN a, a[i].order = o,
                      \A j \in DOMAIN a : j > i => a[j].order # o
               PROVE  a[i].says = "draft" <=> b
    BY DEF LastTells
  <2>1. i \in DOMAIN q /\ q[i] = a[i]
    BY <1>1, <1>4
  <2>2. \A j \in DOMAIN q : j > i => q[j].order # o
    BY <1>1
  <2> QED BY <1>4, <2>1, <2>2 DEF LastTells
<1> QED BY <1>2, <1>3, <1>4 DEF a

\* An event that is handled was the last word if no other follows it.
LEMMA TailTells ==
  ASSUME NEW q \in Seq(Events), q # <<>>, NEW o \in Orders, NEW b \in BOOLEAN,
         LastTells(q, o, b)
  PROVE  /\ LastTells(Tail(q), o, b)
         /\ Head(q) \in Events /\ Tail(q) \in Seq(Events)
         /\ ~Mentions(Tail(q), o) =>
              IF Head(q).order = o THEN Head(q).says = "draft" <=> b ELSE ~Mentions(q, o)
<1> DEFINE t == Tail(q)
           n == Len(q)
<1>1. /\ n \in Nat \ {0} /\ DOMAIN q = 1..n /\ DOMAIN t = 1..(n - 1)
      /\ Head(q) = q[1] /\ \A i \in 1..(n - 1) : t[i] = q[i + 1]
      /\ Head(q) \in Events /\ Tail(q) \in Seq(Events)
  OBVIOUS
<1> HIDE DEF t, n
<1>2. LastTells(t, o, b)
  <2> SUFFICES ASSUME NEW i \in DOMAIN t, t[i].order = o,
                      \A j \in DOMAIN t : j > i => t[j].order # o
               PROVE  t[i].says = "draft" <=> b
    BY DEF LastTells
  <2>1. i + 1 \in DOMAIN q /\ q[i + 1] = t[i]
    BY <1>1
  <2>2. ASSUME NEW j \in DOMAIN q, j > i + 1 PROVE q[j].order # o
    <3>1. j - 1 \in DOMAIN t /\ j - 1 > i /\ t[j - 1] = q[j]
      BY <1>1, <2>2
    <3> QED BY <3>1
  <2> QED BY <2>1, <2>2 DEF LastTells
<1>3. ASSUME ~Mentions(t, o)
      PROVE  \A j \in DOMAIN q : j > 1 => q[j].order # o
  <2> SUFFICES ASSUME NEW j \in DOMAIN q, j > 1 PROVE q[j].order # o
    OBVIOUS
  <2>1. j - 1 \in DOMAIN t /\ t[j - 1] = q[j]
    BY <1>1
  <2> QED BY <1>3, <2>1 DEF Mentions
<1>4. ASSUME ~Mentions(t, o)
      PROVE  IF Head(q).order = o THEN Head(q).says = "draft" <=> b ELSE ~Mentions(q, o)
  <2>1. CASE Head(q).order = o
    BY <1>1, <1>3, <1>4, <2>1 DEF LastTells
  <2>2. CASE Head(q).order # o
    <3>1. \A j \in DOMAIN q : q[j].order # o
      BY <1>1, <1>3, <1>4, <2>2
    <3> QED BY <2>2, <3>1 DEF Mentions
  <2> QED BY <2>1, <2>2
<1> QED BY <1>1, <1>2, <1>4 DEF t

-----------------------------------------------------------------------------
\* Steps

\* Nothing about o happens but that events are heard.
Still(o) ==
  /\ status'[o] = status[o]
  /\ Locked(o)' <=> Locked(o)
  /\ Locked(o) => rest' = rest
  /\ o \in swept' <=> o \in swept
  /\ \A c \in Clients : /\ Sending(c, o)' <=> Sending(c, o)
                        /\ Sending(c, o) => task'[c] = task[c]

\* What c believes of o it goes on believing.
Keeps(c, o) ==
  c \in Joined' /\ o \notin stale'[c] =>
    /\ c \in Joined /\ o \notin stale[c]
    /\ \A b \in BOOLEAN : Believes(c, o, b) => Believes(c, o, b)'

\* What is unsent is swept or about to be broadcast by a handler.
LEMMA UnsentMeans ==
  ASSUME NEW o \in Orders
  PROVE  Unsent(o) <=> o \in swept \/ \E c \in Clients : Sending(c, o)
BY DEF Unsent, Sending, Serving

\* What holds of an order about which nothing happens goes on holding.
LEMMA StillUnsent ==
  ASSUME NEW o \in Orders, Still(o)
  PROVE  /\ Unsent(o)' <=> Unsent(o)
         /\ Expected(o)' = Expected(o)
         /\ OneSender(o) /\ Unsent(o) => OneSender(o)'
<1>1. Unsent(o)' <=> Unsent(o)
  BY DEF Still, Unsent, Sending, Serving
<1>2. Expected(o)' = Expected(o)
  BY DEF Still, Expected
<1>3. OneSender(o) => OneSender(o)'
  BY DEF Still, OneSender
<1> QED BY <1>1, <1>2, <1>3

\* A step that neither touches o nor what c hears of it disturbs nobody.
LEMMA Undisturbed ==
  ASSUME NEW c \in Clients, NEW o \in Orders, Fine(c, o), Still(o), Keeps(c, o)
  PROVE  Fine(c, o)'
<1> SUFFICES ASSUME c \in Joined', o \notin stale'[c]
             PROVE  IF Unsent(o)' THEN OneSender(o)' ELSE Believes(c, o, Expected(o))'
  BY DEF Fine
<1>1. c \in Joined /\ o \notin stale[c]
  BY DEF Keeps
<1>2. CASE Unsent(o)
  BY <1>1, <1>2, StillUnsent DEF Fine
<1>3. CASE ~Unsent(o)
  <2> DEFINE b == Expected(o)
  <2>1. b \in BOOLEAN /\ Expected(o)' = b
    BY StillUnsent DEF Expected
  <2>2. Believes(c, o, b)
    BY <1>1, <1>3 DEF Fine
  <2>3. Believes(c, o, b)'
    BY <2>1, <2>2 DEF Keeps
  <2> QED BY <1>3, <2>1, <2>3, StillUnsent
<1> QED BY <1>2, <1>3

\* What a broadcast does to whoever is connected.
LEMMA Sent ==
  ASSUME SocketTypeOK, NEW p \in Orders, NEW w \in Words, NEW doubted, Send(p, w, doubted)
  PROVE  /\ inbox' \in [Clients -> Seq(Events)]
         /\ stale' \in [Clients -> SUBSET Orders]
         /\ \A c \in Clients : c \notin Joined => inbox'[c] = inbox[c]
         /\ \A c \in Clients, o \in Orders : o # p =>
              /\ o \in stale'[c] <=> o \in stale[c]
              /\ Waiting(c, o)' <=> Waiting(c, o)
              /\ \A b \in BOOLEAN : LastTells(inbox[c], o, b) => LastTells(inbox'[c], o, b)
         /\ \A c \in Joined : p \notin stale'[c] =>
              /\ p \notin stale[c] /\ c \notin doubted
              /\ Waiting(c, p)'
              /\ \A b \in BOOLEAN : (w = "draft" <=> b) => LastTells(inbox'[c], p, b)
<1> DEFINE e == [order |-> p, says |-> w]
<1>1. PICK got \in SUBSET Joined :
        /\ inbox' = [c \in Clients |-> IF c \in got THEN Append(inbox[c], e) ELSE inbox[c]]
        /\ Doubt(doubted \cup (Joined \ got), p)
  BY DEF Send
<1>2. e \in Events /\ e.order = p /\ e.says = w
  BY DEF Events
<1> HIDE DEF e
<1>3. inbox' \in [Clients -> Seq(Events)]
  BY <1>1, <1>2 DEF SocketTypeOK
<1>4. \A c \in Clients :
        stale'[c] = IF c \in (doubted \cup (Joined \ got)) \cap Joined
                    THEN stale[c] \cup {p} ELSE stale[c]
  BY <1>1 DEF Doubt
<1>5. stale' \in [Clients -> SUBSET Orders]
  BY <1>1 DEF Doubt, SocketTypeOK
<1>6. ASSUME NEW c \in Clients, NEW o \in Orders, o # p
      PROVE  /\ o \in stale'[c] <=> o \in stale[c]
             /\ Waiting(c, o)' <=> Waiting(c, o)
             /\ \A b \in BOOLEAN : LastTells(inbox[c], o, b) => LastTells(inbox'[c], o, b)
  <2>1. inbox[c] \in Seq(Events) /\ (inbox'[c] = inbox[c] \/ inbox'[c] = Append(inbox[c], e))
    BY <1>1 DEF SocketTypeOK
  <2>2. Waiting(c, o)' <=> Mentions(inbox'[c], o)
    BY DEF Waiting, Mentions
  <2>3. Waiting(c, o) <=> Mentions(inbox[c], o)
    BY DEF Waiting, Mentions
  <2>4. \A b \in BOOLEAN : /\ LastTells(inbox[c], o, b) => LastTells(inbox'[c], o, b)
                           /\ Mentions(inbox'[c], o) <=> Mentions(inbox[c], o)
    <3> SUFFICES ASSUME NEW b \in BOOLEAN
                 PROVE  /\ LastTells(inbox[c], o, b) => LastTells(inbox'[c], o, b)
                        /\ Mentions(inbox'[c], o) <=> Mentions(inbox[c], o)
      OBVIOUS
    <3>1. CASE inbox'[c] = inbox[c]
      BY <3>1
    <3>2. CASE inbox'[c] = Append(inbox[c], e)
      <4>1. inbox[c] \in Seq(Events) /\ e.order # o
        BY <1>2, <1>6, <2>1
      <4>2. /\ LastTells(inbox[c], o, b) => LastTells(Append(inbox[c], e), o, b)
            /\ Mentions(Append(inbox[c], e), o) <=> Mentions(inbox[c], o)
        BY <1>2, <4>1, AppendTells
      <4> QED BY <3>2, <4>2
    <3> QED BY <2>1, <3>1, <3>2
  <2> QED BY <1>4, <1>6, <2>2, <2>3, <2>4
<1>7. ASSUME NEW c \in Joined, p \notin stale'[c]
      PROVE  /\ p \notin stale[c] /\ c \notin doubted
             /\ Waiting(c, p)'
             /\ \A b \in BOOLEAN : (w = "draft" <=> b) => LastTells(inbox'[c], p, b)
  <2>1. c \in Clients /\ c \in got /\ p \notin stale[c] /\ c \notin doubted
    BY <1>4, <1>7 DEF Joined
  <2>2. inbox[c] \in Seq(Events) /\ inbox'[c] = Append(inbox[c], e)
    BY <1>1, <2>1 DEF SocketTypeOK
  <2>3. Mentions(inbox'[c], p)
    <3>1. w = "draft" <=> (w = "draft")
      OBVIOUS
    <3> QED BY <1>2, <2>2, <3>1, AppendTells
  <2>4. \A b \in BOOLEAN : (w = "draft" <=> b) => LastTells(inbox'[c], p, b)
    BY <1>2, <2>2, AppendTells
  <2> QED BY <2>1, <2>3, <2>4 DEF Waiting, Mentions
<1> QED BY <1>1, <1>3, <1>5, <1>6, <1>7

\* A broadcast about another order is none about o.
LEMMA SentKeeps ==
  ASSUME SocketTypeOK, NEW p \in Orders, NEW w \in Words, NEW doubted, Send(p, w, doubted),
         conn' = conn, told' = told, NEW c \in Clients, NEW o \in Orders, o # p
  PROVE  Keeps(c, o)
BY Sent DEF Keeps, Believes, Joined

\* What a call of the flow does to the status of orders.
LEMMA FlowStatus ==
  ASSUME StatusTyped, NEW p \in Orders, NEW op \in FlowOps, Flow(p, op)
  PROVE  /\ StatusTyped'
         /\ \A o \in Orders : o # p => status'[o] = status[o]
         /\ status[p] = IF op = "create" THEN "absent" ELSE "draft"
         /\ ~Emptied(p, op) => (Says(op) = "draft" <=> status'[p] = "draft")
         /\ Says(op) = "expired" => status'[p] = "absent"
<1>1. CASE op = "create"
  BY <1>1 DEF Flow, CreateDraft, Says, StatusTyped, Statuses
<1>2. CASE op = "edit"
  <2>1. Edit(p)
    BY <1>2 DEF Flow
  <2>2. status[p] = "draft" /\ \E x \in {"draft", "absent"} : status' = [status EXCEPT ![p] = x]
    <3>1. CASE \E g \in Groups, range \in Ranges, q \in 1..MaxQty, r \in Refs \cup {NoRef} :
                 AddItem(p, g, range, q, r)
      BY <3>1 DEF AddItem, Book, OpenDraft, StatusTyped
    <3>2. CASE \E g \in Groups, sizes \in SUBSET Variants : RemoveItem(p, g, sizes)
      BY <3>2 DEF RemoveItem, OpenDraft
    <3>3. CASE \E g \in Groups, q \in 1..MaxQty : UpdateQuantity(p, g, q)
      BY <3>3 DEF UpdateQuantity, OpenDraft, StatusTyped
    <3> QED BY <2>1, <3>1, <3>2, <3>3 DEF Edit
  <2> QED BY <1>2, <2>2 DEF Emptied, Says, StatusTyped, Statuses
<1>3. CASE op = "submit"
  <2>1. PICK placed \in Placed : Submit(p, placed)
    BY <1>3 DEF Flow
  <2> QED BY <1>3, <2>1 DEF Submit, OpenDraft, Says, StatusTyped, Statuses, Placed
<1>4. CASE op = "discard"
  <2>1. Discard(p)
    BY <1>4 DEF Flow
  <2> QED BY <1>4, <2>1 DEF Discard, ReleaseAndDelete, OpenDraft, Says, StatusTyped, Statuses
<1> QED BY <1>1, <1>2, <1>3, <1>4 DEF FlowOps


-----------------------------------------------------------------------------
\* Steps that tell nobody anything

\* A step of the database alone: time, a recount, a sweep's query.
LEMMA IdleInv ==
  ASSUME SocketInv, UNCHANGED <<status, conn, told, inbox, task, rest, swept, stale>>
  PROVE  SocketInv'
<1>1. SocketTypeOK' /\ Quiet' /\ TasksTrue' /\ NewUnserved'
  BY DEF SocketInv, SocketTypeOK, Quiet, TasksTrue, NewUnserved, Joined, Serving
<1>2. ASSUME NEW c \in Clients, NEW o \in Orders
      PROVE  Fine(c, o)'
  <2>1. Still(o)
    BY DEF Still, Locked, Sending, Serving
  <2>2. Keeps(c, o)
    BY DEF Keeps, Believes, Joined, Waiting
  <2> QED BY <2>1, <2>2, Undisturbed DEF SocketInv
<1> QED BY <1>1, <1>2 DEF SocketInv

LEMMA ShortenInv ==
  ASSUME SocketInv, NEW c \in Clients, NEW p \in Orders, Shorten(c, p)
  PROVE  SocketInv'
<1>1. /\ status' = status /\ UNCHANGED <<told, inbox, task, rest, swept, stale>>
      /\ conn \in [Clients -> {"closed", "joined", "open", "leaving"}]
      /\ conn[c] = "leaving"
  BY DEF Shorten, ShortenEmptyDraft, vars, SocketInv, SocketTypeOK
<1>2. PICK x \in {"closed", "leaving"} : conn' = [conn EXCEPT ![c] = x]
  BY DEF Shorten
<1>3. /\ conn' \in [Clients -> {"closed", "joined", "open", "leaving"}]
      /\ Joined' = Joined
      /\ \A d \in Clients : conn'[d] = "open" <=> conn[d] = "open"
  BY <1>1, <1>2 DEF Joined
<1>4. SocketTypeOK' /\ Quiet' /\ TasksTrue' /\ NewUnserved'
  BY <1>1, <1>3 DEF SocketInv, SocketTypeOK, Quiet, TasksTrue, NewUnserved, Serving
<1>5. ASSUME NEW d \in Clients, NEW o \in Orders
      PROVE  Fine(d, o)'
  <2>1. Still(o)
    BY <1>1 DEF Still, Locked, Sending, Serving
  <2>2. Keeps(d, o)
    BY <1>1, <1>3 DEF Keeps, Believes, Waiting
  <2> QED BY <2>1, <2>2, Undisturbed DEF SocketInv
<1> QED BY <1>4, <1>5 DEF SocketInv

-----------------------------------------------------------------------------
\* Connections come, list and go

\* A connection joins its groups: what is unsent then counts as stale.
LEMMA ConnectInv ==
  ASSUME SocketInv, NEW c \in Clients, Connect(c)
  PROVE  SocketInv'
<1>1. /\ UNCHANGED <<status, told, inbox, task, rest, swept>>
      /\ conn[c] = "closed" /\ conn' = [conn EXCEPT ![c] = "joined"]
      /\ stale' = [stale EXCEPT ![c] = {o \in Orders : Unsent(o)}]
  BY DEF Connect, vars
<1>2. SocketTypeOK'
  BY <1>1 DEF SocketInv, SocketTypeOK
<1>3. Joined' = Joined \cup {c} /\ c \notin Joined
  BY <1>1 DEF SocketInv, SocketTypeOK, Joined
<1>4. inbox[c] = <<>>
  BY <1>3 DEF SocketInv, Quiet
<1>5. Quiet' /\ TasksTrue' /\ NewUnserved'
  BY <1>1, <1>3 DEF SocketInv, Quiet, TasksTrue, NewUnserved, Serving
<1>6. ASSUME NEW d \in Clients, NEW o \in Orders
      PROVE  Fine(d, o)'
  <2>1. Still(o)
    BY <1>1 DEF Still, Locked, Sending, Serving
  <2>2. CASE d # c
    <3>1. Keeps(d, o)
      BY <1>1, <1>3, <2>2 DEF Keeps, Believes, Waiting, SocketInv, SocketTypeOK
    <3> QED BY <2>1, <3>1, Undisturbed DEF SocketInv
  <2>3. CASE d = c
    <3>1. o \notin stale'[c] => ~Unsent(o)'
      BY <1>1, <2>1, StillUnsent DEF SocketInv, SocketTypeOK
    <3>2. Believes(c, o, Expected(o))'
      <4>1. inbox'[c] = <<>> /\ conn'[c] # "open"
        BY <1>1, <1>4 DEF SocketInv, SocketTypeOK
      <4> QED BY <4>1 DEF Believes, LastTells
    <3> QED BY <2>3, <3>1, <3>2 DEF Fine
  <2> QED BY <2>2, <2>3
<1> QED BY <1>2, <1>5, <1>6 DEF SocketInv

\* A list of drafts is true, but for what is locked or still waits.
LEMMA ListedInv ==
  ASSUME SocketInv, NEW c \in Clients, Connected(c) \/ ListDrafts(c)
  PROVE  SocketInv'
<1>1. /\ UNCHANGED <<status, inbox, task, rest, swept>>
      /\ c \in Joined /\ Listed(c)
  BY DEF Connected, ListDrafts, Joined, vars
<1>2. conn' = [conn EXCEPT ![c] = "open"]
  BY DEF Connected, ListDrafts, SocketInv, SocketTypeOK
<1>3. /\ told' = [told EXCEPT ![c] = Drafts]
      /\ stale' = [stale EXCEPT ![c] =
           {o \in Orders : Locked(o) \/ (o \in stale[c] /\ (Unsent(o) \/ Waiting(c, o)))}]
  BY <1>1 DEF Listed, SocketInv, SocketTypeOK
<1>4. SocketTypeOK'
  BY <1>1, <1>2, <1>3 DEF SocketInv, SocketTypeOK, Drafts
<1>5. Joined' = Joined
  BY <1>1, <1>2 DEF Joined, SocketInv, SocketTypeOK
<1>6. Quiet' /\ TasksTrue' /\ NewUnserved'
  BY <1>1, <1>5 DEF SocketInv, Quiet, TasksTrue, NewUnserved, Serving
<1>7. ASSUME NEW d \in Clients, NEW o \in Orders
      PROVE  Fine(d, o)'
  <2>1. Still(o)
    BY <1>1 DEF Still, Locked, Sending, Serving
  <2>2. CASE d # c
    <3>1. Keeps(d, o)
      BY <1>1, <1>2, <1>3, <1>5, <2>2 DEF Keeps, Believes, Waiting, SocketInv, SocketTypeOK
    <3> QED BY <2>1, <3>1, Undisturbed DEF SocketInv
  <2>3. CASE d = c
    <3> SUFFICES ASSUME o \notin stale'[c]
                 PROVE  IF Unsent(o)' THEN OneSender(o)' ELSE Believes(c, o, Expected(o))'
      BY <2>3 DEF Fine
    <3>1. ~Locked(o) /\ (o \in stale[c] => ~Unsent(o) /\ ~Waiting(c, o))
      BY <1>3 DEF SocketInv, SocketTypeOK
    <3>2. CASE Unsent(o)
      <4>1. OneSender(o)
        BY <1>1, <3>1, <3>2 DEF SocketInv, Fine
      <4> QED BY <2>1, <3>2, <4>1, StillUnsent
    <3>3. CASE ~Unsent(o)
      <4> DEFINE b == status[o] = "draft"
      <4>1. Expected(o)' = b /\ Expected(o) = b
        BY <2>1, <3>1, StillUnsent DEF Expected
      <4>2. LastTells(inbox[c], o, b)
        <5>1. CASE o \notin stale[c]
          BY <1>1, <3>3, <4>1, <5>1 DEF SocketInv, Fine, Believes
        <5>2. CASE o \in stale[c]
          BY <3>1, <5>2 DEF Waiting, LastTells
        <5> QED BY <5>1, <5>2
      <4>3. o \in told'[c] <=> b
        BY <1>3 DEF Drafts, SocketInv, SocketTypeOK
      <4>4. Believes(c, o, Expected(o))'
        BY <1>1, <4>1, <4>2, <4>3 DEF Believes
      <4> QED BY <2>1, <3>3, <4>4, StillUnsent
    <3> QED BY <3>2, <3>3
  <2> QED BY <2>2, <2>3
<1> QED BY <1>4, <1>6, <1>7 DEF SocketInv

LEMMA DisconnectInv ==
  ASSUME SocketInv, NEW c \in Clients, Disconnect(c)
  PROVE  SocketInv'
<1>1. /\ UNCHANGED <<status, rest, swept>> /\ task[c] = NoTask /\ task' = task
      /\ told' = [told EXCEPT ![c] = {}] /\ inbox' = [inbox EXCEPT ![c] = <<>>]
      /\ stale' = [stale EXCEPT ![c] = {}]
  BY DEF Disconnect, Closes, vars, SocketInv, SocketTypeOK
<1>2. PICK x \in {"closed", "leaving"} : conn' = [conn EXCEPT ![c] = x]
  BY DEF Disconnect
<1>3. SocketTypeOK' /\ Joined' = Joined \ {c}
  BY <1>1, <1>2 DEF SocketInv, SocketTypeOK, Joined
<1>4. Quiet' /\ TasksTrue' /\ NewUnserved'
  BY <1>1, <1>3 DEF SocketInv, SocketTypeOK, Quiet, TasksTrue, NewUnserved, Serving
<1>5. ASSUME NEW d \in Clients, NEW o \in Orders
      PROVE  Fine(d, o)'
  <2>1. Still(o)
    BY <1>1 DEF Still, Locked, Sending, Serving
  <2>2. Keeps(d, o)
    BY <1>1, <1>2, <1>3 DEF Keeps, Believes, Waiting, SocketInv, SocketTypeOK
  <2> QED BY <2>1, <2>2, Undisturbed DEF SocketInv
<1> QED BY <1>3, <1>4, <1>5 DEF SocketInv

LEMMA KillInv ==
  ASSUME SocketInv, NEW c \in Clients, Kill(c)
  PROVE  SocketInv'
<1> DEFINE lost == {o \in Orders : Sending(c, o)}
<1>1. /\ UNCHANGED <<status, rest, swept>>
      /\ task' = [task EXCEPT ![c] = NoTask]
      /\ told' = [told EXCEPT ![c] = {}] /\ inbox' = [inbox EXCEPT ![c] = <<>>]
      /\ conn' = [conn EXCEPT ![c] = "closed"]
      /\ stale' = [d \in Clients |-> IF d = c THEN {}
                                     ELSE IF d \in Joined THEN stale[d] \cup lost ELSE stale[d]]
  BY DEF Kill, Closes, vars, SocketInv, SocketTypeOK, Sending, Serving
<1>2. SocketTypeOK' /\ Joined' = Joined \ {c}
  BY <1>1 DEF SocketInv, SocketTypeOK, Joined
<1>3. Quiet' /\ TasksTrue' /\ NewUnserved'
  BY <1>1, <1>2 DEF SocketInv, SocketTypeOK, Quiet, TasksTrue, NewUnserved, Serving
<1>4. ASSUME NEW d \in Clients, NEW o \in Orders
      PROVE  Fine(d, o)'
  <2> SUFFICES ASSUME d \in Joined', o \notin stale'[d] PROVE Fine(d, o)'
    BY DEF Fine
  <2>1. ~Sending(c, o)
    BY <1>1, <1>2
  <2>2. Still(o)
    BY <1>1, <2>1 DEF Still, Locked, Sending, Serving, SocketInv, SocketTypeOK
  <2>3. Keeps(d, o)
    BY <1>1, <1>2 DEF Keeps, Believes, Waiting, SocketInv, SocketTypeOK
  <2> QED BY <2>2, <2>3, Undisturbed DEF SocketInv
<1> QED BY <1>2, <1>3, <1>4 DEF SocketInv

\* The event that is relayed was the last one about its order, or is not.
LEMMA RelayInv ==
  ASSUME SocketInv, NEW c \in Clients, Deliver(c)
  PROVE  SocketInv'
<1> DEFINE e == Head(inbox[c])
<1>1. /\ UNCHANGED <<status, conn, task, rest, swept, stale>>
      /\ inbox[c] \in Seq(Events) /\ inbox[c] # <<>>
      /\ inbox' = [inbox EXCEPT ![c] = Tail(inbox[c])]
      /\ told' = [told EXCEPT ![c] = Hears(told[c], e.order, e.says)]
  BY DEF Deliver, vars, SocketInv, SocketTypeOK
<1>2. e \in Events /\ Tail(inbox[c]) \in Seq(Events) /\ e.order \in Orders
  <2>1. \A q \in Seq(Events) : q # <<>> => Head(q) \in Events /\ Tail(q) \in Seq(Events)
    OBVIOUS
  <2>2. e \in Events /\ Tail(inbox[c]) \in Seq(Events)
    BY <1>1, <2>1
  <2> QED BY <2>2 DEF Events
<1> HIDE DEF e
<1>3. SocketTypeOK' /\ Joined' = Joined
  BY <1>1, <1>2 DEF SocketInv, SocketTypeOK, Joined, Hears
<1>4. Quiet' /\ TasksTrue' /\ NewUnserved'
  <2>1. c \in Joined
    BY <1>1 DEF SocketInv, Quiet
  <2> QED BY <1>1, <1>3, <2>1 DEF SocketInv, SocketTypeOK, Quiet, TasksTrue, NewUnserved, Serving
<1>5. ASSUME NEW d \in Clients, NEW o \in Orders
      PROVE  Fine(d, o)'
  <2>1. Still(o)
    BY <1>1 DEF Still, Locked, Sending, Serving
  <2>2. CASE d # c
    <3>1. Keeps(d, o)
      BY <1>1, <1>3, <2>2 DEF Keeps, Believes, Waiting, SocketInv, SocketTypeOK
    <3> QED BY <2>1, <3>1, Undisturbed DEF SocketInv
  <2>3. CASE d = c
    <3>1. ASSUME NEW b \in BOOLEAN, Believes(c, o, b) PROVE Believes(c, o, b)'
      <4>1. inbox'[c] = Tail(inbox[c]) /\ told'[c] = Hears(told[c], e.order, e.says)
        BY <1>1 DEF SocketInv, SocketTypeOK
      <4>2. /\ LastTells(Tail(inbox[c]), o, b)
            /\ ~Mentions(Tail(inbox[c]), o) =>
                 IF e.order = o THEN e.says = "draft" <=> b ELSE ~Mentions(inbox[c], o)
        BY <1>1, <3>1, TailTells DEF Believes, e
      <4>3. Waiting(c, o) <=> Mentions(inbox[c], o)
        BY DEF Waiting, Mentions
      <4>4. Waiting(c, o)' <=> Mentions(Tail(inbox[c]), o)
        BY <4>1 DEF Waiting, Mentions
      <4>5. ASSUME conn'[c] = "open", ~Waiting(c, o)' PROVE o \in told'[c] <=> b
        <5>1. CASE e.order = o
          BY <4>1, <4>2, <4>4, <4>5, <5>1 DEF Hears
        <5>2. CASE e.order # o
          BY <1>1, <3>1, <4>1, <4>2, <4>3, <4>4, <4>5, <5>2 DEF Hears, Believes
        <5> QED BY <5>1, <5>2
      <4> QED BY <4>1, <4>2, <4>5 DEF Believes
    <3>2. Keeps(c, o)
      BY <1>1, <1>3, <3>1 DEF Keeps
    <3> QED BY <2>1, <2>3, <3>2, Undisturbed DEF SocketInv
  <2> QED BY <2>2, <2>3
<1> QED BY <1>3, <1>4, <1>5 DEF SocketInv


-----------------------------------------------------------------------------
\* Requests over the socket

\* What c is told of p changes, and nothing else.
LEMMA AnswerInv ==
  ASSUME SocketInv, StatusTyped, NEW c \in Clients,
         Answer(c) \/ \E p \in Orders : Get(c, p)
  PROVE  SocketInv'
<1>1. PICK p \in Orders, known \in SUBSET Orders :
        /\ told' = [told EXCEPT ![c] = known]
        /\ \A o \in Orders : o # p => (o \in known <=> o \in told[c])
        /\ status[p] # "absent" => (p \in known <=> status[p] = "draft")
        /\ status[p] = "absent" => p \notin known \/ known = told[c]
        /\ Doubt(IF Locked(p) THEN {c} ELSE {}, p)
        /\ UNCHANGED <<status, conn, inbox, rest, swept>>
        /\ task' = task \/ (task' = [task EXCEPT ![c] = NoTask] /\ task[c].step = "answer")
  <2>1. CASE Answer(c)
    <3> DEFINE p == task[c].order
               known == IF task[c].says = "expired" THEN told[c] \ {p}
                        ELSE IF status[p] = "absent" THEN told[c]
                        ELSE Hears(told[c], p, status[p])
    <3>1. /\ told' = [told EXCEPT ![c] = known]
          /\ Doubt(IF Locked(p) THEN {c} ELSE {}, p)
          /\ UNCHANGED <<status, conn, inbox, rest, swept>>
          /\ task' = [task EXCEPT ![c] = NoTask] /\ task[c].step = "answer"
      BY <2>1 DEF Answer, vars, SocketInv, SocketTypeOK
    <3>2. p \in Orders /\ known \in SUBSET Orders
      BY <2>1 DEF Answer, SocketInv, SocketTypeOK, Chores, Hears
    <3>3. \A o \in Orders : o # p => (o \in known <=> o \in told[c])
      BY DEF Hears
    <3>4. status[p] # "absent" => (p \in known <=> status[p] = "draft")
      BY <2>1 DEF Answer, SocketInv, TasksTrue, Hears
    <3>5. status[p] = "absent" => p \notin known \/ known = told[c]
      OBVIOUS
    <3> QED BY <3>1, <3>2, <3>3, <3>4, <3>5
  <2>2. ASSUME NEW p \in Orders, Get(c, p)
        PROVE  \E known \in SUBSET Orders :
                 /\ told' = [told EXCEPT ![c] = known]
                 /\ \A o \in Orders : o # p => (o \in known <=> o \in told[c])
                 /\ status[p] # "absent" => (p \in known <=> status[p] = "draft")
                 /\ status[p] = "absent" => p \notin known \/ known = told[c]
                 /\ Doubt(IF Locked(p) THEN {c} ELSE {}, p)
                 /\ UNCHANGED <<status, conn, inbox, rest, swept>>
                 /\ task' = task
    <3> DEFINE known == Hears(told[c], p, status[p])
    <3>1. /\ told' = [told EXCEPT ![c] = known]
          /\ Doubt(IF Locked(p) THEN {c} ELSE {}, p)
          /\ UNCHANGED <<status, conn, inbox, rest, swept, task>>
          /\ status[p] # "absent"
      BY <2>2 DEF Get, vars, SocketInv, SocketTypeOK
    <3>2. known \in SUBSET Orders /\ (p \in known <=> status[p] = "draft")
          /\ \A o \in Orders : o # p => (o \in known <=> o \in told[c])
      BY DEF Hears, SocketInv, SocketTypeOK
    <3> QED BY <3>1, <3>2
  <2> QED BY <2>1, <2>2
<1>2. stale' = [d \in Clients |-> IF d = c /\ Locked(p) /\ c \in Joined
                                  THEN stale[d] \cup {p} ELSE stale[d]]
  BY <1>1 DEF Doubt
<1>3. SocketTypeOK' /\ Joined' = Joined
  BY <1>1, <1>2 DEF SocketInv, SocketTypeOK, Joined
<1>4. Quiet' /\ TasksTrue' /\ NewUnserved'
  BY <1>1, <1>3 DEF SocketInv, SocketTypeOK, Quiet, TasksTrue, NewUnserved, Serving
<1>5. ASSUME NEW d \in Clients, NEW o \in Orders
      PROVE  Fine(d, o)'
  <2>1. Still(o)
    BY <1>1 DEF Still, Locked, Sending, Serving, SocketInv, SocketTypeOK
  <2>2. CASE d # c \/ o # p
    <3>1. Keeps(d, o)
      BY <1>1, <1>2, <1>3, <2>2 DEF Keeps, Believes, Waiting, SocketInv, SocketTypeOK
    <3> QED BY <2>1, <3>1, Undisturbed DEF SocketInv
  <2>3. CASE d = c /\ o = p
    <3> SUFFICES ASSUME c \in Joined, p \notin stale'[c]
                 PROVE  IF Unsent(p)' THEN OneSender(p)' ELSE Believes(c, p, Expected(p))'
      BY <1>3, <2>3 DEF Fine
    <3>1. p \notin stale[c] /\ ~Locked(p)
      BY <1>2
    <3>2. CASE Unsent(p)
      <4>1. OneSender(p)
        BY <3>1, <3>2 DEF SocketInv, Fine
      <4> QED BY <2>1, <2>3, <3>2, <4>1, StillUnsent
    <3>3. CASE ~Unsent(p)
      <4>1. Believes(c, p, status[p] = "draft")
        BY <3>1, <3>3 DEF SocketInv, Fine, Expected
      <4>2. Expected(p)' = (status[p] = "draft")
        BY <2>1, <2>3, <3>1, StillUnsent DEF Expected
      <4>3. told'[c] = known /\ inbox'[c] = inbox[c] /\ conn'[c] = conn[c]
        BY <1>1 DEF SocketInv, SocketTypeOK
      <4>4. conn[c] = "open" /\ ~Waiting(c, p) => (p \in known <=> status[p] = "draft")
        BY <1>1, <4>1 DEF Believes
      <4>5. Believes(c, p, Expected(p))'
        BY <4>1, <4>2, <4>3, <4>4 DEF Believes, Waiting
      <4> QED BY <2>1, <2>3, <3>3, <4>5, StillUnsent
    <3> QED BY <3>2, <3>3
  <2> QED BY <2>2, <2>3
<1> QED BY <1>3, <1>4, <1>5 DEF SocketInv

\* A call over the socket: its event is unsent, and the only one.
LEMMA CallInv ==
  ASSUME SocketInv, StatusTyped, NEW c \in Clients, NEW p \in Orders, NEW op \in FlowOps,
         Call(c, p, op)
  PROVE  SocketInv'
<1> DEFINE chore == [order |-> p, says |-> Says(op), step |-> "send"]
<1>1. /\ c \in Joined /\ task[c] = NoTask /\ ~Locked(p)
      /\ op = "create" => Fresh(p)
      /\ Flow(p, op)
      /\ task' = [task EXCEPT ![c] = chore]
      /\ Doubt(IF Emptied(p, op) THEN Clients ELSE Overtakers(p), p)
      /\ UNCHANGED <<conn, told, inbox, rest, swept>>
  BY DEF Call, Joined
<1>2. chore \in Chores /\ chore # NoTask
  <2>1. chore \in Chores
    BY DEF Chores, Says, Words, FlowOps
  <2> QED BY <2>1, TaskAssumption DEF Chores, Words
<1>3. chore.order = p /\ chore.says = Says(op) /\ chore.step = "send"
  OBVIOUS
<1> HIDE DEF chore
<1>4. \A d \in Clients :
        stale'[d] = IF d \in Joined /\ (Emptied(p, op) \/ Unsent(p))
                    THEN stale[d] \cup {p} ELSE stale[d]
  BY <1>1 DEF Doubt, Overtakers
<1>5. stale' \in [Clients -> SUBSET Orders]
  BY <1>1 DEF Doubt, SocketInv, SocketTypeOK
<1>6. SocketTypeOK' /\ Joined' = Joined
  BY <1>1, <1>2, <1>5 DEF SocketInv, SocketTypeOK, Joined
<1>7. Quiet'
  BY <1>1, <1>6 DEF SocketInv, SocketTypeOK, Quiet
<1>8. TasksTrue'
  <2> SUFFICES ASSUME NEW d \in Clients, task'[d] # NoTask, task'[d].says = "expired"
               PROVE  status'[task'[d].order] = "absent"
    BY DEF TasksTrue
  <2>1. CASE d = c
    BY <1>1, <1>3, <2>1, FlowStatus DEF SocketInv, SocketTypeOK
  <2>2. CASE d # c
    <3>1. task'[d] = task[d] /\ task[d].order \in Orders /\ status[task[d].order] = "absent"
      BY <1>1, <2>2 DEF SocketInv, SocketTypeOK, Chores, TasksTrue
    <3>2. task[d].order # p
      BY <1>1, <3>1, FlowStatus DEF Fresh, Serving
    <3> QED BY <1>1, <3>1, <3>2, FlowStatus
  <2> QED BY <2>1, <2>2
<1>9. NewUnserved'
  BY <1>1, <1>3 DEF NewUnserved, SocketInv, SocketTypeOK, Serving, Locked
<1>10. ASSUME NEW d \in Clients, NEW o \in Orders
       PROVE  Fine(d, o)'
  <2>1. CASE o # p
    <3>1. Still(o)
      BY <1>1, <1>3, <2>1, FlowStatus DEF Still, Locked, Sending, Serving, SocketInv, SocketTypeOK
    <3>2. Keeps(d, o)
      BY <1>1, <1>4, <1>6, <2>1 DEF Keeps, Believes, Waiting
    <3> QED BY <3>1, <3>2, Undisturbed DEF SocketInv
  <2>2. CASE o = p
    <3> SUFFICES ASSUME d \in Joined, p \notin stale'[d]
                 PROVE  Unsent(p)' /\ OneSender(p)'
      BY <1>6, <2>2 DEF Fine
    <3>1. ~Emptied(p, op) /\ ~Unsent(p)
      BY <1>4
    <3>2. \A x \in Clients : Sending(x, p)' <=> x = c
      BY <1>1, <1>2, <1>3, <3>1 DEF Sending, Serving, Unsent, SocketInv, SocketTypeOK
    <3>3. p \notin swept' /\ ~Locked(p)'
      BY <1>1, <3>1 DEF Unsent, Locked
    <3>4. task'[c].says = "draft" <=> status'[p] = "draft"
      BY <1>1, <1>3, <3>1, FlowStatus DEF SocketInv, SocketTypeOK
    <3>5. Unsent(p)'
      BY <3>2 DEF Unsent, Sending, Serving
    <3> QED BY <3>2, <3>3, <3>4, <3>5 DEF OneSender
  <2> QED BY <2>1, <2>2
<1> QED BY <1>6, <1>7, <1>8, <1>9, <1>10 DEF SocketInv

\* The broadcast of a call: the only event there was is on its way.
LEMMA BroadcastInv ==
  ASSUME SocketInv, NEW c \in Clients, Broadcast(c)
  PROVE  SocketInv'
<1>1. PICK p \in Orders, w \in Words, chore \in Chores :
        /\ task[c] # NoTask /\ task[c].step = "send"
        /\ task[c].order = p /\ task[c].says = w
        /\ chore.order = p /\ chore.says = w /\ chore.step = "answer"
        /\ Send(p, w, {})
        /\ task' = [task EXCEPT ![c] = chore]
        /\ UNCHANGED <<status, conn, told, rest, swept>>
  <2>1. task[c] \in Chores
    BY DEF Broadcast, SocketInv, SocketTypeOK
  <2>2. /\ [task[c] EXCEPT !.step = "answer"] \in Chores
        /\ [task[c] EXCEPT !.step = "answer"].order = task[c].order
        /\ [task[c] EXCEPT !.step = "answer"].says = task[c].says
        /\ [task[c] EXCEPT !.step = "answer"].step = "answer"
        /\ task[c].order \in Orders /\ task[c].says \in Words
    BY <2>1 DEF Chores
  <2>3. /\ task[c] # NoTask /\ task[c].step = "send"
        /\ Send(task[c].order, task[c].says, {})
        /\ task' = [task EXCEPT ![c] = [task[c] EXCEPT !.step = "answer"]]
        /\ UNCHANGED <<status, conn, told, rest, swept>>
    BY DEF Broadcast, vars, SocketInv, SocketTypeOK
  <2> QED BY <2>2, <2>3
<1>3. chore # NoTask
  BY TaskAssumption DEF Chores, Words
<1>4. c \in Joined /\ Sending(c, p) /\ Unsent(p)
  BY <1>1 DEF SocketInv, Quiet, Sending, Serving, Unsent
<1>5. /\ task'[c] = chore /\ \A d \in Clients : d # c => task'[d] = task[d]
      /\ task' \in [Clients -> Chores \cup {NoTask}]
  BY <1>1, <1>3 DEF SocketInv, SocketTypeOK
<1>6. SocketTypeOK' /\ Joined' = Joined
  BY <1>1, <1>5, Sent DEF SocketInv, SocketTypeOK, Joined
<1>7. Quiet'
  BY <1>1, <1>4, <1>5, <1>6, Sent DEF SocketInv, Quiet
<1>8. TasksTrue' /\ NewUnserved'
  BY <1>1, <1>3, <1>5 DEF SocketInv, TasksTrue, NewUnserved, Serving
<1>9. ASSUME NEW d \in Clients, NEW o \in Orders
      PROVE  Fine(d, o)'
  <2>1. CASE o # p
    <3>1. Still(o)
      BY <1>1, <1>3, <1>5, <2>1 DEF Still, Locked, Sending, Serving
    <3>2. Keeps(d, o)
      BY <1>1, <2>1, SentKeeps DEF SocketInv
    <3> QED BY <3>1, <3>2, Undisturbed DEF SocketInv
  <2>2. CASE o = p
    <3> SUFFICES ASSUME d \in Joined, p \notin stale'[d]
                 PROVE  ~Unsent(p)' /\ Believes(d, p, Expected(p))'
      BY <1>6, <2>2 DEF Fine
    <3>1. /\ p \notin stale[d] /\ Waiting(d, p)'
          /\ \A b \in BOOLEAN : (w = "draft" <=> b) => LastTells(inbox'[d], p, b)
      BY <1>1, Sent DEF SocketInv
    <3>2. OneSender(p)
      BY <1>4, <3>1 DEF SocketInv, Fine, Joined
    <3>3. ~Unsent(p)'
      <4>1. p \notin swept
        BY <1>4, <3>2 DEF OneSender
      <4>2. \A x \in Clients : Sending(x, p) => x = c
        BY <1>4, <3>2 DEF OneSender
      <4> QED BY <1>1, <1>3, <1>5, <4>1, <4>2 DEF Unsent, Sending, Serving
    <3>4. (w = "draft" <=> status[p] = "draft") /\ ~Locked(p)
      BY <1>1, <1>4, <3>2 DEF OneSender
    <3>5. Expected(p)' = (status[p] = "draft")
      BY <1>1, <3>4 DEF Expected, Locked
    <3>6. LastTells(inbox'[d], p, status[p] = "draft")
      BY <3>1, <3>4
    <3>7. Believes(d, p, Expected(p))'
      BY <3>1, <3>5, <3>6 DEF Believes
    <3> QED BY <3>3, <3>7
  <2> QED BY <2>1, <2>2
<1> QED BY <1>6, <1>7, <1>8, <1>9 DEF SocketInv


-----------------------------------------------------------------------------
\* REST requests and offline orders

\* A REST request announces what there is to be told from now on.
LEMMA AnnounceInv ==
  ASSUME SocketInv, NEW p \in Orders, NEW op \in FlowOps, Announce(p, op)
  PROVE  SocketInv'
<1> DEFINE errand == [order |-> p, op |-> op, heard |-> Joined]
<1>1. PICK w \in Words :
        /\ w = Says(op)
        /\ rest = NoTask /\ rest' = errand
        /\ op = "create" => Fresh(p)
        /\ Send(p, w, Overtakers(p))
        /\ UNCHANGED <<status, conn, told, task, swept>>
  <2>1. Says(op) \in Words
    BY DEF Says, Words, FlowOps
  <2> QED BY <2>1 DEF Announce, vars
<1>2. errand \in Errands /\ errand # NoTask
  BY TaskAssumption DEF Errands, FlowOps, Joined
<1>3. errand.order = p /\ errand.op = op
  OBVIOUS
<1> HIDE DEF errand
<1>4. SocketTypeOK' /\ Joined' = Joined
  BY <1>1, <1>2, Sent DEF SocketInv, SocketTypeOK, Joined
<1>5. Quiet' /\ TasksTrue'
  BY <1>1, <1>4, Sent DEF SocketInv, Quiet, TasksTrue
<1>6. NewUnserved'
  BY <1>1, <1>3 DEF NewUnserved, Fresh, Serving
<1>7. ASSUME NEW d \in Clients, NEW o \in Orders
      PROVE  Fine(d, o)'
  <2>1. CASE o # p
    <3>1. Still(o)
      BY <1>1, <1>3, <2>1 DEF Still, Locked, Sending, Serving
    <3>2. Keeps(d, o)
      BY <1>1, <2>1, SentKeeps DEF SocketInv
    <3> QED BY <3>1, <3>2, Undisturbed DEF SocketInv
  <2>2. CASE o = p
    <3> SUFFICES ASSUME d \in Joined, p \notin stale'[d]
                 PROVE  ~Unsent(p)' /\ Believes(d, p, Expected(p))'
      BY <1>4, <2>2 DEF Fine
    <3>1. /\ d \notin Overtakers(p) /\ Waiting(d, p)'
          /\ \A b \in BOOLEAN : (w = "draft" <=> b) => LastTells(inbox'[d], p, b)
      BY <1>1, Sent DEF SocketInv
    <3>2. ~Unsent(p)'
      BY <1>1, <3>1 DEF Overtakers, Unsent, Joined
    <3>3. Expected(p)' = (w = "draft")
      BY <1>1, <1>2, <1>3 DEF Expected, Locked
    <3>4. LastTells(inbox'[d], p, w = "draft")
      BY <3>1
    <3>5. Believes(d, p, Expected(p))'
      BY <3>1, <3>3, <3>4 DEF Believes
    <3> QED BY <3>2, <3>5
  <2> QED BY <2>1, <2>2
<1> QED BY <1>4, <1>5, <1>6, <1>7 DEF SocketInv

\* The commit makes true what was announced, or leaves doubt.
LEMMA CommitInv ==
  ASSUME SocketInv, StatusTyped, Commit
  PROVE  SocketInv'
<1>1. PICK p \in Orders, op \in FlowOps :
        /\ rest # NoTask /\ rest.order = p /\ rest.op = op
        /\ Flow(p, op)
        /\ Doubt(IF Emptied(p, op) THEN Clients ELSE Clients \ rest.heard, p)
        /\ rest' = NoTask
        /\ UNCHANGED <<conn, told, inbox, task, swept>>
  BY DEF Commit, SocketInv, SocketTypeOK, Errands
<1>2. \A d \in Clients : stale'[d] = stale[d] \/ stale'[d] = stale[d] \cup {p}
  BY <1>1 DEF Doubt
<1>3. \A d \in Clients : d \in Joined /\ Emptied(p, op) => p \in stale'[d]
  BY <1>1 DEF Doubt
<1>4. stale' \in [Clients -> SUBSET Orders]
  BY <1>1 DEF Doubt, SocketInv, SocketTypeOK
<1>5. SocketTypeOK' /\ Joined' = Joined
  BY <1>1, <1>4 DEF SocketInv, SocketTypeOK, Joined
<1>6. Quiet' /\ NewUnserved'
  BY <1>1, <1>5 DEF SocketInv, Quiet, NewUnserved
<1>7. TasksTrue'
  <2> SUFFICES ASSUME NEW d \in Clients, task[d] # NoTask, task[d].says = "expired"
               PROVE  status'[task[d].order] = "absent"
    BY <1>1 DEF TasksTrue
  <2>1. task[d].order \in Orders /\ status[task[d].order] = "absent"
    BY DEF SocketInv, SocketTypeOK, Chores, TasksTrue
  <2>2. task[d].order # p
    BY <1>1, <2>1, FlowStatus DEF SocketInv, NewUnserved, Serving
  <2> QED BY <1>1, <2>1, <2>2, FlowStatus
<1>8. ASSUME NEW d \in Clients, NEW o \in Orders
      PROVE  Fine(d, o)'
  <2>1. CASE o # p
    <3>1. Still(o)
      BY <1>1, <2>1, FlowStatus DEF Still, Locked, Sending, Serving
    <3>2. Keeps(d, o)
      BY <1>1, <1>2, <1>5, <2>1 DEF Keeps, Believes, Waiting
    <3> QED BY <3>1, <3>2, Undisturbed DEF SocketInv
  <2>2. CASE o = p
    <3> SUFFICES ASSUME d \in Joined, p \notin stale'[d]
                 PROVE  ~Unsent(p)' /\ Believes(d, p, Expected(p))'
      BY <1>5, <2>2 DEF Fine
    <3>1. p \notin stale[d] /\ ~Emptied(p, op) /\ Locked(p)
      BY <1>1, <1>2, <1>3 DEF Locked
    <3>2. ~Unsent(p)
      BY <3>1 DEF SocketInv, Fine, OneSender
    <3>3. Believes(d, p, Says(op) = "draft")
      BY <1>1, <3>1, <3>2 DEF SocketInv, Fine, Expected
    <3>4. Expected(p)' = (status'[p] = "draft")
      BY <1>1 DEF Expected, Locked
    <3>5. Expected(p)' = (Says(op) = "draft")
      BY <1>1, <3>1, <3>4, FlowStatus
    <3>6. Believes(d, p, Expected(p))'
      BY <1>1, <3>3, <3>5 DEF Believes, Waiting
    <3>7. ~Unsent(p)'
      BY <1>1, <3>2 DEF Unsent
    <3> QED BY <3>6, <3>7
  <2> QED BY <2>1, <2>2
<1> QED BY <1>5, <1>6, <1>7, <1>8 DEF SocketInv

\* A rollback leaves everybody in doubt.
LEMMA RollbackInv ==
  ASSUME SocketInv, Rollback
  PROVE  SocketInv'
<1>1. PICK p \in Orders :
        /\ rest # NoTask /\ rest.order = p
        /\ Doubt(Clients, p)
        /\ rest' = NoTask
        /\ UNCHANGED <<status, conn, told, inbox, task, swept>>
  BY DEF Rollback, SocketInv, SocketTypeOK, Errands, vars
<1>2. \A d \in Clients : stale'[d] = IF d \in Joined THEN stale[d] \cup {p} ELSE stale[d]
  BY <1>1 DEF Doubt
<1>3. stale' \in [Clients -> SUBSET Orders]
  BY <1>1 DEF Doubt, SocketInv, SocketTypeOK
<1>4. SocketTypeOK' /\ Joined' = Joined
  BY <1>1, <1>3 DEF SocketInv, SocketTypeOK, Joined
<1>5. Quiet' /\ TasksTrue' /\ NewUnserved'
  BY <1>1, <1>4 DEF SocketInv, Quiet, TasksTrue, NewUnserved
<1>6. ASSUME NEW d \in Clients, NEW o \in Orders
      PROVE  Fine(d, o)'
  <2>1. CASE o # p
    <3>1. Still(o)
      BY <1>1, <2>1 DEF Still, Locked, Sending, Serving
    <3>2. Keeps(d, o)
      BY <1>1, <1>2, <1>4, <2>1 DEF Keeps, Believes, Waiting
    <3> QED BY <3>1, <3>2, Undisturbed DEF SocketInv
  <2>2. CASE o = p
    BY <1>2, <1>4, <2>2 DEF Fine
  <2> QED BY <2>1, <2>2
<1> QED BY <1>4, <1>5, <1>6 DEF SocketInv

\* An offline order was never a draft to anyone.
LEMMA OfflineInv ==
  ASSUME SocketInv, StatusTyped, NEW p \in Orders, Offline(p)
  PROVE  SocketInv'
<1>1. PICK placed \in Placed : status' = [status EXCEPT ![p] = placed]
  BY DEF Offline, SyncOffline
<1>2. Fresh(p) /\ UNCHANGED <<conn, told, inbox, task, rest, swept, stale>>
  BY DEF Offline, socketVars
<1>3. SocketTypeOK' /\ Quiet' /\ NewUnserved' /\ Joined' = Joined
  BY <1>2 DEF SocketInv, SocketTypeOK, Quiet, NewUnserved, Serving, Joined
<1>4. TasksTrue'
  <2> SUFFICES ASSUME NEW d \in Clients, task[d] # NoTask, task[d].says = "expired"
               PROVE  status'[task[d].order] = "absent"
    BY <1>2 DEF TasksTrue
  <2>1. task[d].order \in Orders /\ status[task[d].order] = "absent" /\ task[d].order # p
    BY <1>2 DEF SocketInv, SocketTypeOK, Chores, TasksTrue, Fresh, Serving
  <2> QED BY <1>1, <2>1 DEF StatusTyped
<1>5. ASSUME NEW d \in Clients, NEW o \in Orders
      PROVE  Fine(d, o)'
  <2>1. CASE o # p
    <3>1. Still(o)
      BY <1>1, <1>2, <2>1 DEF Still, Locked, Sending, Serving, StatusTyped
    <3>2. Keeps(d, o)
      BY <1>2, <1>3 DEF Keeps, Believes, Waiting
    <3> QED BY <3>1, <3>2, Undisturbed DEF SocketInv
  <2>2. CASE o = p
    <3>1. ~Unsent(p)'
      BY <1>2 DEF Fresh, Unsent
    <3>2. Expected(p)' = FALSE
      BY <1>1, <1>2 DEF Fresh, Expected, Locked, StatusTyped, Placed
    <3>3. LastTells(inbox'[d], p, FALSE) /\ p \notin told'[d]
      BY <1>2 DEF Fresh, Waiting, LastTells
    <3>4. Believes(d, p, Expected(p))'
      BY <3>2, <3>3 DEF Believes
    <3> QED BY <2>2, <3>1, <3>4 DEF Fine
  <2> QED BY <2>1, <2>2
<1> QED BY <1>3, <1>4, <1>5 DEF SocketInv


-----------------------------------------------------------------------------
\* Sweeps

\* A draft that the beat task deletes is unsent until it is pushed.
LEMMA ExpireInv ==
  ASSUME SocketInv, StatusTyped, NEW s \in Sweepers, NEW p \in Orders, Expire1(s, p)
  PROVE  SocketInv'
<1>1. /\ ~Locked(p)
      /\ UNCHANGED <<conn, told, inbox, task, rest>>
      /\ swept' = IF Expired(p) /\ s = Beat THEN swept \cup {p} ELSE swept
      /\ Doubt(IF Expired(p) /\ s # Beat THEN Clients
               ELSE IF Expired(p) THEN Overtakers(p) ELSE {}, p)
  BY DEF Expire1
<1>2. status' = IF Expired(p) THEN [status EXCEPT ![p] = "absent"] ELSE status
  BY DEF Expire1, SweepOne, ReleaseAndDelete
<1>3. \A d \in Clients :
        stale'[d] = IF d \in Joined /\ Expired(p) /\ (s # Beat \/ Unsent(p))
                    THEN stale[d] \cup {p} ELSE stale[d]
  BY <1>1 DEF Doubt, Overtakers
<1>4. stale' \in [Clients -> SUBSET Orders]
  BY <1>1 DEF Doubt, SocketInv, SocketTypeOK
<1>5. SocketTypeOK' /\ Joined' = Joined
  BY <1>1, <1>4 DEF SocketInv, SocketTypeOK, Joined
<1>6. Quiet' /\ NewUnserved'
  BY <1>1, <1>5 DEF SocketInv, Quiet, NewUnserved, Serving
<1>7. TasksTrue'
  <2> SUFFICES ASSUME NEW d \in Clients, task[d] # NoTask, task[d].says = "expired"
               PROVE  status'[task[d].order] = "absent"
    BY <1>1 DEF TasksTrue
  <2>1. task[d].order \in Orders /\ status[task[d].order] = "absent"
    BY DEF SocketInv, SocketTypeOK, Chores, TasksTrue
  <2> QED BY <1>2, <2>1 DEF StatusTyped
<1>8. ASSUME NEW d \in Clients, NEW o \in Orders
      PROVE  Fine(d, o)'
  <2>1. CASE o # p \/ ~Expired(p)
    <3>1. Still(o)
      BY <1>1, <1>2, <2>1 DEF Still, Locked, Sending, Serving, StatusTyped
    <3>2. Keeps(d, o)
      BY <1>1, <1>3, <1>5, <2>1 DEF Keeps, Believes, Waiting
    <3> QED BY <3>1, <3>2, Undisturbed DEF SocketInv
  <2>2. CASE o = p /\ Expired(p)
    <3> SUFFICES ASSUME d \in Joined, p \notin stale'[d]
                 PROVE  Unsent(p)' /\ OneSender(p)'
      BY <1>5, <2>2 DEF Fine
    <3>1. s = Beat /\ ~Unsent(p)
      BY <1>3, <2>2
    <3>2. p \in swept' /\ status'[p] = "absent" /\ ~Locked(p)'
      BY <1>1, <1>2, <2>2, <3>1 DEF StatusTyped, Locked
    <3>3. \A x \in Clients : ~Sending(x, p)'
      BY <1>1, <3>1 DEF Unsent, Sending, Serving
    <3> QED BY <3>2, <3>3 DEF OneSender, Unsent
  <2> QED BY <2>1, <2>2
<1> QED BY <1>5, <1>6, <1>7, <1>8 DEF SocketInv

\* The push of a swept order.
LEMMA PushInv ==
  ASSUME SocketInv, NEW p \in Orders, Push(p)
  PROVE  SocketInv'
<1>1. PICK w \in Words :
        /\ w = "expired" /\ p \in swept /\ swept' = swept \ {p}
        /\ Send(p, w, {})
        /\ UNCHANGED <<status, conn, told, task, rest>>
  BY DEF Push, Words, vars
<1>2. SocketTypeOK' /\ Joined' = Joined
  BY <1>1, Sent DEF SocketInv, SocketTypeOK, Joined
<1>3. Quiet' /\ TasksTrue' /\ NewUnserved'
  BY <1>1, <1>2, Sent DEF SocketInv, Quiet, TasksTrue, NewUnserved, Serving
<1>4. ASSUME NEW d \in Clients, NEW o \in Orders
      PROVE  Fine(d, o)'
  <2>1. CASE o # p
    <3>1. Still(o)
      BY <1>1, <2>1 DEF Still, Locked, Sending, Serving
    <3>2. Keeps(d, o)
      BY <1>1, <2>1, SentKeeps DEF SocketInv
    <3> QED BY <3>1, <3>2, Undisturbed DEF SocketInv
  <2>2. CASE o = p
    <3> SUFFICES ASSUME d \in Joined, p \notin stale'[d]
                 PROVE  ~Unsent(p)' /\ Believes(d, p, Expected(p))'
      BY <1>2, <2>2 DEF Fine
    <3>1. p \notin stale[d] /\ Waiting(d, p)' /\ LastTells(inbox'[d], p, FALSE)
      BY <1>1, Sent DEF SocketInv
    <3>2. OneSender(p)
      BY <1>1, <3>1 DEF SocketInv, Fine, Unsent, Joined
    <3>3. ~Unsent(p)'
      BY <1>1, <3>2 DEF OneSender, Unsent, Sending, Serving
    <3>4. Expected(p)' = FALSE
      BY <1>1, <3>2 DEF OneSender, Expected, Locked
    <3>5. Believes(d, p, Expected(p))'
      BY <3>1, <3>4 DEF Believes
    <3> QED BY <3>3, <3>5
  <2> QED BY <2>1, <2>2
<1> QED BY <1>2, <1>3, <1>4 DEF SocketInv

\* A sweep that is cut off takes its events with it.
LEMMA CutInv ==
  ASSUME SocketInv, NEW s \in Sweepers, Cut(s)
  PROVE  SocketInv'
<1>1. UNCHANGED <<status, conn, told, inbox, task, rest>>
  BY DEF Cut, SweepAbort, vars
<1>2. CASE s # Beat
  BY <1>1, <1>2, IdleInv DEF Cut
<1>3. CASE s = Beat
  <2>1. /\ swept' = {}
        /\ stale' = [c \in Clients |-> IF c \in Joined THEN stale[c] \cup swept ELSE stale[c]]
    BY <1>3 DEF Cut, LoseSwept
  <2>2. SocketTypeOK' /\ Joined' = Joined
    BY <1>1, <2>1 DEF SocketInv, SocketTypeOK, Joined
  <2>3. Quiet' /\ TasksTrue' /\ NewUnserved'
    BY <1>1, <2>2 DEF SocketInv, Quiet, TasksTrue, NewUnserved, Serving
  <2>4. ASSUME NEW d \in Clients, NEW o \in Orders
        PROVE  Fine(d, o)'
    <3> SUFFICES ASSUME d \in Joined, o \notin stale'[d] PROVE Fine(d, o)'
      BY <2>2 DEF Fine
    <3>1. Still(o)
      BY <1>1, <2>1 DEF Still, Locked, Sending, Serving
    <3>2. Keeps(d, o)
      BY <1>1, <2>1, <2>2 DEF Keeps, Believes, Waiting
    <3> QED BY <3>1, <3>2, Undisturbed DEF SocketInv
  <2> QED BY <2>2, <2>3, <2>4 DEF SocketInv
<1> QED BY <1>2, <1>3

-----------------------------------------------------------------------------
LEMMA SocketInvInit == OInit => SocketInv
<1> SUFFICES ASSUME OInit PROVE SocketInv
  OBVIOUS
<1>1. SocketTypeOK
  BY DEF OInit, SocketTypeOK
<1>2. Quiet /\ TasksTrue /\ NewUnserved /\ Joined = {}
  BY DEF OInit, Quiet, TasksTrue, NewUnserved, Joined
<1> QED BY <1>1, <1>2 DEF SocketInv, Fine

\* Every step of the composition keeps the invariant.
LEMMA SocketInvStep ==
  ASSUME SocketInv, StatusTyped, [ONext]_ovars
  PROVE  SocketInv'
<1>1. CASE UNCHANGED ovars
  BY <1>1, IdleInv DEF ovars, socketVars, vars
<1>2. ASSUME NEW c \in Clients, \/ Connect(c) \/ Connected(c) \/ ListDrafts(c)
                                \/ Disconnect(c) \/ Kill(c) \/ Deliver(c)
      PROVE  SocketInv'
  BY <1>2, ConnectInv, ListedInv, DisconnectInv, KillInv, RelayInv
<1>3. ASSUME NEW c \in Clients, \/ Broadcast(c) \/ Answer(c)
                                \/ \E o \in Orders : Get(c, o) \/ Shorten(c, o)
                                \/ \E o \in Orders, op \in FlowOps : Call(c, o, op)
      PROVE  SocketInv'
  BY <1>3, BroadcastInv, AnswerInv, ShortenInv, CallInv
<1>4. ASSUME NEW o \in Orders, Push(o) \/ Offline(o) \/ \E op \in FlowOps : Announce(o, op)
      PROVE  SocketInv'
  BY <1>4, PushInv, OfflineInv, AnnounceInv
<1>5. CASE Commit \/ Rollback
  BY <1>5, CommitInv, RollbackInv
<1>6. CASE Recount \/ \E o \in Orders : TimeUp(o)
  BY <1>6, IdleInv DEF Recount, TimeUp, AdjustStock, ExpiryPasses, socketVars
<1>7. ASSUME NEW s \in Sweepers, Collect(s) \/ Cut(s) \/ \E o \in Orders : Expire1(s, o)
      PROVE  SocketInv'
  <2>1. CASE Collect(s)
    BY <2>1, IdleInv DEF Collect, SweepCollect, socketVars
  <2> QED BY <1>7, <2>1, CutInv, ExpireInv
<1> QED BY <1>1, <1>2, <1>3, <1>4, <1>5, <1>6, <1>7 DEF ONext

\* With nothing on its way, the invariant is the property.
LEMMA InvTellsTruth == SocketInv => LastWordTrue
<1> SUFFICES ASSUME SocketInv, NEW c \in Clients, NEW o \in Orders,
                    conn[c] = "open", o \notin stale[c], ~OnItsWay(c, o)
             PROVE  o \in told[c] <=> status[o] = "draft"
  BY DEF LastWordTrue
<1>1. c \in Joined /\ ~Unsent(o) /\ ~Locked(o) /\ ~Waiting(c, o)
  BY DEF Joined, OnItsWay
<1>2. Believes(c, o, status[o] = "draft")
  BY <1>1 DEF SocketInv, Fine, Expected
<1> QED BY <1>1, <1>2 DEF Believes

\* Over any number of orders, connections and requests: when nothing about an
\* order is on its way any more, the last word an open connection has heard on
\* it is true, but for the exceptions that LastWordTrue names, which are the
\* places where the broadcasts of orders/realtime.py may leave it wrong.
THEOREM LastWordCorrect == OSpec => []LastWordTrue
<1>1. OSpec => []TypeOK
  BY SocketRunsFlow, TypeCorrect, PTL
<1>2. TypeOK => StatusTyped
  BY DEF TypeOK, StatusTyped
<1>3. OSpec => []SocketInv
  BY <1>1, <1>2, SocketInvInit, SocketInvStep, PTL DEF OSpec
<1> QED BY <1>3, InvTellsTruth, PTL

-----------------------------------------------------------------------------
\* The back office, whatever its requests: types

RowStatus == OrderStatus \cup {"absent"}
Moments   == {"none", "future", "past"}
NoPieces  == [v \in Variants |-> 0]

\* What a request keeps in memory.
PickSets == UNION {[is -> 0..MaxQty] : is \in SUBSET (Groups \X Variants)}
Tasks ==
  [op : Ops \ {"track"}, o : Orders, picks : PickSets, written : BOOLEAN,
   target : OrderStatus \cup {"same"}, exp : Moments, approval : BOOLEAN]

\* Columns that every request may overwrite.  The shelf is only known to be an
\* integer here: requests that overlap may take what is not on it.
RowTypeOK ==
  /\ status \in [Orders -> RowStatus]
  /\ exp \in [Orders -> Moments]
  /\ stock \in [Variants -> Int]

BackTypeOK ==
  /\ packed \in [Groups -> [Variants -> 0..MaxQty]]
  /\ approval \in [Orders -> BOOLEAN]
  /\ dispatch \in [Orders -> {"none", "sent", "arrived"}]
  /\ shipped \in [Orders -> [Variants -> Nat]]
  /\ sales \in [Orders -> Nat]
  /\ hand \in [Requests -> Tasks \cup {NoRequest}]
  /\ \A r \in Requests : hand[r] # NoRequest =>
       (hand[r].op = "status" => hand[r].target \in OrderStatus)

\* The packed pieces of an order are finitely many.
LEMMA PackedFinite ==
  ASSUME NEW o, NEW v
  PROVE  IsFiniteSet(PackedUnits(o, v)) /\ Cardinality(PackedUnits(o, v)) \in Nat
<1>1. PackedUnits(o, v) \subseteq Pieces(packed, v)
  BY DEF PackedUnits, Pieces
<1> QED
  BY <1>1, PiecesFinite, FS_Subset, FS_CardinalityType

\* The draft flow keeps the columns in their types.
LEMMA FlowRowTypes ==
  ASSUME RowTypeOK, [Next]_vars
  PROVE  RowTypeOK'
<1>0. \A v \in Variants : stock[v] \in Int
  BY DEF RowTypeOK
<1>1. ASSUME NEW o \in Orders, Mutate(o)
      PROVE  RowTypeOK'
  <2>1. ASSUME NEW g \in Groups, NEW sizes \in SUBSET Variants, RemoveItem(o, g, sizes)
        PROVE  RowTypeOK'
    BY <2>1 DEF RemoveItem, RowTypeOK, RowStatus, OrderStatus, Moments
  <2>2. CASE \E gs \in SUBSET Groups : \E lines \in [gs -> OfflineItems], placed \in Placed :
               SyncOffline(o, lines, placed)
    BY <2>2 DEF SyncOffline, RowTypeOK, RowStatus, OrderStatus, Placed
  <2>3. CASE \E placed \in Placed : Submit(o, placed)
    BY <2>3 DEF Submit, RowTypeOK, RowStatus, OrderStatus, Moments, Placed
  <2> QED
    BY <1>1, <2>1, <2>2, <2>3 DEF Mutate, CreateDraft, AddItem, Book, UpdateQuantity, Discard,
       ReleaseAndDelete, RowTypeOK, RowStatus, OrderStatus, Moments
<1>2. ASSUME NEW s \in Sweepers, Sweep(s)
      PROVE  RowTypeOK'
  BY <1>2 DEF Sweep, SweepCollect, SweepOne, SweepAbort, ReleaseAndDelete, RowTypeOK, RowStatus,
     Moments
<1>3. ASSUME NEW v \in Variants, NEW d \in (-MaxStock)..MaxStock, AdjustStock(v, d)
      PROVE  RowTypeOK'
  <2>1. d \in Int
    BY BoundsAssumption
  <2> QED
    BY <1>0, <1>3, <2>1 DEF AdjustStock, RowTypeOK
<1> QED
  BY <1>1, <1>2, <1>3 DEF Next, Expire, ExpiryPasses, ShortenEmptyDraft, vars, RowTypeOK, Moments

\* So do the rows that go with an order.
LEMMA DraftStepTypes ==
  ASSUME RowTypeOK, BackTypeOK, DraftStep
  PROVE  RowTypeOK' /\ BackTypeOK'
<1>1. RowTypeOK'
  BY FlowRowTypes DEF DraftStep
<1>2. packed' \in [Groups -> [Variants -> 0..MaxQty]]
  BY BoundsAssumption DEF DraftStep, FollowDraftFlow, BackTypeOK
<1>3. approval' \in [Orders -> BOOLEAN]
  <2>1. PICK required \in BOOLEAN :
          approval' = [o \in Orders |->
            IF status'[o] = "absent" THEN FALSE
            ELSE IF status'[o] = status[o] THEN approval[o]
            ELSE status'[o] = "submitted" /\ required]
    BY DEF DraftStep, FollowDraftFlow
  <2>2. ASSUME NEW o \in Orders
        PROVE  (IF status'[o] = "absent" THEN FALSE
                ELSE IF status'[o] = status[o] THEN approval[o]
                ELSE status'[o] = "submitted" /\ required) \in BOOLEAN
    <3>1. approval[o] \in BOOLEAN
      BY DEF BackTypeOK
    <3> QED
      BY <3>1, Zenon
  <2> QED
    BY <2>1, <2>2, Zenon
<1>4. /\ dispatch' \in [Orders -> {"none", "sent", "arrived"}]
      /\ shipped' \in [Orders -> [Variants -> Nat]]
      /\ sales' \in [Orders -> Nat]
  BY DEF DraftStep, FollowDraftFlow, BackTypeOK
<1>5. hand' = hand
  BY DEF DraftStep, FollowDraftFlow
<1> QED
  BY <1>1, <1>2, <1>3, <1>4, <1>5 DEF BackTypeOK

\* A request that is over, and one that has been read.
LEMMA HandDone ==
  ASSUME BackTypeOK, NEW r \in Requests, Done(r)
  PROVE  /\ hand' \in [Requests -> Tasks \cup {NoRequest}]
         /\ \A s \in Requests : hand'[s] # NoRequest => s # r /\ hand'[s] = hand[s]
         /\ \A s \in Requests : hand'[s] # NoRequest =>
              (hand'[s].op = "status" => hand'[s].target \in OrderStatus)
BY DEF Done, BackTypeOK

LEMMA TaskLoaded ==
  ASSUME RowTypeOK, BackTypeOK, NEW op \in Ops \ {"track"}, NEW o \in Orders,
         NEW new \in Targets(op), NEW picks \in Picks(op, o)
  PROVE  /\ Memory(op, o, new, picks) \in Tasks
         /\ Memory(op, o, new, picks).op = "status" =>
              Memory(op, o, new, picks).target \in OrderStatus
<1>1. picks \in PickSets
  <2>1. Items(o) \subseteq Groups \X Variants
    BY DEF Items
  <2>2. CASE op # "pack"
    <3>1. picks = [i \in {} |-> 0]
      BY <2>2 DEF Picks
    <3>2. picks \in [{} -> 0..MaxQty]
      BY <3>1
    <3> QED
      BY <3>2 DEF PickSets
  <2>3. CASE op = "pack"
    <3>1. PICK is \in (SUBSET Items(o)) \ {{}} : picks \in [is -> 0..MaxQty]
      BY <2>3 DEF Picks
    <3> QED
      BY <2>1, <3>1 DEF PickSets
  <2> QED
    BY <2>2, <2>3
<1>2. new \in OrderStatus \cup {"same"} /\ (op = "status" => new \in OrderStatus)
  BY DEF Targets
<1>3. (IF op \in {"status", "edit"} THEN exp[o] ELSE "none") \in Moments
  BY DEF RowTypeOK, Moments
<1>4. (op \in {"status", "edit"} /\ approval[o]) \in BOOLEAN
  <2>1. approval[o] \in BOOLEAN
    BY DEF BackTypeOK
  <2> QED
    BY <2>1, Zenon
<1> DEFINE full == op \in {"status", "edit"}
           e == IF full THEN exp[o] ELSE "none"
           a == full /\ approval[o]
<1>5. Memory(op, o, new, picks) = [op |-> op, o |-> o, picks |-> picks, written |-> FALSE,
                                   target |-> new, exp |-> e, approval |-> a]
  BY DEF Memory
<1>6. e \in Moments /\ a \in BOOLEAN
  BY <1>3, <1>4
<1> HIDE DEF e, a
<1> QED
  BY <1>1, <1>2, <1>5, <1>6 DEF Tasks

\* Packed quantities after a pack-items request.
LEMMA RepackedType ==
  ASSUME BackTypeOK, NEW p \in PickSets
  PROVE  Repacked(p) \in [Groups -> [Variants -> 0..MaxQty]]
<1>1. PICK is \in SUBSET (Groups \X Variants) : p \in [is -> 0..MaxQty]
  BY DEF PickSets
<1> QED
  BY <1>1 DEF Repacked, BackTypeOK

\* Every step of a request keeps the types.
LEMMA HandleTypes ==
  ASSUME RowTypeOK, BackTypeOK, NEW r \in Requests, Handle(r)
  PROVE  RowTypeOK' /\ BackTypeOK'
<1> DEFINE t == hand[r]
           o == t.o
<1>0. t # NoRequest => /\ o \in Orders /\ t.picks \in PickSets /\ t.exp \in Moments
                       /\ t.approval \in BOOLEAN /\ t.target \in OrderStatus \cup {"same"}
                       /\ t.op = "status" => t.target \in OrderStatus
                       /\ t \in Tasks
  BY DEF BackTypeOK, Tasks
<1>1. ASSUME NEW op \in Ops, NEW p \in Orders, Load(r, op, p)
      PROVE  RowTypeOK' /\ BackTypeOK'
  <2>1. PICK new \in Targets(op), picks \in Picks(op, p) :
          hand' = [hand EXCEPT ![r] = Memory(op, p, new, picks)]
    BY <1>1 DEF Load
  <2>2. /\ Memory(op, p, new, picks) \in Tasks
        /\ Memory(op, p, new, picks).op = "status" =>
             Memory(op, p, new, picks).target \in OrderStatus
    BY <1>1, TaskLoaded DEF Load
  <2>3. /\ hand' \in [Requests -> Tasks \cup {NoRequest}]
        /\ \A s \in Requests : hand'[s] # NoRequest =>
             (hand'[s].op = "status" => hand'[s].target \in OrderStatus)
    BY <2>1, <2>2 DEF BackTypeOK
  <2> QED
    BY <1>1, <2>3 DEF Load, vars, RowTypeOK, BackTypeOK
<1>2. CASE Fails(r)
  BY <1>2, HandDone DEF Fails, vars, RowTypeOK, BackTypeOK
<1>3. CASE CommitCancel(r)
  BY <1>0, <1>3, HandDone DEF CommitCancel, Writing, SetStatusOf, RowTypeOK, BackTypeOK, RowStatus,
     OrderStatus
<1>4. CASE CommitApprove(r)
  BY <1>0, <1>4, HandDone DEF CommitApprove, Writing, SetStatusOf, RowTypeOK, BackTypeOK, RowStatus,
     OrderStatus
<1>5. CASE CommitStatus(r)
  <2>1. status' = [status EXCEPT ![o] = t.target] /\ t.op = "status" /\ t # NoRequest
    BY <1>5 DEF CommitStatus, Writing, SetStatusOf
  <2>2. PICK e \in Restored(t.exp) : exp' = [exp EXCEPT ![o] = e]
    BY <1>5 DEF CommitStatus
  <2>3. e \in Moments
    BY <1>0, <2>1, <2>2 DEF Restored, Moments
  <2>4. RowTypeOK'
    BY <1>0, <1>5, <2>1, <2>2, <2>3 DEF CommitStatus, RowTypeOK, RowStatus
  <2>5. sales' \in [Orders -> Nat]
    BY <1>5 DEF CommitStatus, InvoiceOnce, BackTypeOK
  <2>6. approval' \in [Orders -> BOOLEAN]
    BY <1>0, <1>5, <2>1 DEF CommitStatus, BackTypeOK
  <2> QED
    BY <1>5, <2>4, <2>5, <2>6, HandDone DEF CommitStatus, BackTypeOK
<1>6. CASE CommitEdit(r)
  <2>1. RowTypeOK'
    BY <1>6 DEF CommitEdit, SetStatusOf, RowTypeOK, RowStatus, OrderStatus, Moments
  <2>2. approval' \in [Orders -> BOOLEAN]
    BY <1>0, <1>6 DEF CommitEdit, Writing, BackTypeOK
  <2> QED
    BY <1>6, <2>1, <2>2, HandDone DEF CommitEdit, BackTypeOK
<1>7. CASE WritePack(r)
  <2>1. PICK target \in {"packed", "processing", "same"} :
          hand' = [hand EXCEPT ![r].written = TRUE, ![r].target = target]
    BY <1>7 DEF WritePack
  <2>2. hand'[r] = [t EXCEPT !.written = TRUE, !.target = target]
    BY <2>1 DEF BackTypeOK
  <2>3. t \in Tasks /\ t.op = "pack"
    BY <1>0, <1>7 DEF WritePack, Writing
  <2>4. hand'[r] \in Tasks /\ hand'[r].op = "pack"
    BY <2>2, <2>3 DEF Tasks, OrderStatus
  <2>5. /\ DOMAIN hand' = Requests
        /\ hand' = [s \in Requests |-> hand'[s]]
        /\ \A s \in Requests : s # r => hand'[s] = hand[s]
    BY <2>1 DEF BackTypeOK
  <2>6. hand' \in [Requests -> Tasks \cup {NoRequest}]
    BY <2>4, <2>5 DEF BackTypeOK
  <2>7. \A s \in Requests : hand'[s] # NoRequest =>
          (hand'[s].op = "status" => hand'[s].target \in OrderStatus)
    BY <2>4, <2>5 DEF BackTypeOK
  <2> QED
    BY <1>7, <2>6, <2>7 DEF WritePack, vars, RowTypeOK, BackTypeOK
<1>8. CASE CommitPack(r)
  <2>1. packed' \in [Groups -> [Variants -> 0..MaxQty]]
    BY <1>0, <1>8, RepackedType DEF CommitPack, Writing
  <2>2. status' \in [Orders -> RowStatus]
    BY <1>0, <1>8 DEF CommitPack, Writing, SetStatusOf, RowTypeOK, RowStatus
  <2> QED
    BY <1>8, <2>1, <2>2, HandDone DEF CommitPack, RowTypeOK, BackTypeOK
<1>9. CASE CommitDispatch(r)
  <2> DEFINE out == [v \in Variants |-> Cardinality(PackedUnits(o, v))]
  <2>1. Ship(r, out)
    BY <1>9 DEF CommitDispatch
  <2>2. out \in [Variants -> Nat]
    BY PackedFinite
  <2> HIDE DEF out
  <2>3. stock' \in [Variants -> Int]
    BY <2>1, <2>2 DEF Ship, RowTypeOK
  <2>4. sales' \in [Orders -> Nat] /\ shipped' \in [Orders -> [Variants -> Nat]]
    BY <2>1, <2>2 DEF Ship, InvoiceOnce, BackTypeOK
  <2>5. /\ status' \in [Orders -> RowStatus]
        /\ dispatch' \in [Orders -> {"none", "sent", "arrived"}]
    BY <2>1 DEF Ship, SetStatusOf, RowTypeOK, BackTypeOK, RowStatus, OrderStatus
  <2> QED
    BY <2>1, <2>3, <2>4, <2>5, HandDone DEF Ship, RowTypeOK, BackTypeOK
<1>10. CASE CommitDeliver(r)
  BY <1>10, HandDone DEF CommitDeliver, SetStatusOf, RowTypeOK, BackTypeOK, RowStatus, OrderStatus
<1> QED
  BY <1>1, <1>2, <1>3, <1>4, <1>5, <1>6, <1>7, <1>8, <1>9, <1>10 DEF Handle

LEMMA BackNextTypes == RowTypeOK /\ BackTypeOK /\ [FNext]_allVars => RowTypeOK' /\ BackTypeOK'
<1>1. ASSUME RowTypeOK, BackTypeOK, NEW o \in Orders, Track(o)
      PROVE  RowTypeOK' /\ BackTypeOK'
  BY <1>1 DEF Track, vars, RowTypeOK, BackTypeOK
<1>2. ASSUME RowTypeOK, BackTypeOK, UNCHANGED allVars
      PROVE  RowTypeOK' /\ BackTypeOK'
  BY <1>2 DEF allVars, vars, backVars, RowTypeOK, BackTypeOK
<1> QED
  BY <1>1, <1>2, DraftStepTypes, HandleTypes DEF FNext

LEMMA BackInitTypes == FInit => RowTypeOK /\ BackTypeOK
BY BoundsAssumption DEF FInit, Init, RowTypeOK, BackTypeOK, RowStatus, Moments

\* Requests that overlap may leave the shelf wrong (the run fulfilment_races
\* shows it), but not the types of what they write.
THEOREM BackTypesCorrect == FSpec => [](RowTypeOK /\ BackTypeOK)
BY BackInitTypes, BackNextTypes, PTL DEF FSpec

-----------------------------------------------------------------------------
\* An order is shipped and invoiced once

\* A dispatched order has its invoice, and a row that is gone has nothing
\* shipped: what lets the next step of any request do no harm.
SentOK ==
  /\ \A o \in Orders : dispatch[o] # "none" => sales[o] # 0
  /\ \A o \in Orders : Gone(o) => shipped[o] = NoPieces

OnceStep ==
  \A o \in Orders : dispatch[o] # "none" /\ ~Gone(o)' =>
    /\ shipped'[o] = shipped[o]
    /\ sales'[o] = sales[o]

ShelfStep ==
  \A v \in Variants : stock'[v] # stock[v] =>
    \/ /\ reserved' = reserved
       /\ shipped' = shipped
    \/ \E o \in Orders : /\ dispatch[o] = "none" /\ dispatch'[o] = "sent"
                         /\ stock[v] - stock'[v] = shipped'[o][v]

\* A step that leaves what was recorded and takes no row away.
LEMMA NothingSent ==
  ASSUME SentOK, UNCHANGED <<dispatch, shipped, sales, stock>>,
         \A o \in Orders : Gone(o)' => Gone(o)
  PROVE  SentOK' /\ OnceStep /\ ShelfStep
BY DEF SentOK, OnceStep, ShelfStep

LEMMA DraftStepOnce ==
  ASSUME RowTypeOK, BackTypeOK, SentOK, DraftStep
  PROVE  SentOK' /\ OnceStep /\ ShelfStep
<1>1. /\ dispatch' = [o \in Orders |-> IF status'[o] = "absent" THEN "none" ELSE dispatch[o]]
      /\ shipped' = [o \in Orders |-> IF status'[o] = "absent" THEN NoPieces ELSE shipped[o]]
      /\ sales' = [o \in Orders |-> IF status'[o] = "absent" THEN 0 ELSE sales[o]]
  BY DEF DraftStep, FollowDraftFlow, NoPieces
<1>2. SentOK' /\ OnceStep
  BY <1>1 DEF SentOK, OnceStep, Gone
<1>3. CASE stock' = stock
  BY <1>2, <1>3 DEF ShelfStep
<1>4. ASSUME NEW v \in Variants, NEW d \in (-MaxStock)..MaxStock, AdjustStock(v, d)
      PROVE  ShelfStep
  <2>1. status' = status /\ reserved' = reserved
    BY <1>4 DEF AdjustStock
  <2>2. \A o \in Orders : shipped'[o] = shipped[o]
    BY <1>1, <2>1 DEF SentOK, Gone
  <2>3. shipped' = shipped
    BY <1>1, <2>2 DEF BackTypeOK
  <2> QED
    BY <2>1, <2>3 DEF ShelfStep
<1>5. stock' = stock \/ \E v \in Variants, d \in (-MaxStock)..MaxStock : AdjustStock(v, d)
  <2>1. ASSUME NEW o \in Orders, Mutate(o)
        PROVE  stock' = stock
    BY <2>1 DEF Mutate, CreateDraft, AddItem, Book, RemoveItem, UpdateQuantity, Submit, Discard,
       ReleaseAndDelete, SyncOffline
  <2>2. ASSUME NEW s \in Sweepers, Sweep(s)
        PROVE  stock' = stock
    BY <2>2 DEF Sweep, SweepCollect, SweepOne, SweepAbort, ReleaseAndDelete
  <2> QED
    BY <2>1, <2>2 DEF DraftStep, Next, Expire, ExpiryPasses, ShortenEmptyDraft, vars
<1> QED
  BY <1>2, <1>3, <1>4, <1>5

LEMMA HandleOnce ==
  ASSUME RowTypeOK, BackTypeOK, SentOK, NEW r \in Requests, Handle(r)
  PROVE  SentOK' /\ OnceStep /\ ShelfStep
<1> DEFINE t == hand[r]
           o == t.o
<1>0. t # NoRequest => /\ o \in Orders /\ t.target \in OrderStatus \cup {"same"}
                       /\ t.op = "status" => t.target \in OrderStatus
  BY DEF BackTypeOK, Tasks
<1>1. CASE UNCHANGED <<status, dispatch, shipped, sales, stock>>
  BY <1>1, NothingSent DEF Gone
<1>2. CASE /\ UNCHANGED <<dispatch, shipped, sales, stock>>
           /\ \E new \in OrderStatus : SetStatusOf(o, new)
  <2>1. \A p \in Orders : Gone(p)' => Gone(p)
    BY <1>2 DEF SetStatusOf, Gone, RowTypeOK, OrderStatus
  <2> QED
    BY <1>2, <2>1, NothingSent
<1>3. CASE (\E op \in Ops, p \in Orders : Load(r, op, p)) \/ Fails(r) \/ WritePack(r)
  BY <1>1, <1>3 DEF Load, Fails, WritePack, vars
<1>4. CASE CommitCancel(r) \/ CommitApprove(r) \/ CommitEdit(r)
  BY <1>2, <1>4 DEF CommitCancel, CommitApprove, CommitEdit, OrderStatus
<1>5. CASE CommitPack(r)
  BY <1>0, <1>1, <1>2, <1>5 DEF CommitPack, Writing
<1>6. CASE CommitStatus(r)
  <2>1. /\ o \in Orders /\ t.target \in OrderStatus
        /\ status' = [status EXCEPT ![o] = t.target]
        /\ UNCHANGED <<dispatch, shipped, stock>>
    BY <1>0, <1>6 DEF CommitStatus, Writing, SetStatusOf
  <2>2. \A p \in Orders : Gone(p)' => Gone(p)
    BY <2>1 DEF Gone, RowTypeOK, OrderStatus
  <2>3. \A p \in Orders : sales[p] # 0 => sales'[p] = sales[p]
    BY <1>6 DEF CommitStatus, InvoiceOnce, BackTypeOK
  <2> QED
    BY <2>1, <2>2, <2>3 DEF SentOK, OnceStep, ShelfStep
<1>7. CASE CommitDispatch(r)
  <2> DEFINE out == [v \in Variants |-> Cardinality(PackedUnits(o, v))]
  <2>1. Ship(r, out) /\ dispatch[o] = "none" /\ t # NoRequest
    BY <1>7 DEF CommitDispatch
  <2>2. \A v \in Variants : out[v] \in Nat
    BY PackedFinite
  <2> HIDE DEF out
  <2>3. /\ o \in Orders /\ ~Gone(o)
        /\ dispatch' = [dispatch EXCEPT ![o] = "sent"]
        /\ status' = [status EXCEPT ![o] = "dispatched"]
        /\ stock' = [v \in Variants |-> stock[v] - out[v]]
        /\ shipped' = [shipped EXCEPT ![o] = out]
        /\ sales' = [sales EXCEPT ![o] = IF @ = 0 THEN 1 ELSE @]
    BY <1>0, <2>1 DEF Ship, SetStatusOf, InvoiceOnce
  <2>4. SentOK'
    BY <2>3 DEF SentOK, BackTypeOK, RowTypeOK, Gone
  <2>5. OnceStep
    BY <2>1, <2>3 DEF OnceStep, BackTypeOK
  <2>6. ShelfStep
    <3>1. dispatch'[o] = "sent" /\ shipped'[o] = out
      BY <2>3 DEF BackTypeOK
    <3>2. \A v \in Variants : stock[v] - stock'[v] = out[v]
      BY <2>2, <2>3 DEF RowTypeOK
    <3> QED
      BY <2>1, <2>3, <3>1, <3>2 DEF ShelfStep
  <2> QED
    BY <2>4, <2>5, <2>6
<1>8. CASE CommitDeliver(r)
  <2>1. /\ o \in Orders /\ dispatch[o] # "none" /\ UNCHANGED <<shipped, sales, stock>>
        /\ dispatch' = [dispatch EXCEPT ![o] = "arrived"]
        /\ status' = [status EXCEPT ![o] = "delivered"]
    BY <1>0, <1>8 DEF CommitDeliver, Writing, SetStatusOf
  <2> QED
    BY <2>1 DEF SentOK, OnceStep, ShelfStep, Gone, RowTypeOK, BackTypeOK
<1> QED
  BY <1>3, <1>4, <1>5, <1>6, <1>7, <1>8 DEF Handle

LEMMA FNextOnce ==
  ASSUME RowTypeOK, BackTypeOK, SentOK, [FNext]_allVars
  PROVE  SentOK' /\ (UNCHANGED allVars \/ (OnceStep /\ ShelfStep))
<1>1. ASSUME NEW o \in Orders, Track(o)
      PROVE  SentOK' /\ OnceStep /\ ShelfStep
  BY <1>1 DEF Track, vars, SentOK, OnceStep, ShelfStep, BackTypeOK, Gone
<1>2. CASE UNCHANGED allVars
  BY <1>2 DEF allVars, vars, backVars, SentOK, Gone
<1> QED
  BY <1>1, <1>2, DraftStepOnce, HandleOnce DEF FNext

LEMMA SentCorrect == FSpec => []SentOK
<1>1. FInit => SentOK
  BY DEF FInit, SentOK, NoPieces
<1>2. RowTypeOK /\ BackTypeOK /\ SentOK /\ [FNext]_allVars => SentOK'
  BY FNextOnce
<1> QED
  BY <1>1, <1>2, BackTypesCorrect, PTL DEF FSpec

\* An order has one dispatch and one sales invoice, and neither changes as long
\* as the order exists (Fulfilment's ShippedOnce): for every set of endpoints,
\* any number of requests in flight, on the same order too.
THEOREM ShippedOnceCorrect == FSpec => ShippedOnce
<1>1. RowTypeOK /\ BackTypeOK /\ SentOK /\ [FNext]_allVars =>
        [\A o \in Orders : dispatch[o] # "none" /\ ~Gone(o)' =>
           /\ shipped'[o] = shipped[o]
           /\ sales'[o] = sales[o]]_allVars
  BY FNextOnce DEF OnceStep
<1> QED
  BY <1>1, BackTypesCorrect, SentCorrect, PTL DEF FSpec, ShippedOnce

\* Stock leaves the shelf by a recount or piece for piece by a dispatch
\* (Fulfilment's StockOnlyShipped), whatever else runs.
THEOREM StockOnlyShippedCorrect == FSpec => StockOnlyShipped
<1>1. RowTypeOK /\ BackTypeOK /\ SentOK /\ [FNext]_allVars =>
        [\A v \in Variants : stock'[v] # stock[v] =>
           \/ /\ reserved' = reserved
              /\ shipped' = shipped
           \/ \E o \in Orders : /\ dispatch[o] = "none" /\ dispatch'[o] = "sent"
                                /\ stock[v] - stock'[v] = shipped'[o][v]]_allVars
  BY FNextOnce DEF ShelfStep
<1> QED
  BY <1>1, BackTypesCorrect, SentCorrect, PTL DEF FSpec, StockOnlyShipped

-----------------------------------------------------------------------------
\* The back office with one request at a time on an order

\* Nothing of the order is packed.
Unpacked(o) ==
  \A g \in Groups : owner[g] = o => \A v \in Variants : packed[g][v] = 0

\* Drafts are unpacked, and a dispatched order is one whose OUT movement took
\* what is packed.
PackingOK ==
  /\ PackedWithinOrdered
  /\ \A o \in Orders : status[o] = "draft" => Unpacked(o)
  /\ \A o \in Orders : dispatch[o] # "none" =>
       /\ status[o] \in {"dispatched", "delivered"}
       /\ \A v \in Variants : shipped[o][v] = Cardinality(PackedUnits(o, v))

\* What request t found when it read its order is still so: nobody else works
\* on the order, and the draft flow leaves it alone once it is placed.  An
\* edit read a draft, which the flow may place or delete meanwhile.
StillValid(t) ==
  /\ t.op \in {"cancel", "approve", "reject", "pack", "dispatch"} =>
       status[t.o] \in Holding \ {"draft"}
  /\ t.op = "approve" => status[t.o] = "submitted"
  /\ t.op = "edit" => status[t.o] \in Statuses /\ Unpacked(t.o)
  /\ t.op = "pack" => \A i \in DOMAIN t.picks : i \in Items(t.o) /\ t.picks[i] <= qty[i[1]][i[2]]
  /\ t.op = "pack" /\ t.written => t.target \in {"packed", "processing", "same"}

TasksValid == \A r \in Requests : hand[r] # NoRequest => StillValid(hand[r])

\* The inductive invariant.
BackInv ==
  /\ TypeIn(RowStatus) /\ BackTypeOK
  /\ OrdersAndItemsAgree
  /\ ReservedFor(Holding) /\ NoOversell
  /\ PackingOK
  /\ TasksValid /\ OneAtATime

LEMMA StatusSets ==
  /\ Statuses \subseteq RowStatus
  /\ "absent" \notin Holding
  /\ Statuses \ {"absent"} \subseteq Holding
  /\ Holding = {"draft", "submitted", "confirmed", "processing", "packed"}
BY DEF Statuses, RowStatus, OrderStatus, Holding, Final

\* What pending orders hold, in the terms of the counting lemmas.
LEMMA HeldPieces ==
  ASSUME TypeIn(RowStatus), OrdersAndItemsAgree, NEW v \in Variants
  PROVE  HeldUnits(v) = Pieces(HoldingQty(Holding), v)
<1>1. ASSUME NEW u \in Units
      PROVE  (u[2] <= qty[u[1]][v] /\ status[owner[u[1]]] \in Holding)
               <=> u[2] <= HoldingQty(Holding)[u[1]][v]
  <2>1. u[1] \in Groups /\ u[2] \in 1..MaxQty
    BY DEF Units
  <2>2. qty[u[1]][v] \in 0..MaxQty /\ (qty[u[1]][v] > 0 => owner[u[1]] \in Orders)
    BY <2>1 DEF TypeIn, OrdersAndItemsAgree, Lines
  <2> QED
    BY <2>1, <2>2, BoundsAssumption DEF HoldingQty
<1> QED
  BY <1>1 DEF HeldUnits, ItemUnits, Pieces

-----------------------------------------------------------------------------
\* A step of the draft flow

\* The flow changes the quantities of unpacked groups only.
LEMMA FlowMeetsUnpacked ==
  ASSUME BackInv, [Next]_vars, NEW g \in Groups
  PROVE  \/ \A v \in Variants : packed[g][v] = 0
         \/ /\ owner[g] \in Orders /\ status[owner[g]] \notin {"draft", "absent"}
            /\ Untouched(owner[g]) /\ owner'[g] = owner[g] /\ qty'[g] = qty[g]
<1>1. CASE owner[g] = NoOrder
  <2>1. \A v \in Variants : qty[g][v] = 0
    BY <1>1, BoundsAssumption DEF BackInv, OrdersAndItemsAgree, Lines, TypeIn
  <2>2. \A v \in Variants : packed[g][v] = 0
    BY <2>1, BoundsAssumption DEF BackInv, PackingOK, PackedWithinOrdered, BackTypeOK
  <2> QED
    BY <2>2
<1>2. CASE owner[g] \in Orders /\ status[owner[g]] = "draft"
  BY <1>2 DEF BackInv, PackingOK, Unpacked
<1>3. CASE owner[g] \in Orders /\ status[owner[g]] \notin {"draft", "absent"}
  <2>1. Untouched(owner[g])
    BY <1>3, SettledUntouched DEF BackInv
  <2> QED
    BY <1>3, <2>1 DEF Untouched
<1>4. \/ owner[g] = NoOrder
      \/ owner[g] \in Orders /\ status[owner[g]] # "absent"
  BY SetsAssumption DEF BackInv, TypeIn, OrdersAndItemsAgree
<1> QED
  BY <1>1, <1>2, <1>3, <1>4

LEMMA DraftStepPacking ==
  ASSUME BackInv, BackTypeOK', TypeIn(RowStatus)', DraftStep
  PROVE  PackingOK' /\ (\A o \in Orders : status[o] \in Statuses /\ Unpacked(o) => Unpacked(o)')
<1>0. /\ [Next]_vars
      /\ packed' = [g \in Groups |-> [v \in Variants |->
                      IF qty'[g][v] = 0 THEN 0 ELSE packed[g][v]]]
      /\ dispatch' = [o \in Orders |-> IF status'[o] = "absent" THEN "none" ELSE dispatch[o]]
      /\ shipped' = [o \in Orders |-> IF status'[o] = "absent" THEN NoPieces ELSE shipped[o]]
  BY DEF DraftStep, FollowDraftFlow, NoPieces
<1>1. \A g \in Groups, v \in Variants :
        packed[g][v] \in 0..MaxQty /\ qty[g][v] \in 0..MaxQty /\ qty'[g][v] \in 0..MaxQty
  BY DEF BackInv, BackTypeOK, TypeIn
<1>2. \A g \in Groups, v \in Variants : packed[g][v] <= qty[g][v]
  BY DEF BackInv, PackingOK, PackedWithinOrdered
<1>3. PackedWithinOrdered'
  <2> SUFFICES ASSUME NEW g \in Groups, NEW v \in Variants
               PROVE  packed'[g][v] <= qty'[g][v]
    BY DEF PackedWithinOrdered
  <2>1. packed[g][v] = 0 \/ qty'[g] = qty[g]
    BY <1>0, FlowMeetsUnpacked
  <2> QED
    BY <1>0, <1>1, <1>2, <2>1, BoundsAssumption
<1>4. ASSUME NEW o \in Orders, status[o] \in Statuses => Unpacked(o), status'[o] \in Statuses
      PROVE  Unpacked(o)'
  <2> SUFFICES ASSUME NEW g \in Groups, owner'[g] = o, NEW v \in Variants
               PROVE  packed'[g][v] = 0
    BY DEF Unpacked
  <2>1. CASE packed[g][v] = 0
    BY <1>0, <2>1
  <2>2. CASE /\ owner[g] \in Orders /\ Untouched(owner[g]) /\ owner'[g] = owner[g]
    <3>1. owner[g] = o /\ status'[o] = status[o]
      BY <2>2 DEF Untouched
    <3>2. packed[g][v] = 0
      BY <1>4, <3>1 DEF Unpacked
    <3> QED
      BY <2>1, <3>2
  <2> QED
    BY <1>0, <2>1, <2>2, FlowMeetsUnpacked
<1>5. ASSUME NEW o \in Orders, status'[o] = "draft"
      PROVE  Unpacked(o)'
  <2> SUFFICES ASSUME NEW g \in Groups, owner'[g] = o, NEW v \in Variants
               PROVE  packed'[g][v] = 0
    BY DEF Unpacked
  <2>1. ~(/\ owner[g] \in Orders /\ status[owner[g]] \notin {"draft", "absent"}
          /\ Untouched(owner[g]) /\ owner'[g] = owner[g])
    BY <1>5 DEF Untouched
  <2>2. packed[g][v] = 0
    BY <1>0, <2>1, FlowMeetsUnpacked
  <2> QED
    BY <1>0, <2>2
<1>6. ASSUME NEW o \in Orders, dispatch'[o] # "none"
      PROVE  /\ status'[o] \in {"dispatched", "delivered"}
             /\ \A v \in Variants : shipped'[o][v] = Cardinality(PackedUnits(o, v)')
  <2>1. /\ dispatch[o] # "none" /\ status'[o] # "absent" /\ shipped'[o] = shipped[o]
    BY <1>0, <1>6
  <2>2. /\ status[o] \in {"dispatched", "delivered"}
        /\ \A v \in Variants : shipped[o][v] = Cardinality(PackedUnits(o, v))
    BY <2>1 DEF BackInv, PackingOK
  <2>3. Untouched(o)
    BY <1>0, <2>2, SettledUntouched DEF BackInv
  <2>4. ASSUME NEW v \in Variants
        PROVE  PackedUnits(o, v)' = PackedUnits(o, v)
    <3>1. ASSUME NEW g \in Groups
          PROVE  /\ (owner'[g] = o) <=> (owner[g] = o)
                 /\ owner[g] = o => packed'[g][v] = packed[g][v]
      <4>1. /\ (owner'[g] = o) <=> (owner[g] = o)
            /\ owner[g] = o => qty'[g] = qty[g]
        BY <2>3 DEF Untouched
      <4>2. owner[g] = o /\ qty'[g][v] = 0 => packed[g][v] = 0
        BY <1>1, <1>2, <4>1
      <4> QED
        BY <1>0, <4>1, <4>2
    <3> QED
      BY <3>1 DEF PackedUnits, Units
  <2> QED
    BY <2>1, <2>2, <2>3, <2>4 DEF Untouched
<1>7. ASSUME NEW o \in Orders, status[o] \in Statuses, Unpacked(o)
      PROVE  Unpacked(o)'
  <2>1. status'[o] \in Statuses
    BY <1>0, <1>7, FlowStatuses DEF BackInv
  <2> QED
    BY <1>4, <1>7, <2>1
<1> QED
  BY <1>3, <1>5, <1>6, <1>7 DEF PackingOK

\* What a request has read stays valid while the flow goes on.
LEMMA DraftStepTasks ==
  ASSUME BackInv, BackTypeOK', TypeIn(RowStatus)', DraftStep
  PROVE  TasksValid'
<1>0. [Next]_vars /\ hand' = hand
  BY DEF DraftStep, FollowDraftFlow
<1> SUFFICES ASSUME NEW t \in Tasks, StillValid(t)
             PROVE  StillValid(t)'
  <2>1. \A r \in Requests : hand[r] # NoRequest => hand[r] \in Tasks /\ StillValid(hand[r])
    BY DEF BackInv, TasksValid, BackTypeOK
  <2> QED
    BY <1>0, <2>1 DEF TasksValid, StillValid, Unpacked, Items
<1> DEFINE o == t.o
<1>1. o \in Orders
  BY DEF Tasks
<1>2. CASE t.op \in {"cancel", "approve", "reject", "pack", "dispatch"}
  <2>1. status[o] \notin {"draft", "absent"} /\ status[o] \in Holding \ {"draft"}
    BY <1>2, StatusSets DEF StillValid
  <2>2. Untouched(o)
    BY <1>0, <1>1, <2>1, SettledUntouched DEF BackInv
  <2>3. status'[o] = status[o]
    BY <2>2 DEF Untouched
  <2>4. ASSUME NEW i \in DOMAIN t.picks, t.op = "pack"
        PROVE  i \in Items(o)' /\ t.picks[i] <= qty'[i[1]][i[2]]
    <3>1. i \in Items(o) /\ t.picks[i] <= qty[i[1]][i[2]]
      BY <2>4 DEF StillValid
    <3>2. i[1] \in Groups /\ owner[i[1]] = o
      BY <3>1 DEF Items
    <3>3. owner'[i[1]] = o /\ qty'[i[1]] = qty[i[1]]
      BY <2>2, <3>2 DEF Untouched
    <3> QED
      BY <3>1, <3>3 DEF Items
  <2> QED
    BY <1>2, <2>1, <2>3, <2>4 DEF StillValid
<1>3. CASE t.op = "edit"
  <2>1. status[o] \in Statuses /\ Unpacked(o)
    BY <1>3 DEF StillValid
  <2>2. status'[o] \in Statuses
    BY <1>0, <1>1, <2>1, FlowStatuses DEF BackInv
  <2>3. Unpacked(o)'
    BY <1>1, <2>1, DraftStepPacking
  <2> QED
    BY <1>3, <2>2, <2>3 DEF StillValid
<1>4. CASE t.op \notin {"cancel", "approve", "reject", "pack", "dispatch", "edit"}
  BY <1>4 DEF StillValid
<1> QED
  BY <1>2, <1>3, <1>4

LEMMA DraftStepInv ==
  ASSUME BackInv, OneAtATime', DraftStep
  PROVE  BackInv'
<1>0. [Next]_vars
  BY DEF DraftStep
<1>1. TypeIn(RowStatus)'
  BY <1>0, StatusSets, NextTypeIn DEF BackInv
<1>2. BackTypeOK'
  <2>1. RowTypeOK
    BY BoundsAssumption DEF BackInv, TypeIn, RowTypeOK, Moments
  <2> QED
    BY <2>1, DraftStepTypes DEF BackInv
<1>3. OrdersAndItemsAgree' /\ NoOversell'
  BY <1>0, StatusSets, NextAgree, NextNoOversell DEF BackInv
<1>4. ReservedFor(Holding)'
  BY <1>0, <1>1, StatusSets, NextExact DEF BackInv
<1>5. PackingOK' /\ TasksValid'
  BY <1>1, <1>2, DraftStepPacking, DraftStepTasks
<1> QED
  BY <1>1, <1>2, <1>3, <1>4, <1>5 DEF BackInv

-----------------------------------------------------------------------------
\* A step of a request

\* A request that is over has written the row of its order and the packed
\* quantities of its items only: what is left to show concerns that order.
LEMMA RequestOver ==
  ASSUME BackInv, TypeIn(RowStatus)', BackTypeOK', OneAtATime',
         NEW r \in Requests, hand[r] # NoRequest, Done(r),
         NEW o \in Orders, o = hand[r].o,
         UNCHANGED <<owner, qty>>,
         \A p \in Orders : p # o => /\ status'[p] = status[p] /\ exp'[p] = exp[p]
                                    /\ dispatch'[p] = dispatch[p] /\ shipped'[p] = shipped[p],
         \A g \in Groups : owner[g] # o => packed'[g] = packed[g],
         \A g \in Groups, v \in Variants : owner[g] = o => packed'[g][v] <= qty[g][v],
         status'[o] # "absent",
         (exp'[o] = "none") <=> (status'[o] # "draft"),
         status'[o] \in Placed => GroupsOf(o) # {},
         status'[o] = "draft" => Unpacked(o)',
         dispatch'[o] # "none" =>
           /\ status'[o] \in {"dispatched", "delivered"}
           /\ \A v \in Variants : shipped'[o][v] = Cardinality(PackedUnits(o, v)')
  PROVE  OrdersAndItemsAgree' /\ PackingOK' /\ TasksValid'
<1>1. OrdersAndItemsAgree'
  <2>1. \A g \in Groups : Lines(g)' = Lines(g) /\ owner'[g] = owner[g]
    BY DEF Lines
  <2>2. \A p \in Orders : GroupsOf(p)' = GroupsOf(p)
    BY DEF GroupsOf
  <2>3. \A g \in Groups : owner'[g] # NoOrder => status'[owner'[g]] # "absent"
    BY <2>1 DEF BackInv, TypeIn, OrdersAndItemsAgree
  <2>4. \A p \in Orders : (exp'[p] = "none") <=> (status'[p] # "draft")
    BY DEF BackInv, OrdersAndItemsAgree
  <2>5. \A p \in Orders : status'[p] \in Placed => GroupsOf(p)' # {}
    BY <2>2 DEF BackInv, OrdersAndItemsAgree
  <2>6. \A g \in Groups : (owner'[g] = NoOrder) <=> (Lines(g)' = {})
    BY <2>1 DEF BackInv, OrdersAndItemsAgree
  <2> QED
    BY <2>3, <2>4, <2>5, <2>6 DEF OrdersAndItemsAgree
<1>2. ASSUME NEW p \in Orders, p # o
      PROVE  /\ Unpacked(p) => Unpacked(p)'
             /\ \A v \in Variants : PackedUnits(p, v)' = PackedUnits(p, v)
             /\ Items(p)' = Items(p)
  BY <1>2 DEF Unpacked, PackedUnits, Units, Items
<1>3. PackingOK'
  <2>1. PackedWithinOrdered'
    BY DEF BackInv, PackingOK, PackedWithinOrdered
  <2>2. \A p \in Orders : status'[p] = "draft" => Unpacked(p)'
    BY <1>2 DEF BackInv, PackingOK
  <2>3. ASSUME NEW p \in Orders, dispatch'[p] # "none"
        PROVE  /\ status'[p] \in {"dispatched", "delivered"}
               /\ \A v \in Variants : shipped'[p][v] = Cardinality(PackedUnits(p, v)')
    BY <1>2, <2>3 DEF BackInv, PackingOK
  <2> QED
    BY <2>1, <2>2, <2>3 DEF PackingOK
<1>4. TasksValid'
  <2>1. ASSUME NEW t \in Tasks, StillValid(t), t.o # o
        PROVE  StillValid(t)'
    <3>1. t.o \in Orders
      BY DEF Tasks
    <3>2. status'[t.o] = status[t.o] /\ Items(t.o)' = Items(t.o)
          /\ (Unpacked(t.o) => Unpacked(t.o)')
      BY <1>2, <2>1, <3>1
    <3> QED
      BY <2>1, <3>2 DEF StillValid
  <2>2. \A s \in Requests : hand'[s] # NoRequest =>
          s # r /\ hand'[s] = hand[s] /\ hand[s] # NoRequest
    BY HandDone DEF BackInv
  <2>3. \A s \in Requests : hand'[s] # NoRequest =>
          hand'[s] = hand[s] /\ hand[s].o # o /\ hand[s] \in Tasks /\ StillValid(hand[s])
    BY <2>2 DEF BackInv, OneAtATime, TasksValid, BackTypeOK
  <2> QED
    BY <2>1, <2>3 DEF TasksValid, StillValid, Unpacked, Items
<1> QED
  BY <1>1, <1>3, <1>4

\* The counter, when no pieces change between held and not held ...
LEMMA KeepsHeld ==
  ASSUME ReservedFor(Holding), UNCHANGED <<owner, qty, reserved>>,
         \A o \in Orders : \/ status'[o] \in Holding <=> status[o] \in Holding
                           \/ GroupsOf(o) = {}
  PROVE  ReservedFor(Holding)'
<1>1. HoldingQty(Holding)' = HoldingQty(Holding)
  BY DEF HoldingQty, GroupsOf
<1> QED
  BY <1>1, SameHeldExact

\* ... and when an order that held pieces is cancelled or shipped.
LEMMA ReleasesHeld ==
  ASSUME BackInv, TypeIn(RowStatus)', NEW o \in Orders, status[o] \in Holding, ReleaseItems(o),
         UNCHANGED <<owner, qty>>, NEW new, new \notin Holding,
         status' = [status EXCEPT ![o] = new]
  PROVE  /\ ReservedFor(Holding)'
         /\ \A v \in Variants : /\ Cardinality(OrderUnits(o, v)) \in Nat
                                /\ reserved[v] \in Nat
                                /\ reserved'[v] = reserved[v] - Cardinality(OrderUnits(o, v))
                                /\ Cardinality(OrderUnits(o, v)) <= reserved[v]
<1>1. \A g \in Groups : HoldingQty(Holding)'[g] = IF owner[g] = o THEN [v \in Variants |-> 0]
                                                  ELSE HoldingQty(Holding)[g]
  BY DEF HoldingQty, BackInv, TypeIn
<1> QED
  BY <1>1, ReleaseExact DEF BackInv, ReleaseItems

LEMMA ReleaseType ==
  ASSUME TypeIn(RowStatus), NEW o \in Orders, ReleaseItems(o)
  PROVE  reserved' \in [Variants -> Nat]
<1>1. reserved' = [v \in Variants |-> Released(reserved[v], Cardinality(OrderUnits(o, v)))]
  BY DEF ReleaseItems, ReleaseAll
<1>2. \A v \in Variants : Released(reserved[v], Cardinality(OrderUnits(o, v))) \in Nat
  BY ReleasedType, OrderUnitsType DEF TypeIn
<1> QED
  BY <1>1, <1>2

\* cancel and reject: the pieces the order holds are given back, all of them.
LEMMA CancelInv ==
  ASSUME BackInv, BackTypeOK', OneAtATime', NEW r \in Requests, CommitCancel(r)
  PROVE  BackInv'
<1>1. PICK o \in Orders : o = hand[r].o
  BY DEF CommitCancel, Writing, BackInv, BackTypeOK, Tasks
<1>2. /\ hand[r] # NoRequest /\ Done(r) /\ ReleaseItems(o)
      /\ status' = [status EXCEPT ![o] = "cancelled"]
      /\ UNCHANGED <<exp, owner, ref, qty, stock, batch, packed, approval, dispatch, shipped, sales>>
  BY <1>1 DEF CommitCancel, Writing, SetStatusOf
<1>3. status[o] \in Holding \ {"draft"}
  BY <1>1 DEF CommitCancel, Writing, BackInv, TasksValid, StillValid
<1>4. TypeIn(RowStatus)'
  BY <1>2, ReleaseType DEF BackInv, TypeIn, RowStatus, OrderStatus
<1>5. status'[o] = "cancelled" /\ exp'[o] = "none" /\ dispatch[o] = "none"
  BY <1>2, <1>3, StatusSets DEF BackInv, TypeIn, OrdersAndItemsAgree, PackingOK
<1>6. OrdersAndItemsAgree' /\ PackingOK' /\ TasksValid'
  <2>1. \A p \in Orders : p # o => /\ status'[p] = status[p] /\ exp'[p] = exp[p]
                                   /\ dispatch'[p] = dispatch[p] /\ shipped'[p] = shipped[p]
    BY <1>2 DEF BackInv, TypeIn
  <2>2. \A g \in Groups, v \in Variants : packed'[g][v] <= qty[g][v]
    BY <1>2 DEF BackInv, PackingOK, PackedWithinOrdered
  <2> QED
    BY <1>1, <1>2, <1>4, <1>5, <2>1, <2>2, RequestOver DEF Placed
<1>7. "cancelled" \notin Holding
  BY StatusSets
<1>8. /\ ReservedFor(Holding)'
      /\ \A v \in Variants : reserved[v] \in Nat /\ reserved'[v] = reserved[v] - Cardinality(OrderUnits(o, v))
                             /\ Cardinality(OrderUnits(o, v)) \in Nat
  BY <1>2, <1>3, <1>4, <1>7, ReleasesHeld
<1>9. NoOversell'
  BY <1>2, <1>8, BoundsAssumption DEF NoOversell, BackInv, TypeIn
<1> QED
  BY <1>4, <1>6, <1>8, <1>9 DEF BackInv

\* approve.
LEMMA ApproveInv ==
  ASSUME BackInv, BackTypeOK', OneAtATime', NEW r \in Requests, CommitApprove(r)
  PROVE  BackInv'
<1>1. PICK o \in Orders : o = hand[r].o
  BY DEF CommitApprove, Writing, BackInv, BackTypeOK, Tasks
<1>2. /\ hand[r] # NoRequest /\ Done(r)
      /\ status' = [status EXCEPT ![o] = "confirmed"]
      /\ UNCHANGED <<exp, owner, ref, qty, stock, reserved, batch, packed, approval, dispatch,
                     shipped, sales>>
  BY <1>1 DEF CommitApprove, Writing, SetStatusOf
<1>3. status[o] = "submitted"
  BY <1>1 DEF CommitApprove, Writing, BackInv, TasksValid, StillValid
<1>4. TypeIn(RowStatus)'
  BY <1>2 DEF BackInv, TypeIn, RowStatus, OrderStatus
<1>5. status'[o] = "confirmed" /\ exp'[o] = "none" /\ dispatch[o] = "none" /\ GroupsOf(o) # {}
  BY <1>2, <1>3 DEF BackInv, TypeIn, OrdersAndItemsAgree, PackingOK, Placed
<1>6. OrdersAndItemsAgree' /\ PackingOK' /\ TasksValid'
  <2>1. \A p \in Orders : p # o => /\ status'[p] = status[p] /\ exp'[p] = exp[p]
                                   /\ dispatch'[p] = dispatch[p] /\ shipped'[p] = shipped[p]
    BY <1>2 DEF BackInv, TypeIn
  <2>2. \A g \in Groups, v \in Variants : packed'[g][v] <= qty[g][v]
    BY <1>2 DEF BackInv, PackingOK, PackedWithinOrdered
  <2> QED
    BY <1>1, <1>2, <1>4, <1>5, <2>1, <2>2, RequestOver
<1>7. ReservedFor(Holding)' /\ NoOversell'
  BY <1>2, <1>3, <1>5, KeepsHeld, StatusSets DEF NoOversell, BackInv, TypeIn
<1> QED
  BY <1>4, <1>6, <1>7 DEF BackInv

\* partial_update: the order is a draft again, or back in the table without
\* items; what it holds has not changed.
LEMMA EditInv ==
  ASSUME BackInv, BackTypeOK', OneAtATime', NEW r \in Requests, CommitEdit(r)
  PROVE  BackInv'
<1>1. PICK o \in Orders : o = hand[r].o
  BY DEF CommitEdit, Writing, BackInv, BackTypeOK, Tasks
<1>2. /\ hand[r] # NoRequest /\ Done(r)
      /\ status' = [status EXCEPT ![o] = "draft"]
      /\ exp' = [exp EXCEPT ![o] = "future"]
      /\ UNCHANGED <<owner, ref, qty, stock, reserved, batch, packed, dispatch, shipped, sales>>
  BY <1>1 DEF CommitEdit, Writing, SetStatusOf
<1>3. status[o] \in Statuses /\ Unpacked(o)
  BY <1>1 DEF CommitEdit, Writing, BackInv, TasksValid, StillValid
<1>4. TypeIn(RowStatus)'
  BY <1>2 DEF BackInv, TypeIn, RowStatus, OrderStatus
<1>5. status'[o] = "draft" /\ exp'[o] = "future" /\ dispatch[o] = "none" /\ Unpacked(o)'
  BY <1>2, <1>3 DEF BackInv, TypeIn, PackingOK, Statuses, Unpacked
<1>6. OrdersAndItemsAgree' /\ PackingOK' /\ TasksValid'
  <2>1. \A p \in Orders : p # o => /\ status'[p] = status[p] /\ exp'[p] = exp[p]
                                   /\ dispatch'[p] = dispatch[p] /\ shipped'[p] = shipped[p]
    BY <1>2 DEF BackInv, TypeIn
  <2>2. \A g \in Groups, v \in Variants : packed'[g][v] <= qty[g][v]
    BY <1>2 DEF BackInv, PackingOK, PackedWithinOrdered
  <2> QED
    BY <1>1, <1>2, <1>4, <1>5, <2>1, <2>2, RequestOver DEF Placed
<1>7. ReservedFor(Holding)'
  <2>1. status[o] = "absent" => GroupsOf(o) = {}
    BY SetsAssumption DEF BackInv, OrdersAndItemsAgree, GroupsOf
  <2> QED
    BY <1>2, <1>3, <1>5, <2>1, KeepsHeld, StatusSets DEF BackInv, TypeIn, Statuses
<1>8. NoOversell'
  BY <1>2 DEF NoOversell, BackInv
<1> QED
  BY <1>4, <1>6, <1>7, <1>8 DEF BackInv

\* pack_items, its last step.
LEMMA PackInv ==
  ASSUME BackInv, BackTypeOK', OneAtATime', NEW r \in Requests, CommitPack(r)
  PROVE  BackInv'
<1>1. PICK o \in Orders, t \in Tasks : t = hand[r] /\ o = t.o
  BY DEF CommitPack, Writing, BackInv, BackTypeOK, Tasks
<1>2. /\ hand[r] # NoRequest /\ Done(r) /\ t.op = "pack" /\ t.written
      /\ packed' = Repacked(t.picks)
      /\ IF t.target = "same" THEN UNCHANGED status ELSE status' = [status EXCEPT ![o] = t.target]
      /\ UNCHANGED <<exp, owner, ref, qty, stock, reserved, batch, approval, dispatch, shipped,
                     sales>>
  BY <1>1 DEF CommitPack, Writing, SetStatusOf
<1>3. /\ status[o] \in Holding \ {"draft"}
      /\ t.target \in {"packed", "processing", "same"}
      /\ \A i \in DOMAIN t.picks : i \in Items(o) /\ t.picks[i] <= qty[i[1]][i[2]]
  BY <1>1, <1>2 DEF BackInv, TasksValid, StillValid
<1>4. TypeIn(RowStatus)'
  BY <1>2, <1>3 DEF BackInv, TypeIn, RowStatus, OrderStatus
<1>5. /\ status'[o] \in Holding \ {"draft"} /\ exp'[o] = "none" /\ dispatch[o] = "none"
      /\ status'[o] \in Placed => status[o] \in Placed
  BY <1>2, <1>3, StatusSets DEF BackInv, TypeIn, OrdersAndItemsAgree, PackingOK, Placed
<1>6. OrdersAndItemsAgree' /\ PackingOK' /\ TasksValid'
  <2>1. \A p \in Orders : p # o => /\ status'[p] = status[p] /\ exp'[p] = exp[p]
                                   /\ dispatch'[p] = dispatch[p] /\ shipped'[p] = shipped[p]
    BY <1>2 DEF BackInv, TypeIn
  <2>2. \A g \in Groups, v \in Variants :
          packed'[g][v] = IF <<g, v>> \in DOMAIN t.picks THEN t.picks[<<g, v>>] ELSE packed[g][v]
    BY <1>2 DEF Repacked
  <2>3. \A g \in Groups, v \in Variants : packed'[g][v] <= qty[g][v]
    BY <1>3, <2>2 DEF BackInv, PackingOK, PackedWithinOrdered
  <2>4. ASSUME NEW g \in Groups, owner[g] # o
        PROVE  packed'[g] = packed[g]
    <3>1. \A v \in Variants : <<g, v>> \notin DOMAIN t.picks
      BY <1>3, <2>4 DEF Items
    <3>2. \A v \in Variants : packed'[g][v] = packed[g][v]
      BY <2>2, <3>1
    <3>3. packed'[g] \in [Variants -> 0..MaxQty] /\ packed[g] \in [Variants -> 0..MaxQty]
      BY DEF BackInv, BackTypeOK
    <3> QED
      BY <3>2, <3>3
  <2>5. status'[o] \in Placed => GroupsOf(o) # {}
    BY <1>5 DEF BackInv, OrdersAndItemsAgree
  <2> QED
    BY <1>1, <1>2, <1>4, <1>5, <2>1, <2>3, <2>4, <2>5, RequestOver, StatusSets
<1>7. ReservedFor(Holding)' /\ NoOversell'
  BY <1>2, <1>3, <1>5, KeepsHeld DEF NoOversell, BackInv, TypeIn
<1> QED
  BY <1>4, <1>6, <1>7 DEF BackInv

\* dispatch: the packed pieces leave the shelf and the ordered ones the counter;
\* the packed are no more than the ordered, so the rest stays covered.
LEMMA DispatchInv ==
  ASSUME BackInv, BackTypeOK', OneAtATime', NEW r \in Requests, CommitDispatch(r)
  PROVE  BackInv'
<1>1. PICK o \in Orders : o = hand[r].o
  BY DEF CommitDispatch, BackInv, BackTypeOK, Tasks
<1> DEFINE out == [v \in Variants |-> Cardinality(PackedUnits(o, v))]
<1>2. /\ hand[r] # NoRequest /\ hand[r].op = "dispatch" /\ Done(r)
      /\ ReleaseItems(o)
      /\ dispatch' = [dispatch EXCEPT ![o] = "sent"]
      /\ status' = [status EXCEPT ![o] = "dispatched"]
      /\ stock' = [v \in Variants |-> stock[v] - out[v]]
      /\ shipped' = [shipped EXCEPT ![o] = out]
      /\ UNCHANGED <<exp, owner, ref, qty, batch, packed, approval>>
  BY <1>1 DEF CommitDispatch, Ship, Writing, SetStatusOf
<1>3. status[o] \in Holding \ {"draft"}
  BY <1>1, <1>2 DEF BackInv, TasksValid, StillValid
<1>4. "dispatched" \notin Holding
  BY StatusSets
<1>5. \A v \in Variants : out[v] \in Nat /\ out[v] <= Cardinality(OrderUnits(o, v))
  <2> SUFFICES ASSUME NEW v \in Variants
               PROVE  /\ Cardinality(PackedUnits(o, v)) \in Nat
                      /\ Cardinality(PackedUnits(o, v)) <= Cardinality(OrderUnits(o, v))
    OBVIOUS
  <2>1. \A g \in Groups : /\ packed[g][v] \in 0..MaxQty /\ qty[g][v] \in 0..MaxQty
                          /\ packed[g][v] <= qty[g][v]
    BY DEF BackInv, BackTypeOK, TypeIn, PackingOK, PackedWithinOrdered
  <2>2. PackedUnits(o, v) \subseteq OrderUnits(o, v)
    BY <2>1, BoundsAssumption DEF PackedUnits, OrderUnits, ItemUnits, Units
  <2>3. OrderUnits(o, v) \subseteq Pieces(qty, v)
    BY ItemPieces DEF OrderUnits
  <2> QED
    BY <2>2, <2>3, PiecesFinite, PackedFinite, FS_Subset
<1>6. \A v \in Variants : /\ stock[v] \in 0..MaxStock /\ reserved[v] <= stock[v]
                          /\ stock'[v] = stock[v] - out[v]
  BY <1>2 DEF BackInv, TypeIn, NoOversell
<1>7. \A v \in Variants : /\ Cardinality(OrderUnits(o, v)) \in Nat
                          /\ reserved[v] \in Nat
                          /\ Cardinality(OrderUnits(o, v)) <= reserved[v]
  <2> SUFFICES ASSUME NEW v \in Variants
               PROVE  /\ Cardinality(OrderUnits(o, v)) \in Nat
                      /\ reserved[v] \in Nat
                      /\ Cardinality(OrderUnits(o, v)) <= reserved[v]
    OBVIOUS
  <2> DEFINE q == HoldingQty(Holding)
  <2>1. reserved[v] = Cardinality(Pieces(q, v))
    BY DEF BackInv, ReservedFor
  <2>2. OrderUnits(o, v) = PiecesOf(q, v, GroupsOf(o))
    <3>1. \A h \in GroupsOf(o) : q[h] = qty[h]
      BY <1>3 DEF HoldingQty, GroupsOf
    <3> HIDE DEF q
    <3> QED
      BY <3>1 DEF OrderUnits, ItemUnits, PiecesOf, GroupsOf, Pieces, Units
  <2> HIDE DEF q
  <2> QED
    BY <2>1, <2>2, PiecesFinite
<1>8. TypeIn(RowStatus)'
  <2>1. \A v \in Variants : stock[v] - out[v] \in 0..MaxStock
    BY <1>5, <1>6, <1>7, BoundsAssumption
  <2>2. stock' \in [Variants -> 0..MaxStock]
    BY <1>2, <2>1
  <2>3. reserved' \in [Variants -> Nat]
    BY <1>2, ReleaseType DEF BackInv
  <2> QED
    BY <1>2, <2>2, <2>3 DEF BackInv, TypeIn, RowStatus, OrderStatus
<1>9. OrdersAndItemsAgree' /\ PackingOK' /\ TasksValid'
  <2>1. \A p \in Orders : p # o => /\ status'[p] = status[p] /\ exp'[p] = exp[p]
                                   /\ dispatch'[p] = dispatch[p] /\ shipped'[p] = shipped[p]
    BY <1>2 DEF BackInv, TypeIn, BackTypeOK
  <2>2. \A g \in Groups, v \in Variants : packed'[g][v] <= qty[g][v]
    BY <1>2 DEF BackInv, PackingOK, PackedWithinOrdered
  <2>3. status'[o] = "dispatched" /\ exp'[o] = "none"
    BY <1>2, <1>3, StatusSets DEF BackInv, TypeIn, OrdersAndItemsAgree
  <2>4. \A v \in Variants : shipped'[o][v] = Cardinality(PackedUnits(o, v)')
    BY <1>2 DEF BackInv, BackTypeOK, PackedUnits
  <2> QED
    BY <1>1, <1>2, <1>8, <2>1, <2>2, <2>3, <2>4, RequestOver DEF Placed
<1>10. /\ ReservedFor(Holding)'
       /\ \A v \in Variants : reserved'[v] = reserved[v] - Cardinality(OrderUnits(o, v))
  BY <1>2, <1>3, <1>4, <1>8, ReleasesHeld
<1>11. NoOversell'
  <2> HIDE DEF out
  <2> QED
    BY <1>5, <1>6, <1>7, <1>10, BoundsAssumption DEF NoOversell
<1> QED
  BY <1>8, <1>9, <1>10, <1>11 DEF BackInv

\* mark_delivered.
LEMMA DeliverInv ==
  ASSUME BackInv, BackTypeOK', OneAtATime', NEW r \in Requests, CommitDeliver(r)
  PROVE  BackInv'
<1>1. PICK o \in Orders : o = hand[r].o
  BY DEF CommitDeliver, Writing, BackInv, BackTypeOK, Tasks
<1>2. /\ hand[r] # NoRequest /\ Done(r) /\ dispatch[o] # "none"
      /\ status' = [status EXCEPT ![o] = "delivered"]
      /\ dispatch' = [dispatch EXCEPT ![o] = "arrived"]
      /\ UNCHANGED <<exp, owner, ref, qty, stock, reserved, batch, packed, approval, shipped, sales>>
  BY <1>1 DEF CommitDeliver, Writing, SetStatusOf
<1>3. /\ status[o] \in {"dispatched", "delivered"}
      /\ \A v \in Variants : shipped[o][v] = Cardinality(PackedUnits(o, v))
  BY <1>2 DEF BackInv, PackingOK
<1>4. TypeIn(RowStatus)'
  BY <1>2 DEF BackInv, TypeIn, RowStatus, OrderStatus
<1>5. status'[o] = "delivered" /\ exp'[o] = "none"
  BY <1>2, <1>3 DEF BackInv, TypeIn, OrdersAndItemsAgree
<1>6. OrdersAndItemsAgree' /\ PackingOK' /\ TasksValid'
  <2>1. \A p \in Orders : p # o => /\ status'[p] = status[p] /\ exp'[p] = exp[p]
                                   /\ dispatch'[p] = dispatch[p] /\ shipped'[p] = shipped[p]
    BY <1>2 DEF BackInv, TypeIn, BackTypeOK
  <2>2. \A g \in Groups, v \in Variants : packed'[g][v] <= qty[g][v]
    BY <1>2 DEF BackInv, PackingOK, PackedWithinOrdered
  <2>3. \A v \in Variants : shipped'[o][v] = Cardinality(PackedUnits(o, v)')
    BY <1>2, <1>3 DEF PackedUnits
  <2> QED
    BY <1>1, <1>2, <1>4, <1>5, <2>1, <2>2, <2>3, RequestOver DEF Placed
<1>7. ReservedFor(Holding)' /\ NoOversell'
  BY <1>2, <1>3, <1>5, KeepsHeld, StatusSets DEF NoOversell, BackInv, TypeIn
<1> QED
  BY <1>4, <1>6, <1>7 DEF BackInv

\* What is said of the rows of the draft flow stays true when they stay.
LEMMA RowsKept ==
  ASSUME BackInv, UNCHANGED vars
  PROVE  TypeIn(RowStatus)' /\ OrdersAndItemsAgree' /\ ReservedFor(Holding)' /\ NoOversell'
<1>1. TypeIn(RowStatus)'
  BY DEF BackInv, vars, TypeIn
<1>2. OrdersAndItemsAgree'
  BY DEF BackInv, vars, OrdersAndItemsAgree, Lines, GroupsOf
<1>3. ReservedFor(Holding)'
  BY SameHeldExact DEF BackInv, vars, HoldingQty
<1>4. NoOversell'
  BY DEF BackInv, vars, NoOversell
<1> QED
  BY <1>1, <1>2, <1>3, <1>4

\* Steps that leave the rows alone: reading, the first half of pack_items, a
\* request that fails.
LEMMA QuietInv ==
  ASSUME BackInv, BackTypeOK', OneAtATime', TasksValid',
         UNCHANGED <<vars, packed, approval, dispatch, shipped, sales>>
  PROVE  BackInv'
<1>1. PackingOK'
  BY DEF BackInv, vars, PackingOK, PackedWithinOrdered, Unpacked, PackedUnits
<1> QED
  BY <1>1, RowsKept DEF BackInv

\* Tasks other than the one that changes stay valid when no row changes.
LEMMA QuietTasks ==
  ASSUME BackInv, BackTypeOK', NEW r \in Requests,
         UNCHANGED <<vars, packed, approval, dispatch, shipped, sales>>,
         \A s \in Requests : s # r => hand'[s] = hand[s],
         hand'[r] # NoRequest => StillValid(hand'[r])
  PROVE  TasksValid'
BY DEF BackInv, TasksValid, StillValid, Unpacked, Items, vars

LEMMA LoadInv ==
  ASSUME BackInv, BackTypeOK', OneAtATime', "status" \notin Ops, "draft" \notin PackIn,
         NEW r \in Requests, NEW op \in Ops, NEW o \in Orders, Load(r, op, o)
  PROVE  BackInv'
<1>1. PICK new \in Targets(op), picks \in Picks(op, o) :
        hand' = [hand EXCEPT ![r] = Memory(op, o, new, picks)]
  BY DEF Load
<1> DEFINE t == Memory(op, o, new, picks)
<1>2. t.op = op /\ t.o = o /\ t.picks = picks /\ t.written = FALSE
  BY DEF Memory
<1>3. Accepts(op, o) /\ op # "track" /\ UNCHANGED <<vars, packed, approval, dispatch, shipped, sales>>
  BY DEF Load
<1>4. /\ op \in {"cancel", "approve", "reject", "pack", "dispatch"} => status[o] \in Holding \ {"draft"}
      /\ op = "approve" => status[o] = "submitted"
      /\ op = "edit" => status[o] = "draft"
  <2>1. CASE op = "cancel"
    BY <1>3, <2>1 DEF Accepts
  <2>2. CASE op \in {"approve", "reject"}
    BY <1>3, <2>2, StatusSets DEF Accepts
  <2>3. CASE op = "edit"
    BY <1>3, <2>3 DEF Accepts
  <2>4. CASE op = "pack"
    BY <1>3, <2>4 DEF Accepts
  <2>5. CASE op = "dispatch"
    BY <1>3, <2>5, StatusSets DEF Accepts
  <2>6. CASE op \notin {"cancel", "approve", "reject", "edit", "pack", "dispatch"}
    BY <2>6
  <2> QED
    BY <2>1, <2>2, <2>3, <2>4, <2>5, <2>6
<1>5. op = "pack" => \A i \in DOMAIN picks : i \in Items(o) /\ picks[i] <= qty[i[1]][i[2]]
  BY DEF Picks
<1>6. op = "edit" => status[o] \in Statuses /\ Unpacked(o)
  BY <1>4 DEF BackInv, PackingOK, Statuses
<1>7. StillValid(t)
  <2> HIDE DEF t
  <2> QED
    BY <1>2, <1>4, <1>5, <1>6 DEF StillValid
<1>8. hand'[r] = t /\ \A s \in Requests : s # r => hand'[s] = hand[s]
  BY <1>1 DEF BackInv, BackTypeOK
<1> HIDE DEF t
<1>9. TasksValid'
  BY <1>3, <1>7, <1>8, QuietTasks
<1> QED
  BY <1>3, <1>9, QuietInv

LEMMA WritePackInv ==
  ASSUME BackInv, BackTypeOK', OneAtATime', NEW r \in Requests, WritePack(r)
  PROVE  BackInv'
<1>1. PICK target \in {"packed", "processing", "same"} :
        hand' = [hand EXCEPT ![r].written = TRUE, ![r].target = target]
  BY DEF WritePack
<1>2. PICK t \in Tasks : t = hand[r] /\ t.op = "pack" /\ StillValid(t)
  BY DEF WritePack, Writing, BackInv, BackTypeOK, TasksValid
<1>3. /\ hand'[r] = [t EXCEPT !.written = TRUE, !.target = target]
      /\ \A s \in Requests : s # r => hand'[s] = hand[s]
  BY <1>1, <1>2 DEF BackInv, BackTypeOK
<1> DEFINE new == [t EXCEPT !.written = TRUE, !.target = target]
<1>4. /\ new.op = t.op /\ new.o = t.o /\ new.picks = t.picks
      /\ new.target = target
  BY DEF Tasks
<1> HIDE DEF new
<1>5. StillValid(new)
  BY <1>2, <1>4 DEF StillValid
<1>6. UNCHANGED <<vars, packed, approval, dispatch, shipped, sales>>
  BY DEF WritePack
<1>7. TasksValid'
  BY <1>3, <1>5, <1>6, QuietTasks DEF new
<1> QED
  BY <1>6, <1>7, QuietInv

LEMMA FailsInv ==
  ASSUME BackInv, BackTypeOK', OneAtATime', NEW r \in Requests, Fails(r)
  PROVE  BackInv'
<1>1. UNCHANGED <<vars, packed, approval, dispatch, shipped, sales>> /\ Done(r)
  BY DEF Fails
<1>2. hand'[r] = NoRequest /\ \A s \in Requests : s # r => hand'[s] = hand[s]
  BY <1>1 DEF Done, BackInv, BackTypeOK
<1> QED
  BY <1>1, <1>2, QuietTasks, QuietInv

-----------------------------------------------------------------------------
\* The theorems

LEMMA BackInvStep ==
  ASSUME "status" \notin Ops, "draft" \notin PackIn
  PROVE  BackInv /\ [FNext /\ OneAtATime']_allVars => BackInv'
<1> SUFFICES ASSUME BackInv, [FNext /\ OneAtATime']_allVars
             PROVE  BackInv'
  OBVIOUS
<1>1. RowTypeOK /\ BackTypeOK
  BY BoundsAssumption DEF BackInv, TypeIn, RowTypeOK, Moments
<1>2. BackTypeOK'
  BY <1>1, BackNextTypes
<1>3. CASE DraftStep /\ OneAtATime'
  BY <1>3, DraftStepInv
<1>4. ASSUME NEW r \in Requests, Handle(r), OneAtATime'
      PROVE  BackInv'
  <2>1. CommitStatus(r) => FALSE
    BY DEF CommitStatus, Writing, BackInv, BackTypeOK, Tasks
  <2> QED
    BY <1>2, <1>4, <2>1, LoadInv, FailsInv, CancelInv, ApproveInv, EditInv, WritePackInv, PackInv,
       DispatchInv, DeliverInv DEF Handle
<1>5. ASSUME NEW o \in Orders, Track(o), OneAtATime'
      PROVE  BackInv'
  <2>1. UNCHANGED <<vars, packed, approval, shipped, sales, hand>>
        /\ \A p \in Orders : dispatch'[p] # "none" => dispatch[p] # "none"
    BY <1>5 DEF Track, BackInv, BackTypeOK
  <2>2. PackingOK' /\ TasksValid'
    BY <2>1 DEF BackInv, vars, PackingOK, PackedWithinOrdered, Unpacked, PackedUnits, TasksValid,
       StillValid, Items
  <2> QED
    BY <1>2, <1>5, <2>1, <2>2, RowsKept DEF BackInv
<1>6. CASE UNCHANGED allVars
  <2>1. TasksValid' /\ OneAtATime'
    BY <1>6 DEF allVars, vars, backVars, BackInv, TasksValid, StillValid, Unpacked, Items, OneAtATime
  <2> QED
    BY <1>2, <1>6, <2>1, QuietInv DEF allVars, backVars
<1> QED
  BY <1>3, <1>4, <1>5, <1>6 DEF FNext

LEMMA BackInvInit == FInit => BackInv
<1> SUFFICES ASSUME FInit
             PROVE  BackInv
  OBVIOUS
<1>1. BackTypeOK
  BY BackInitTypes
<1>2. TypeIn(RowStatus) /\ OrdersAndItemsAgree /\ NoOversell
  BY BoundsAssumption, SetsAssumption DEF FInit, Init, TypeIn, RowStatus, OrdersAndItemsAgree, Lines,
     GroupsOf, Placed, NoOversell
<1>3. ReservedFor(Holding)
  <2> SUFFICES ASSUME NEW v \in Variants
               PROVE  reserved[v] = Cardinality(Pieces(HoldingQty(Holding), v))
    BY DEF ReservedFor
  <2>1. Pieces(HoldingQty(Holding), v) = {}
    BY BoundsAssumption DEF FInit, Init, HoldingQty, Pieces, Units
  <2> QED
    BY <2>1, FS_EmptySet DEF FInit, Init
<1>4. PackingOK
  BY BoundsAssumption DEF FInit, Init, PackingOK, PackedWithinOrdered, Unpacked
<1>5. TasksValid /\ OneAtATime
  BY DEF FInit, TasksValid, OneAtATime
<1> QED
  BY <1>1, <1>2, <1>3, <1>4, <1>5 DEF BackInv

\* The inductive invariant of the back office: the counters follow the lines
\* because every request that writes a status finds its order as it read it.
THEOREM BackInvCorrect ==
  ASSUME "status" \notin Ops, "draft" \notin PackIn
  PROVE  SerialSpec => []BackInv
BY BackInvInit, BackInvStep, PTL DEF SerialSpec

\* reserved_qty is exactly what pending orders hold (Fulfilment's HeldExact):
\* of the draft flow, cancel, approve, reject, edit, pack and dispatch none
\* forgets a release and none releases twice.
THEOREM HeldCorrect ==
  ASSUME "status" \notin Ops, "draft" \notin PackIn
  PROVE  SerialSpec => []HeldExact
<1>1. BackInv => HeldExact
  BY HeldPieces DEF BackInv, ReservedFor, HeldExact
<1> QED
  BY <1>1, BackInvCorrect, PTL

\* What pending orders hold is on the shelf (Fulfilment's ShelfCoversHeld),
\* although a dispatch takes pieces off it and a recount may lower it.
THEOREM ShelfCovers ==
  ASSUME "status" \notin Ops, "draft" \notin PackIn
  PROVE  SerialSpec => []ShelfCoversHeld
<1>1. BackInv => ShelfCoversHeld
  BY HeldPieces DEF BackInv, ReservedFor, NoOversell, ShelfCoversHeld
<1> QED
  BY <1>1, BackInvCorrect, PTL

\* No item is packed beyond its order (Fulfilment's PackedWithinOrdered), also
\* after the order went back to a draft and its lines changed.
THEOREM PackedWithin ==
  ASSUME "status" \notin Ops, "draft" \notin PackIn
  PROVE  SerialSpec => []PackedWithinOrdered
<1>1. BackInv => PackedWithinOrdered
  BY DEF BackInv, PackingOK
<1> QED
  BY <1>1, BackInvCorrect, PTL

\* The OUT movement of a dispatch took what is packed (Fulfilment's
\* ShippedIsPacked): nothing is packed or unpacked afterwards.
THEOREM ShippedWasPacked ==
  ASSUME "status" \notin Ops, "draft" \notin PackIn
  PROVE  SerialSpec => []ShippedIsPacked
<1>1. BackInv => ShippedIsPacked
  BY DEF BackInv, PackingOK, ShippedIsPacked
<1> QED
  BY <1>1, BackInvCorrect, PTL

=============================================================================
