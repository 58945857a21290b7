------------------------------ MODULE Catalogue ------------------------------
(***************************************************************************)
(* Products, their colour variants and sizes, and the stored total of a    *)
(* product (apps/products), with the figures of the inventory pages.       *)
(*                                                                         *)
(* An adjustment locks its size and, through select_related, the product;  *)
(* a new variant only refers to the product; the deletion of a variant     *)
(* runs in no transaction; an edit saves every column it read.  Every one  *)
(* of them adds up what is committed and its own rows, and writes later.   *)
(***************************************************************************)
EXTENDS Sums

CONSTANTS
  Products, Variants, Sizes,
  ProductOf,   \* ProductOf[v]
  VariantOf,   \* VariantOf[s]
  Reorder,     \* Reorder[s]: reorder_level
  MaxStock,    \* bound on the pieces of a size
  Requests,    \* request slots
  NoStock, NoRequest

ASSUME SetsAssumption == IsFiniteSet(Products) /\ IsFiniteSet(Variants) /\ IsFiniteSet(Sizes)
ASSUME TreeAssumption ==
  ProductOf \in [Variants -> Products] /\ VariantOf \in [Sizes -> Variants]
ASSUME ReorderAssumption == Reorder \in [Sizes -> Nat]
ASSUME StockAssumption == MaxStock \in Nat /\ NoStock \notin Int

VARIABLES
  product,    \* product[p]: [state, total]: no row yet, or the Product row, deleted or not
  shelf,      \* stock_quantity of a size, NoStock without a row
  reserved,   \* reserved_qty of a size
  listed,     \* sizes that an OrderItem refers to (on_delete=PROTECT)
  ledger,     \* ledger[s]: [opening, net, balance]: the stock at creation, the sum of
              \* the movements off or onto the shelf and the last balance_after
  hand,       \* hand[r]: the request in slot r, or NoRequest
  adrift      \* products whose stored total nobody vouches for (history)

vars == <<product, shelf, reserved, listed, ledger, hand, adrift>>

SizesOf(p) == {s \in Sizes : ProductOf[VariantOf[s]] = p}
InVariant(v) == {s \in Sizes : VariantOf[s] = v}
Live(p) == product[p].state = "live"
NoMoves == [opening |-> 0, net |-> 0, balance |-> 0]

Init ==
  /\ product = [p \in Products |-> [state |-> "absent", total |-> 0]]
  /\ shelf = [s \in Sizes |-> NoStock]
  /\ reserved = [s \in Sizes |-> 0]
  /\ listed = {}
  /\ ledger = [s \in Sizes |-> NoMoves]
  /\ hand = [r \in Requests |-> NoRequest]
  /\ adrift = {}

-----------------------------------------------------------------------------
\* What the pages tell of the sizes

\* VariantSize.available_qty and is_low_stock
Available(s) == IF shelf[s] > reserved[s] THEN shelf[s] - reserved[s] ELSE 0
IsLowStock(s) == Available(s) <= Reorder[s]

\* Faulty variant: what is promised is forgotten.
LowStockUnreserved(s) == shelf[s] <= Reorder[s]

\* The filters of the product list, the inventory report and the dashboard.
LowStockFilter(s)   == shelf[s] <= Reorder[s] + reserved[s]
OutOfStockFilter(s) == shelf[s] <= reserved[s]

Rows(S) == {s \in S : shelf[s] # NoStock}
Sum(S, value(_)) == SumOf([s \in S |-> value(s)])
TotalOf(stock, S) == SumOf([s \in {x \in S : stock[x] # NoStock} |-> stock[s]])

\* ProductViewSet.list; an order of the rows and searches for names are left out.
ProductList == {p \in Products : Live(p)}
LowStockList == {p \in ProductList : \E s \in Rows(SizesOf(p)) : LowStockFilter(s)}
OutOfStockList == {p \in ProductList : \E s \in Rows(SizesOf(p)) : OutOfStockFilter(s)}

\* get_available_stock of a product, and what the list of variants calls their
\* total_stock.
AvailableStock(p) == Sum(Rows(SizesOf(p)), Available)
VariantStock(v)   == Sum(Rows(InVariant(v)), Available)

\* ProductViewSet.scan_qr, and retrieve of the variant.
Scan(v) == IF Live(ProductOf[v]) THEN Rows(InVariant(v)) ELSE {}

\* AdminDashboardViewSet.low_stock_items: those of deleted products as well.
LowStockItems == {s \in Rows(Sizes) : LowStockFilter(s)}

\* InventoryReportViewSet, with and without low_stock_only; a size has a value
\* of one for each piece.
InventoryRows(lowOnly) ==
  {[size |-> s, available |-> Available(s), is_low_stock |-> IsLowStock(s)] :
     s \in IF lowOnly THEN LowStockItems ELSE Rows(Sizes)}

InventorySummary ==
  [total_stock_units  |-> TotalOf(shelf, Sizes),
   total_reserved     |-> Sum(Rows(Sizes), LAMBDA s : reserved[s]),
   total_available    |-> Sum(Rows(Sizes), Available),
   low_stock_count    |-> Cardinality({s \in Rows(Sizes) : IsLowStock(s)}),
   out_of_stock_count |-> Cardinality({s \in Rows(Sizes) : Available(s) = 0}),
   total_products     |-> Cardinality({ProductOf[VariantOf[s]] : s \in Rows(Sizes)})]

-----------------------------------------------------------------------------
\* Requests on a product

Open(p) == {r \in Requests : hand[r] # NoRequest /\ hand[r].product = p}

\* Faulty variant: adjust locks the size alone (of=("self",)).
OwnersNone(p) == {}

\* Who holds the product's row: adjust with FOR UPDATE, create as the referrer
\* of a row it inserted.
Owners(p)    == {r \in Open(p) : hand[r].op = "adjust"}
Referrers(p) == {r \in Open(p) : hand[r].op = "create"}

\* The sizes that an open transaction has written.
Locked == UNION {DOMAIN hand[r].rows : r \in {x \in Requests : hand[x] # NoRequest}}

\* Takes a slot.  Two adjustments are not told of each other: the lock is to
\* keep them apart.
Take(r, h) ==
  LET apart == {q \in Open(h.product) : ~(h.op = "adjust" /\ hand[q].op = "adjust")}
  IN /\ hand[r] = NoRequest
     /\ hand' = [q \in Requests |->
          IF q = r THEN [h EXCEPT !.alone = (apart = {})]
          ELSE IF q \in apart THEN [hand[q] EXCEPT !.alone = FALSE]
          ELSE hand[q]]

Request(op, p, step, rows, qty, total) ==
  [op |-> op, product |-> p, step |-> step, rows |-> rows, qty |-> qty, total |-> total,
   alone |-> TRUE]

\* StockViewSet.adjust, to the UPDATE of the size.
Adjust(r, s, n) ==
  LET p == ProductOf[VariantOf[s]]
  IN /\ shelf[s] # NoStock /\ Live(p)
     /\ Owners(p) = {} /\ Referrers(p) = {} /\ s \notin Locked
     /\ n < 0 => Available(s) >= -n
     /\ shelf[s] + n <= MaxStock
     /\ Take(r, Request("adjust", p, "written", [x \in {s} |-> shelf[s] + n], n, 0))
     /\ UNCHANGED <<product, shelf, reserved, listed, ledger, adrift>>

\* ColorVariantViewSet.create, to the insertion of the sizes; a second variant
\* of the colour waits for the first and fails.
CreateVariant(r, v, stock) ==
  LET p == ProductOf[v]
  IN /\ Live(p) /\ Owners(p) = {}
     /\ \A s \in InVariant(v) : shelf[s] = NoStock /\ s \notin Locked
     /\ Take(r, Request("create", p, "written", stock, 0, 0))
     /\ UNCHANGED <<product, shelf, reserved, listed, ledger, adrift>>

\* ColorVariantViewSet.destroy: variant.delete() is on its own, and PROTECTed
\* rows refuse it.
DeleteVariant(r, v) ==
  LET p == ProductOf[v]
      S == InVariant(v)
  IN /\ Live(p)
     /\ \A s \in S : shelf[s] # NoStock /\ s \notin Locked \cup listed
     /\ Take(r, Request("delete", p, "written", <<>>, 0, 0))
     /\ shelf'  = [s \in Sizes |-> IF s \in S THEN NoStock ELSE shelf[s]]
     /\ ledger' = [s \in Sizes |-> IF s \in S THEN NoMoves ELSE ledger[s]]
     /\ adrift' = adrift \cup {p}
     /\ UNCHANGED <<product, reserved, listed>>

\* ProductViewSet.partial_update reads the row that it will save.
LoadProduct(r, p) ==
  /\ Live(p)
  /\ Take(r, Request("patch", p, "summed", <<>>, 0, product[p].total))
  /\ UNCHANGED <<product, shelf, reserved, listed, ledger, adrift>>

\* The sizes as the request's own transaction sees them.
Own(r) ==
  [s \in Sizes |-> IF s \in DOMAIN hand[r].rows THEN hand[r].rows[s] ELSE shelf[s]]

\* The aggregate of _refresh_product_stock and of adjust.
Refresh(r) ==
  /\ hand[r] # NoRequest /\ hand[r].step = "written"
  /\ hand' = [hand EXCEPT ![r].step = "summed",
                          ![r].total = TotalOf(Own(r), SizesOf(hand[r].product))]
  /\ UNCHANGED <<product, shelf, reserved, listed, ledger, adrift>>

\* The ledger of a new size, and after an adjustment's movement.
Opened(stock) == [opening |-> stock, net |-> 0, balance |-> stock]
Moved(s, qty, stock) ==
  [opening |-> ledger[s].opening, net |-> ledger[s].net + qty, balance |-> stock]

\* The UPDATE of the product and the commit.  An edit also saves is_deleted as
\* it was read.
Commit(r) ==
  LET h == hand[r]
      p == h.product
  IN /\ h # NoRequest /\ h.step = "summed"
     /\ Owners(p) \subseteq {r}
     /\ product' = [product EXCEPT ![p] =
          [state |-> IF h.op = "patch" THEN "live" ELSE product[p].state, total |-> h.total]]
     /\ shelf'  = Own(r)
     /\ ledger' = [s \in Sizes |->
          IF s \notin DOMAIN h.rows THEN ledger[s]
          ELSE IF h.op = "create" THEN Opened(h.rows[s])
          ELSE Moved(s, h.qty, h.rows[s])]
     /\ adrift' = IF ~h.alone THEN adrift \cup {p}
                  ELSE IF h.op = "patch" THEN adrift ELSE adrift \ {p}
     /\ hand' = [hand EXCEPT ![r] = NoRequest]
     /\ UNCHANGED <<reserved, listed>>

\* The request fails: what a transaction wrote is undone, but a variant that
\* was deleted stays so and the total has it still.
Abort(r) ==
  /\ hand[r] # NoRequest
  /\ hand' = [hand EXCEPT ![r] = NoRequest]
  /\ UNCHANGED <<product, shelf, reserved, listed, ledger, adrift>>

-----------------------------------------------------------------------------
\* What is done at once

\* ProductCreateSerializer.create: the product with its variants; the total is
\* counted along.
CreateProduct(p, stock) ==
  /\ product[p].state = "absent"
  /\ product' = [product EXCEPT ![p] = [state |-> "live", total |-> TotalOf(stock, DOMAIN stock)]]
  /\ shelf'   = [s \in Sizes |-> IF s \in DOMAIN stock THEN stock[s] ELSE shelf[s]]
  /\ ledger'  = [s \in Sizes |->
       IF s \in DOMAIN stock THEN Opened(stock[s]) ELSE ledger[s]]
  /\ UNCHANGED <<reserved, listed, hand, adrift>>

\* ProductViewSet.destroy saves only the deletion; the sizes remain.
DestroyProduct(p) ==
  /\ Live(p) /\ Owners(p) = {}
  /\ product' = [product EXCEPT ![p] = [state |-> "deleted", total |-> product[p].total]]
  /\ UNCHANGED <<shelf, reserved, listed, ledger, hand, adrift>>

\* The order flow promises a piece, or takes the promise back; the item that
\* refers to the size goes with it or stays (cancelled orders keep theirs).
Reserve(s) ==
  /\ shelf[s] # NoStock /\ s \notin Locked
  /\ Available(s) >= 1
  /\ reserved' = [reserved EXCEPT ![s] = @ + 1]
  /\ listed' = listed \cup {s}
  /\ UNCHANGED <<product, shelf, ledger, hand, adrift>>

Release(s, kept) ==
  /\ reserved[s] > 0 /\ s \notin Locked
  /\ reserved' = [reserved EXCEPT ![s] = @ - 1]
  /\ listed' = IF reserved[s] = 1 /\ ~kept THEN listed \ {s} ELSE listed
  /\ UNCHANGED <<product, shelf, ledger, hand, adrift>>

\* Faulty variant: the balance is that of the row before its UPDATE.
ShipUnrefreshed(s) ==
  LET p == ProductOf[VariantOf[s]]
  IN /\ reserved[s] > 0 /\ s \notin Locked
     /\ shelf'    = [shelf EXCEPT ![s] = @ - 1]
     /\ reserved' = [reserved EXCEPT ![s] = @ - 1]
     /\ ledger'   = [ledger EXCEPT ![s] = Moved(s, -1, shelf[s])]
     /\ adrift'   = adrift \cup {p}
     /\ hand' = [r \in Requests |->
          IF r \in Open(p) THEN [hand[r] EXCEPT !.alone = FALSE] ELSE hand[r]]
     /\ UNCHANGED <<product, listed>>

\* DispatchViewSet.create takes the packed pieces off the shelf and does not
\* refresh the total; requests under way on the product have it changed under
\* them.
Ship(s) ==
  LET p == ProductOf[VariantOf[s]]
  IN /\ reserved[s] > 0 /\ s \notin Locked
     /\ shelf'    = [shelf EXCEPT ![s] = @ - 1]
     /\ reserved' = [reserved EXCEPT ![s] = @ - 1]
     /\ ledger'   = [ledger EXCEPT ![s] = Moved(s, -1, shelf[s] - 1)]
     /\ adrift'   = adrift \cup {p}
     /\ hand' = [r \in Requests |->
          IF r \in Open(p) THEN [hand[r] EXCEPT !.alone = FALSE] ELSE hand[r]]
     /\ UNCHANGED <<product, listed>>

Next ==
  \/ \E p \in Products :
       \/ \E V \in SUBSET {v \in Variants : ProductOf[v] = p} :
            \E stock \in [UNION {InVariant(v) : v \in V} -> 0..MaxStock] : CreateProduct(p, stock)
       \/ DestroyProduct(p)
  \/ \E s \in Sizes :
       Reserve(s) \/ Ship(s) \/ \E kept \in BOOLEAN : Release(s, kept)
  \/ \E r \in Requests :
       \/ \E s \in Sizes, n \in {-1, 1} : Adjust(r, s, n)
       \/ \E v \in Variants :
            \/ \E stock \in [InVariant(v) -> 0..MaxStock] : CreateVariant(r, v, stock)
            \/ DeleteVariant(r, v)
       \/ \E p \in Products : LoadProduct(r, p)
       \/ Refresh(r) \/ Commit(r) \/ Abort(r)

Spec == Init /\ [][Next]_vars

-----------------------------------------------------------------------------
\* Properties

\* total_stock is what the product's sizes hold, except since a dispatch (which
\* does not refresh it), a deletion cut short, or the overlap of two requests of
\* which one does not lock the product; overlapping adjustments never spoil it, and any lone
\* adjustment or new or deleted variant repairs it.
TotalStockExact ==
  \A p \in Products : product[p].state # "absent" /\ p \notin adrift =>
    product[p].total = TotalOf(shelf, SizesOf(p))

\* The pages agree with each other: the inventory report finds with its filter
\* the sizes that its rows call low, as the dashboard does; the product list
\* shows as low, or as out of stock, the products with such a size; a product
\* has to offer what its variants have together, and what scanning their codes
\* brings up.  Nothing is promised that is not on the shelf, so that the pieces
\* of the report are those free and those reserved, and those of the products
\* when nothing is adrift; what only deleted products still have is in the
\* report and not in the list.
PagesAgree ==
  LET inventory == InventorySummary
      deleted == {p \in Products : product[p].state = "deleted"}
  IN /\ InventoryRows(TRUE) = {row \in InventoryRows(FALSE) : row.is_low_stock}
     /\ inventory.low_stock_count = Cardinality(LowStockItems)
     /\ \A p \in ProductList :
          /\ p \in LowStockList <=> \E s \in LowStockItems : s \in SizesOf(p)
          /\ p \in OutOfStockList <=> \E s \in Rows(SizesOf(p)) : Available(s) = 0
          /\ AvailableStock(p) = Sum({v \in Variants : ProductOf[v] = p}, VariantStock)
          /\ Rows(SizesOf(p)) = (UNION {Scan(v) : v \in Variants}) \cap SizesOf(p)
          /\ p \notin adrift =>
               product[p].total = AvailableStock(p) + Sum(Rows(SizesOf(p)), LAMBDA s : reserved[s])
     /\ inventory.total_stock_units = inventory.total_available + inventory.total_reserved
     /\ inventory.total_available = Sum(ProductList \cup deleted, AvailableStock)
     /\ inventory.total_products <= Cardinality(ProductList \cup deleted)
     /\ OutOfStockList = {} /\ deleted = {} => inventory.out_of_stock_count = 0

\* The shelf movements of a size (adjustments and dispatches) add up to the
\* change of its stock, and the last one carries its balance.
LedgerTells ==
  \A s \in Sizes : shelf[s] # NoStock =>
    /\ shelf[s] = ledger[s].opening + ledger[s].net
    /\ shelf[s] = ledger[s].balance
=============================================================================
