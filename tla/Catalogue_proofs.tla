--------------------------- MODULE Catalogue_proofs ---------------------------
(***************************************************************************)
(* Proofs about Catalogue: the movements of a size tell its stock, however *)
(* many requests on its product overlap; the stored total of a product is  *)
(* what its sizes hold unless the product is adrift; and the pages agree   *)
(* on what is low, out of stock, free and promised.                        *)
(***************************************************************************)
EXTENDS Catalogue, Sums_proofs

RowsOK ==
  /\ shelf \in [Sizes -> Int \cup {NoStock}]
  /\ reserved \in [Sizes -> Nat]
  /\ ledger \in [Sizes -> [opening : Int, net : Int, balance : Int]]

\* Only sizes that have a row are promised, and a promise keeps the row.
ListedKept ==
  \A s \in Sizes :
    /\ reserved[s] > 0 => s \in listed
    /\ s \in listed => shelf[s] # NoStock

\* What a request is about to commit: the sizes are those of a product that has
\* a row, and an adjustment still differs by its quantity from the row it read,
\* because it holds that row.
Fields == {"op", "product", "step", "rows", "qty", "total", "alone"}

Sound(h) ==
  /\ DOMAIN h = Fields
  /\ h.product \in Products /\ product[h.product].state # "absent"
  /\ h.qty \in Int
  /\ DOMAIN h.rows \subseteq SizesOf(h.product)
  /\ \A s \in DOMAIN h.rows : h.rows[s] \in Int
  /\ h.op # "create" =>
       \A s \in DOMAIN h.rows : shelf[s] # NoStock /\ h.rows[s] = shelf[s] + h.qty

HandsSound == \A r \in Requests : hand[r] # NoRequest => Sound(hand[r])

\* No two open transactions have written one size.
HandsApart ==
  \A q, r \in Requests : q # r /\ hand[q] # NoRequest /\ hand[r] # NoRequest =>
    DOMAIN hand[q].rows \cap DOMAIN hand[r].rows = {}

\* The functions that a step updates.
Tables ==
  /\ DOMAIN product = Products
  /\ DOMAIN hand = Requests

LedgerInv == Tables /\ RowsOK /\ ListedKept /\ HandsSound /\ HandsApart /\ LedgerTells

USE TreeAssumption, StockAssumption
-----------------------------------------------------------------------------

THEOREM LedgerInit == Init => LedgerInv
<1> SUFFICES ASSUME Init PROVE LedgerInv
  OBVIOUS
<1> QED
  BY DEF Init, LedgerInv, Tables, RowsOK, ListedKept, HandsSound, HandsApart, LedgerTells, NoMoves

\* A request that takes a free slot without touching a row leaves what the
\* others hold, but for their being alone.
LEMMA TakeStep ==
  ASSUME LedgerInv, NEW r \in Requests, NEW h, Take(r, h),
         UNCHANGED <<product, shelf, reserved, listed, ledger>>,
         Sound(h), DOMAIN h.rows \cap Locked = {}
  PROVE  LedgerInv'
<1>1. /\ DOMAIN hand' = Requests
      /\ hand'[r].rows = h.rows /\ Sound(hand'[r])
  BY DEF Take, Sound, Fields, SizesOf
<1>2. ASSUME NEW q \in Requests, q # r, hand'[q] # NoRequest
      PROVE  hand[q] # NoRequest /\ hand'[q].rows = hand[q].rows /\ Sound(hand'[q])
  <2>1. CASE hand'[q] = hand[q]
    BY <2>1, <1>2 DEF LedgerInv, HandsSound
  <2>2. CASE hand'[q] # hand[q]
    <3>1. hand[q] # NoRequest /\ hand'[q] = [hand[q] EXCEPT !.alone = FALSE]
      BY <1>2, <2>2 DEF Take, Open
    <3>2. Sound(hand[q])
      BY <3>1 DEF LedgerInv, HandsSound
    <3> QED BY <3>1, <3>2 DEF Sound, Fields, SizesOf
  <2> QED BY <2>1, <2>2
<1>3. \A q \in Requests : hand'[q] # NoRequest => Sound(hand'[q])
  BY <1>1, <1>2
<1>4. HandsSound'
  BY <1>3 DEF HandsSound, Sound, SizesOf
<1>5. \A q \in Requests : hand[q] # NoRequest => DOMAIN hand[q].rows \subseteq Locked
  BY DEF Locked
<1>6. HandsApart'
  BY <1>1, <1>2, <1>5 DEF HandsApart, LedgerInv
<1> QED
  BY <1>1, <1>4, <1>6 DEF LedgerInv, Tables, RowsOK, ListedKept, LedgerTells

-----------------------------------------------------------------------------
\* Requests that begin

LEMMA AdjustStep ==
  ASSUME LedgerInv, NEW r \in Requests, NEW s \in Sizes, NEW n \in Int, Adjust(r, s, n)
  PROVE  LedgerInv'
<1> DEFINE p == ProductOf[VariantOf[s]]
           h == Request("adjust", p, "written", [x \in {s} |-> shelf[s] + n], n, 0)
<1>1. shelf[s] \in Int /\ shelf[s] # NoStock /\ Live(p) /\ s \notin Locked /\ Take(r, h)
      /\ UNCHANGED <<product, shelf, reserved, listed, ledger>>
  BY DEF Adjust, LedgerInv, RowsOK
<1>2. p \in Products /\ s \in SizesOf(p)
  BY DEF SizesOf
<1>3. Sound(h)
  BY <1>1, <1>2 DEF Sound, Fields, Request, Live
<1>4. DOMAIN h.rows \cap Locked = {}
  BY <1>1 DEF Request
<1> HIDE DEF h
<1> QED BY <1>1, <1>3, <1>4, TakeStep

LEMMA CreateVariantStep ==
  ASSUME LedgerInv, NEW r \in Requests, NEW v \in Variants,
         NEW stock \in [InVariant(v) -> 0..MaxStock], CreateVariant(r, v, stock)
  PROVE  LedgerInv'
<1> DEFINE p == ProductOf[v]
           h == Request("create", p, "written", stock, 0, 0)
<1>1. Live(p) /\ Take(r, h) /\ (\A s \in InVariant(v) : s \notin Locked)
      /\ UNCHANGED <<product, shelf, reserved, listed, ledger>>
  BY DEF CreateVariant
<1>2. p \in Products /\ InVariant(v) \subseteq SizesOf(p)
  BY DEF SizesOf, InVariant
<1>3. Sound(h)
  BY <1>1, <1>2 DEF Sound, Fields, Request, Live
<1>4. DOMAIN h.rows \cap Locked = {}
  BY <1>1 DEF Request
<1> HIDE DEF h
<1> QED BY <1>1, <1>3, <1>4, TakeStep

LEMMA LoadProductStep ==
  ASSUME LedgerInv, NEW r \in Requests, NEW p \in Products, LoadProduct(r, p)
  PROVE  LedgerInv'
<1> DEFINE h == Request("patch", p, "summed", <<>>, 0, product[p].total)
<1>1. Live(p) /\ Take(r, h) /\ UNCHANGED <<product, shelf, reserved, listed, ledger>>
  BY DEF LoadProduct
<1>2. DOMAIN <<>> = {}
  OBVIOUS
<1>3. Sound(h) /\ DOMAIN h.rows \cap Locked = {}
  BY <1>1, <1>2 DEF Sound, Fields, Request, Live
<1> HIDE DEF h
<1> QED BY <1>1, <1>3, TakeStep

\* The rows that go are of no open transaction and of no order item.
LEMMA DeleteVariantStep ==
  ASSUME LedgerInv, NEW r \in Requests, NEW v \in Variants, DeleteVariant(r, v)
  PROVE  LedgerInv'
<1> DEFINE p == ProductOf[v]
           S == InVariant(v)
           h == Request("delete", p, "written", <<>>, 0, 0)
<1>1. /\ Live(p) /\ Take(r, h)
      /\ \A s \in S : s \notin Locked /\ s \notin listed
      /\ shelf'  = [s \in Sizes |-> IF s \in S THEN NoStock ELSE shelf[s]]
      /\ ledger' = [s \in Sizes |-> IF s \in S THEN NoMoves ELSE ledger[s]]
      /\ UNCHANGED <<product, reserved, listed>>
  BY DEF DeleteVariant
<1>2. DOMAIN <<>> = {}
  OBVIOUS
<1>3. h.rows = <<>> /\ DOMAIN h = Fields /\ h.product = p /\ h.qty = 0
  BY DEF Request, Fields
<1>4. ASSUME NEW q \in Requests, hand'[q] # NoRequest
      PROVE  \/ q = r /\ hand'[q].rows = <<>> /\ DOMAIN hand'[q] = Fields
                /\ hand'[q].product = p /\ hand'[q].qty = 0
             \/ /\ q # r /\ hand[q] # NoRequest /\ DOMAIN hand'[q] = Fields
                /\ hand'[q].rows = hand[q].rows /\ hand'[q].product = hand[q].product
                /\ hand'[q].qty = hand[q].qty /\ hand'[q].op = hand[q].op
  <2> HIDE DEF h
  <2>1. CASE q = r
    BY <1>1, <1>3, <2>1 DEF Take, Fields
  <2>2. CASE q # r /\ hand'[q] = hand[q]
    BY <1>4, <2>2 DEF LedgerInv, HandsSound, Sound
  <2>3. CASE q # r /\ hand'[q] # hand[q]
    <3>1. hand[q] # NoRequest /\ hand'[q] = [hand[q] EXCEPT !.alone = FALSE]
      BY <1>1, <1>4, <2>3 DEF Take, Open
    <3>2. DOMAIN hand[q] = Fields
      BY <3>1 DEF LedgerInv, HandsSound, Sound
    <3> QED BY <2>3, <3>1, <3>2 DEF Fields
  <2> QED BY <2>1, <2>2, <2>3
<1> HIDE DEF h
<1>5. RowsOK'
  BY <1>1 DEF LedgerInv, RowsOK, NoMoves
<1>6. ListedKept'
  BY <1>1 DEF LedgerInv, ListedKept
<1>7. \A q \in Requests : hand[q] # NoRequest =>
        DOMAIN hand[q].rows \subseteq Sizes \ S
  BY <1>1 DEF Locked, LedgerInv, HandsSound, Sound, SizesOf
<1>8. HandsSound'
  <2> SUFFICES ASSUME NEW q \in Requests, hand'[q] # NoRequest PROVE Sound(hand[q])'
    BY DEF HandsSound
  <2>1. CASE q = r
    BY <1>1, <1>2, <1>4, <2>1 DEF Sound, Live
  <2>2. CASE q # r
    <3>1. hand[q] # NoRequest /\ Sound(hand[q]) /\ DOMAIN hand[q].rows \subseteq Sizes \ S
      BY <1>4, <1>7, <2>2 DEF LedgerInv, HandsSound
    <3>2. \A s \in DOMAIN hand[q].rows : shelf'[s] = shelf[s]
      BY <3>1, <1>1
    <3> QED BY <1>1, <1>4, <2>2, <3>1, <3>2 DEF Sound, SizesOf
  <2> QED BY <2>1, <2>2
<1>9. HandsApart'
  BY <1>2, <1>4 DEF LedgerInv, HandsApart
<1>10. LedgerTells'
  BY <1>1 DEF LedgerInv, LedgerTells
<1>11. Tables'
  BY <1>1 DEF Tables, Take, LedgerInv
<1> QED BY <1>5, <1>6, <1>8, <1>9, <1>10, <1>11 DEF LedgerInv

-----------------------------------------------------------------------------
\* Requests that go on

LEMMA RefreshStep ==
  ASSUME LedgerInv, NEW r \in Requests, Refresh(r)
  PROVE  LedgerInv'
<1>1. /\ hand[r] # NoRequest /\ Sound(hand[r])
      /\ UNCHANGED <<product, shelf, reserved, listed, ledger>>
      /\ \A q \in Requests \ {r} : hand'[q] = hand[q]
      /\ DOMAIN hand' = Requests
  BY DEF Refresh, LedgerInv, Tables, HandsSound
<1>2. /\ DOMAIN hand'[r] = Fields
      /\ hand'[r].rows = hand[r].rows /\ hand'[r].product = hand[r].product
      /\ hand'[r].qty = hand[r].qty /\ hand'[r].op = hand[r].op
  BY <1>1 DEF Refresh, LedgerInv, Tables, Sound, Fields
<1>3. HandsSound'
  BY <1>1, <1>2 DEF LedgerInv, HandsSound, Sound, SizesOf
<1>4. HandsApart'
  BY <1>1, <1>2 DEF LedgerInv, HandsApart
<1> QED
  BY <1>1, <1>3, <1>4 DEF LedgerInv, Tables, RowsOK, ListedKept, LedgerTells

\* What the request writes becomes the row; no other request has that row.
LEMMA CommitStep ==
  ASSUME LedgerInv, NEW r \in Requests, Commit(r)
  PROVE  LedgerInv'
<1> DEFINE h == hand[r]
           p == h.product
<1>1. h # NoRequest /\ Sound(h) /\ p \in Products
  BY DEF Commit, LedgerInv, HandsSound, Sound
<1>2. /\ product' = [product EXCEPT ![p] =
           [state |-> IF h.op = "patch" THEN "live" ELSE product[p].state, total |-> h.total]]
      /\ shelf'  = [s \in Sizes |-> IF s \in DOMAIN h.rows THEN h.rows[s] ELSE shelf[s]]
      /\ ledger' = [s \in Sizes |->
           IF s \notin DOMAIN h.rows THEN ledger[s]
           ELSE IF h.op = "create" THEN Opened(h.rows[s]) ELSE Moved(s, h.qty, h.rows[s])]
      /\ hand' = [hand EXCEPT ![r] = NoRequest]
      /\ UNCHANGED <<reserved, listed>>
  BY DEF Commit, Own
<1>3. \A q \in Products : DOMAIN product' = Products
        /\ (product[q].state # "absent" => product'[q].state # "absent")
  BY <1>1, <1>2 DEF LedgerInv, Tables, Sound
<1>4. \A s \in DOMAIN h.rows : s \in Sizes /\ h.rows[s] \in Int /\ h.rows[s] # NoStock
  BY <1>1 DEF Sound, SizesOf
<1>5. \A s \in Sizes : Moved(s, h.qty, h.rows[s]) =
        [opening |-> ledger[s].opening, net |-> ledger[s].net + h.qty, balance |-> h.rows[s]]
  BY DEF Moved
<1>6. RowsOK'
  <2>1. shelf' \in [Sizes -> Int \cup {NoStock}]
    BY <1>2, <1>4 DEF LedgerInv, RowsOK
  <2>2. ASSUME NEW s \in Sizes PROVE ledger'[s] \in [opening : Int, net : Int, balance : Int]
    <3>0. ledger[s] \in [opening : Int, net : Int, balance : Int]
      BY DEF LedgerInv, RowsOK
    <3>1. CASE s \notin DOMAIN h.rows
      BY <1>2, <3>0, <3>1
    <3>2. CASE s \in DOMAIN h.rows /\ h.op = "create"
      <4>1. ledger'[s] = Opened(h.rows[s])
        BY <1>2, <3>2
      <4> QED BY <1>4, <3>2, <4>1 DEF Opened
    <3>3. CASE s \in DOMAIN h.rows /\ h.op # "create"
      <4>1. ledger'[s] = Moved(s, h.qty, h.rows[s]) /\ h.rows[s] \in Int /\ h.qty \in Int
        BY <1>1, <1>2, <1>4, <3>3 DEF Sound
      <4> QED BY <3>0, <4>1 DEF Moved
    <3> QED BY <3>1, <3>2, <3>3
  <2> QED BY <1>2, <2>1, <2>2 DEF LedgerInv, RowsOK
<1>7. ListedKept'
  BY <1>2, <1>4 DEF LedgerInv, ListedKept
<1>8. HandsSound'
  <2> SUFFICES ASSUME NEW q \in Requests, hand'[q] # NoRequest PROVE Sound(hand[q])'
    BY DEF HandsSound
  <2>1. CASE q # r
    <3>1. hand'[q] = hand[q] /\ Sound(hand[q])
      BY <1>2, <2>1 DEF LedgerInv, Tables, HandsSound
    <3>2. DOMAIN hand[q].rows \cap DOMAIN h.rows = {}
      BY <1>1, <2>1, <3>1 DEF LedgerInv, HandsApart, Tables
    <3>3. \A s \in DOMAIN hand[q].rows : shelf'[s] = shelf[s]
      BY <1>2, <3>1, <3>2 DEF Sound, SizesOf
    <3> QED BY <1>3, <3>1, <3>3 DEF Sound, SizesOf
  <2>2. CASE q = r
    BY <1>2, <2>2 DEF LedgerInv, Tables
  <2> QED BY <2>1, <2>2
<1>9. HandsApart'
  BY <1>2 DEF LedgerInv, HandsApart, Tables
<1>10. LedgerTells'
  <2> SUFFICES ASSUME NEW s \in Sizes, shelf'[s] # NoStock
               PROVE  /\ shelf'[s] = ledger'[s].opening + ledger'[s].net
                      /\ shelf'[s] = ledger'[s].balance
    BY DEF LedgerTells
  <2>1. CASE s \notin DOMAIN h.rows
    BY <1>2, <2>1 DEF LedgerInv, LedgerTells
  <2>2. CASE s \in DOMAIN h.rows /\ h.op = "create"
    BY <1>2, <1>4, <2>2 DEF Opened
  <2>3. CASE s \in DOMAIN h.rows /\ h.op # "create"
    <3>1. shelf[s] # NoStock /\ h.rows[s] = shelf[s] + h.qty /\ h.qty \in Int
      BY <1>1, <2>3 DEF Sound
    <3>2. shelf'[s] = h.rows[s]
          /\ ledger'[s] = [opening |-> ledger[s].opening, net |-> ledger[s].net + h.qty,
                           balance |-> h.rows[s]]
      BY <1>2, <1>5, <2>3
    <3>3. shelf[s] = ledger[s].opening + ledger[s].net
      BY <3>1 DEF LedgerInv, LedgerTells
    <3> QED BY <3>1, <3>2, <3>3 DEF LedgerInv, RowsOK
  <2> QED BY <2>1, <2>2, <2>3
<1>11. Tables'
  BY <1>2, <1>3 DEF LedgerInv, Tables
<1> QED BY <1>6, <1>7, <1>8, <1>9, <1>10, <1>11 DEF LedgerInv

LEMMA AbortStep ==
  ASSUME LedgerInv, NEW r \in Requests, Abort(r)
  PROVE  LedgerInv'
<1> QED
  BY DEF Abort, LedgerInv, Tables, RowsOK, ListedKept, HandsSound, Sound, SizesOf,
         HandsApart, LedgerTells

-----------------------------------------------------------------------------
\* What is done at once

\* No request is open on a product that has no row.
LEMMA CreateProductStep ==
  ASSUME LedgerInv, NEW p \in Products, NEW V \in SUBSET {v \in Variants : ProductOf[v] = p},
         NEW stock \in [UNION {InVariant(v) : v \in V} -> 0..MaxStock], CreateProduct(p, stock)
  PROVE  LedgerInv'
<1>1. DOMAIN stock \subseteq SizesOf(p) /\ \A s \in DOMAIN stock : stock[s] \in Int
  BY DEF SizesOf, InVariant
<1>2. \A q \in Products : DOMAIN product' = Products /\ product[p].state = "absent"
        /\ (product[q].state # "absent" => product'[q].state # "absent")
  BY DEF CreateProduct, LedgerInv, Tables
<1>3. \A s \in DOMAIN stock : stock[s] # NoStock /\ s \in Sizes
  BY <1>1 DEF SizesOf
<1>4. RowsOK'
  BY <1>1 DEF CreateProduct, LedgerInv, RowsOK, Opened
<1>5. ListedKept'
  BY <1>3 DEF CreateProduct, LedgerInv, ListedKept
<1>6. HandsSound'
  <2> SUFFICES ASSUME NEW q \in Requests, hand[q] # NoRequest PROVE Sound(hand[q])'
    BY DEF HandsSound, CreateProduct
  <2>1. Sound(hand[q]) /\ hand[q].product # p /\ hand' = hand
    BY <1>2 DEF LedgerInv, HandsSound, Sound, CreateProduct
  <2>2. \A s \in DOMAIN hand[q].rows : s \notin DOMAIN stock /\ s \in Sizes
    BY <1>1, <2>1 DEF Sound, SizesOf
  <2>3. \A s \in DOMAIN hand[q].rows : shelf'[s] = shelf[s]
    BY <2>2 DEF CreateProduct
  <2> QED BY <1>2, <2>1, <2>3 DEF Sound, SizesOf
<1>7. HandsApart'
  BY DEF CreateProduct, LedgerInv, HandsApart
<1>8. LedgerTells'
  BY <1>1 DEF CreateProduct, LedgerInv, LedgerTells, Opened
<1> QED
  BY <1>2, <1>4, <1>5, <1>6, <1>7, <1>8 DEF LedgerInv, Tables, CreateProduct

LEMMA DestroyProductStep ==
  ASSUME LedgerInv, NEW p \in Products, DestroyProduct(p)
  PROVE  LedgerInv'
<1>1. \A q \in Products : DOMAIN product' = Products
        /\ (product[q].state # "absent" => product'[q].state # "absent")
  BY DEF DestroyProduct, LedgerInv, Tables
<1>2. UNCHANGED <<shelf, reserved, listed, ledger, hand>>
  BY DEF DestroyProduct
<1>3. HandsSound'
  BY <1>1, <1>2 DEF LedgerInv, HandsSound, Sound, SizesOf
<1> QED
  BY <1>1, <1>2, <1>3 DEF LedgerInv, Tables, RowsOK, ListedKept, HandsApart, LedgerTells

LEMMA PromiseStep ==
  ASSUME LedgerInv, NEW s \in Sizes, Reserve(s) \/ \E kept \in BOOLEAN : Release(s, kept)
  PROVE  LedgerInv'
<1>1. UNCHANGED <<product, shelf, ledger, hand>>
  BY DEF Reserve, Release
<1>2. HandsSound'
  BY <1>1 DEF LedgerInv, HandsSound, Sound, SizesOf
<1>3. CASE Reserve(s)
  <2>1. RowsOK'
    BY <1>1, <1>3 DEF Reserve, LedgerInv, RowsOK
  <2>2. ListedKept'
    BY <1>1, <1>3 DEF Reserve, LedgerInv, RowsOK, ListedKept
  <2> QED BY <1>1, <1>2, <2>1, <2>2 DEF LedgerInv, Tables, HandsApart, LedgerTells
<1>4. ASSUME NEW kept \in BOOLEAN, Release(s, kept) PROVE LedgerInv'
  <2>1. RowsOK'
    BY <1>1, <1>4 DEF Release, LedgerInv, RowsOK
  <2>2. ListedKept'
    BY <1>1, <1>4 DEF Release, LedgerInv, RowsOK, ListedKept
  <2> QED BY <1>1, <1>2, <2>1, <2>2 DEF LedgerInv, Tables, HandsApart, LedgerTells
<1> QED
  BY <1>3, <1>4

\* A size that is shipped is in no open transaction; the others only lose their
\* being alone.
LEMMA ShipStep ==
  ASSUME LedgerInv, NEW s \in Sizes, Ship(s)
  PROVE  LedgerInv'
<1>1. /\ reserved[s] > 0 /\ s \notin Locked
      /\ shelf' = [shelf EXCEPT ![s] = @ - 1]
      /\ reserved' = [reserved EXCEPT ![s] = @ - 1]
      /\ UNCHANGED <<product, listed>>
  BY DEF Ship
<1>2. shelf[s] \in Int /\ shelf[s] # NoStock
  BY <1>1 DEF LedgerInv, RowsOK, ListedKept
<1>3. ledger' = [ledger EXCEPT ![s] = [opening |-> ledger[s].opening, net |-> ledger[s].net - 1,
                                       balance |-> shelf[s] - 1]]
  <2>1. Moved(s, -1, shelf[s] - 1) =
          [opening |-> ledger[s].opening, net |-> ledger[s].net - 1, balance |-> shelf[s] - 1]
    BY DEF Moved, LedgerInv, RowsOK
  <2>2. ledger' = [ledger EXCEPT ![s] = Moved(s, -1, shelf[s] - 1)]
    BY DEF Ship
  <2> QED BY <2>1, <2>2
<1>4. DOMAIN hand' = Requests
  BY DEF Ship
<1>5. ASSUME NEW q \in Requests, hand'[q] # NoRequest
      PROVE  /\ hand[q] # NoRequest /\ Sound(hand[q]) /\ DOMAIN hand'[q] = Fields
             /\ hand'[q].rows = hand[q].rows /\ hand'[q].product = hand[q].product
             /\ hand'[q].qty = hand[q].qty /\ hand'[q].op = hand[q].op
  <2>1. CASE hand'[q] = hand[q]
    BY <1>5, <2>1 DEF LedgerInv, HandsSound, Sound
  <2>2. CASE hand'[q] # hand[q]
    <3>1. hand[q] # NoRequest /\ hand'[q] = [hand[q] EXCEPT !.alone = FALSE]
      BY <2>2 DEF Ship, Open
    <3>2. Sound(hand[q])
      BY <3>1 DEF LedgerInv, HandsSound
    <3> QED BY <3>1, <3>2 DEF Sound, Fields
  <2> QED BY <2>1, <2>2
<1>6. HandsSound'
  <2> SUFFICES ASSUME NEW q \in Requests, hand'[q] # NoRequest PROVE Sound(hand[q])'
    BY DEF HandsSound
  <2>1. s \notin DOMAIN hand[q].rows /\ DOMAIN hand[q].rows \subseteq Sizes
    BY <1>1, <1>5 DEF Locked, Sound, SizesOf
  <2>2. \A x \in DOMAIN hand[q].rows : shelf'[x] = shelf[x]
    BY <1>1, <2>1 DEF LedgerInv, RowsOK
  <2> QED BY <1>1, <1>5, <2>2 DEF Sound, SizesOf
<1>7. HandsApart'
  BY <1>5 DEF LedgerInv, HandsApart
<1>8. RowsOK'
  BY <1>1, <1>2, <1>3 DEF LedgerInv, RowsOK
<1>9. ListedKept'
  BY <1>1, <1>2 DEF LedgerInv, ListedKept, RowsOK
<1>10. LedgerTells'
  BY <1>1, <1>2, <1>3 DEF LedgerInv, LedgerTells, RowsOK
<1> QED
  BY <1>1, <1>4, <1>6, <1>7, <1>8, <1>9, <1>10 DEF LedgerInv, Tables

-----------------------------------------------------------------------------

\* Adjustments and dispatches of a size add up to the change of its stock and
\* the last balance_after is its stock, whatever requests overlap on its
\* product and whichever of them fail.
THEOREM LedgerCorrect == Spec => []LedgerTells
<1>1. LedgerInv /\ [Next]_vars => LedgerInv'
  <2> SUFFICES ASSUME LedgerInv, [Next]_vars PROVE LedgerInv'
    OBVIOUS
  <2>1. CASE UNCHANGED vars
    BY <2>1 DEF vars, LedgerInv, Tables, RowsOK, ListedKept, HandsSound, Sound, SizesOf,
                HandsApart, LedgerTells
  <2>2. CASE \E p \in Products :
               \/ \E V \in SUBSET {v \in Variants : ProductOf[v] = p} :
                    \E stock \in [UNION {InVariant(v) : v \in V} -> 0..MaxStock] :
                      CreateProduct(p, stock)
               \/ DestroyProduct(p)
    BY <2>2, CreateProductStep, DestroyProductStep
  <2>3. CASE \E s \in Sizes :
               Reserve(s) \/ Ship(s) \/ \E kept \in BOOLEAN : Release(s, kept)
    BY <2>3, PromiseStep, ShipStep
  <2>4. ASSUME NEW r \in Requests,
               \E s \in Sizes, n \in {-1, 1} : Adjust(r, s, n)
        PROVE  LedgerInv'
    <3>1. {-1, 1} \subseteq Int
      OBVIOUS
    <3> QED BY <2>4, <3>1, AdjustStep
  <2>5. ASSUME NEW r \in Requests, NEW v \in Variants,
               \/ \E stock \in [InVariant(v) -> 0..MaxStock] : CreateVariant(r, v, stock)
               \/ DeleteVariant(r, v)
        PROVE  LedgerInv'
    BY <2>5, CreateVariantStep, DeleteVariantStep
  <2>6. ASSUME NEW r \in Requests,
               (\E p \in Products : LoadProduct(r, p)) \/ Refresh(r) \/ Commit(r) \/ Abort(r)
        PROVE  LedgerInv'
    BY <2>6, LoadProductStep, RefreshStep, CommitStep, AbortStep
  <2> QED BY <2>1, <2>2, <2>3, <2>4, <2>5, <2>6 DEF Next
<1>2. LedgerInv => LedgerTells
  BY DEF LedgerInv
<1> QED BY <1>1, <1>2, LedgerInit, PTL DEF Spec

\* A list that filters sizes by their columns finds exactly those that
\* is_low_stock and available_qty call low and out of stock.
THEOREM LowStockSame ==
  ASSUME NEW s \in Sizes, shelf[s] \in Nat, reserved[s] \in Nat
  PROVE  /\ LowStockFilter(s) <=> IsLowStock(s)
         /\ OutOfStockFilter(s) <=> Available(s) = 0
BY ReorderAssumption DEF LowStockFilter, IsLowStock, OutOfStockFilter, Available

-----------------------------------------------------------------------------
\* The stored total

ProductsOK == product \in [Products -> [state : {"absent", "live", "deleted"}, total : Nat]]

\* A product without a row has no sizes.
AbsentBare ==
  \A s \in Sizes : product[ProductOf[VariantOf[s]]].state = "absent" => shelf[s] = NoStock

\* What is promised is on the shelf, and stays on it when a request commits.
Covered ==
  /\ \A s \in Sizes : shelf[s] # NoStock => reserved[s] <= shelf[s]
  /\ \A r \in Requests : hand[r] # NoRequest =>
       \A s \in DOMAIN hand[r].rows : reserved[s] <= hand[r].rows[s]

\* No two requests adjust one product.
OneOwner ==
  \A q, r \in Requests :
    hand[q] # NoRequest /\ hand[r] # NoRequest /\ q # r /\ hand[q].op = "adjust"
      /\ hand[r].op = "adjust" => hand[q].product # hand[r].product

\* A request that is alone has seen what its product holds.
TotalHolds(r) ==
  LET h == hand[r]
  IN /\ h.total \in Nat /\ h.alone \in BOOLEAN
     /\ h.op = "patch" => DOMAIN h.rows = {} /\ h.step = "summed"
     /\ h.alone =>
          /\ \A q \in Requests : hand[q] # NoRequest /\ q # r => hand[q].product # h.product
          /\ h.op = "patch" => h.total = product[h.product].total
          /\ h.op # "patch" /\ h.step = "summed" => h.total = TotalOf(Own(r), SizesOf(h.product))

TotalsHold == \A r \in Requests : hand[r] # NoRequest => TotalHolds(r)

TotalInv ==
  LedgerInv /\ ProductsOK /\ AbsentBare /\ Covered /\ OneOwner /\ TotalsHold /\ TotalStockExact

\* Totals depend on the sizes that they add up.
LEMMA SameTotal ==
  ASSUME NEW f, NEW g, NEW S, \A s \in S : f[s] = g[s]
  PROVE  TotalOf(f, S) = TotalOf(g, S)
<1>1. [s \in {x \in S : f[x] # NoStock} |-> f[s]] = [s \in {x \in S : g[x] # NoStock} |-> g[s]]
  OBVIOUS
<1> QED
  BY <1>1 DEF TotalOf

LEMMA TotalType ==
  ASSUME NEW f, NEW S \in SUBSET Sizes, \A s \in S : f[s] \in Nat \cup {NoStock}
  PROVE  TotalOf(f, S) \in Nat
<1> DEFINE D == {x \in S : f[x] # NoStock}
<1>1. IsFiniteSet(D)
  BY SetsAssumption, FS_Subset
<1>2. [s \in D |-> f[s]] \in [D -> Nat]
  OBVIOUS
<1> QED
  BY <1>1, <1>2, SumType DEF TotalOf

\* The sizes hold natural numbers of pieces.
LEMMA ShelfNat ==
  ASSUME LedgerInv, Covered, NEW s \in Sizes
  PROVE  /\ reserved[s] \in Nat
         /\ shelf[s] # NoStock => shelf[s] \in Nat /\ reserved[s] <= shelf[s]
         /\ shelf[s] = NoStock => reserved[s] = 0
BY DEF LedgerInv, RowsOK, ListedKept, Covered

LEMMA RowsNat ==
  ASSUME LedgerInv, Covered, NEW r \in Requests, hand[r] # NoRequest, NEW s \in DOMAIN hand[r].rows
  PROVE  s \in SizesOf(hand[r].product) /\ s \in Sizes /\ hand[r].rows[s] \in Nat
<1>1. s \in SizesOf(hand[r].product) /\ s \in Sizes /\ hand[r].rows[s] \in Int
  BY DEF LedgerInv, HandsSound, Sound, SizesOf
<1> QED
  BY <1>1 DEF LedgerInv, RowsOK, Covered

\* What the others do to a request: it stays as it is, or is not alone any more.
Less(r) ==
  /\ hand[r] # NoRequest
  /\ hand'[r] = hand[r] \/ hand'[r] = [hand[r] EXCEPT !.alone = FALSE]

LEMMA LessFields ==
  ASSUME TotalInv, NEW r \in Requests, Less(r)
  PROVE  /\ hand'[r].op = hand[r].op /\ hand'[r].product = hand[r].product
         /\ hand'[r].step = hand[r].step /\ hand'[r].rows = hand[r].rows
         /\ hand'[r].qty = hand[r].qty /\ hand'[r].total = hand[r].total
         /\ hand'[r].alone \in BOOLEAN
         /\ hand'[r].alone => hand'[r] = hand[r] /\ hand[r].alone
<1>1. DOMAIN hand[r] = Fields /\ hand[r].alone \in BOOLEAN
  BY DEF Less, TotalInv, LedgerInv, HandsSound, Sound, TotalsHold, TotalHolds
<1>2. CASE hand'[r] = hand[r]
  BY <1>1, <1>2
<1>3. CASE hand'[r] = [hand[r] EXCEPT !.alone = FALSE]
  BY <1>1, <1>3 DEF Fields
<1> QED
  BY <1>2, <1>3 DEF Less

LEMMA HandStays ==
  ASSUME TotalInv, NEW r \in Requests, Less(r),
         hand'[r].alone =>
           /\ \A s \in SizesOf(hand[r].product) : shelf'[s] = shelf[s]
           /\ product'[hand[r].product].total = product[hand[r].product].total
           /\ \A q \in Requests : hand'[q] # NoRequest /\ q # r => hand'[q].product # hand[r].product
  PROVE  TotalHolds(r)'
<1> DEFINE h == hand[r]
<1>1. TotalHolds(r)
  BY DEF TotalInv, TotalsHold, Less
<1>2. /\ hand'[r].op = h.op /\ hand'[r].product = h.product /\ hand'[r].step = h.step
      /\ hand'[r].rows = h.rows /\ hand'[r].total = h.total /\ hand'[r].alone \in BOOLEAN
      /\ hand'[r].alone => h.alone
  BY LessFields
<1>3. ASSUME hand'[r].alone, h.op # "patch", h.step = "summed"
      PROVE  h.total = TotalOf(Own(r)', SizesOf(h.product))
  <2>1. h.total = TotalOf(Own(r), SizesOf(h.product))
    BY <1>1, <1>2, <1>3 DEF TotalHolds
  <2>2. \A s \in SizesOf(h.product) : Own(r)'[s] = Own(r)[s]
    BY <1>2, <1>3 DEF Own, SizesOf
  <2> QED
    BY <2>1, <2>2, SameTotal
<1>4. SizesOf(hand[r].product)' = SizesOf(h.product)
  BY <1>2 DEF SizesOf
<1> QED
  BY <1>1, <1>2, <1>3, <1>4 DEF TotalHolds

\* A slot is taken.
LEMMA TakeTotals ==
  ASSUME TotalInv, NEW r \in Requests, NEW h, Take(r, h), DOMAIN h = Fields,
         h.total \in Nat, UNCHANGED <<product, reserved>>,
         h.op = "adjust" => Owners(h.product) = {},
         h.op = "patch" => /\ DOMAIN h.rows = {} /\ h.step = "summed"
                           /\ h.total = product[h.product].total,
         h.op # "patch" => h.step = "written",
         \A s \in DOMAIN h.rows : reserved[s] <= h.rows[s],
         \A s \in Sizes : s \notin SizesOf(h.product) => shelf'[s] = shelf[s],
         \A s \in Sizes : shelf'[s] # NoStock => shelf'[s] = shelf[s]
  PROVE  OneOwner' /\ TotalsHold' /\ Covered'
<1> DEFINE apart == {q \in Open(h.product) : ~(h.op = "adjust" /\ hand[q].op = "adjust")}
           mine == [h EXCEPT !.alone = (apart = {})]
<1>1. /\ hand[r] = NoRequest /\ hand'[r] = mine
      /\ \A q \in Requests \ {r} :
           hand'[q] = IF q \in apart THEN [hand[q] EXCEPT !.alone = FALSE] ELSE hand[q]
  <2>1. hand' = [q \in Requests |-> IF q = r THEN mine
                                  ELSE IF q \in apart THEN [hand[q] EXCEPT !.alone = FALSE]
                                  ELSE hand[q]]
    BY DEF Take
  <2> HIDE DEF apart, mine
  <2> QED
    BY <2>1 DEF Take
<1>2. apart = Open(h.product)
  BY DEF Owners
<1>3. /\ mine.op = h.op /\ mine.product = h.product /\ mine.step = h.step /\ mine.rows = h.rows
      /\ mine.total = h.total /\ mine.alone \in BOOLEAN /\ (mine.alone => apart = {})
  <2>1. (apart = {}) \in BOOLEAN
    OBVIOUS
  <2> HIDE DEF apart
  <2> QED
    BY <2>1 DEF Fields
<1> HIDE DEF apart, mine
<1>4. ASSUME NEW q \in Requests, q # r, hand'[q] # NoRequest
      PROVE  /\ Less(q)
             /\ hand'[q].product = hand[q].product /\ hand'[q].op = hand[q].op
             /\ hand'[q].rows = hand[q].rows
             /\ q \in apart <=> hand[q].product = h.product
             /\ hand'[q].alone => q \notin apart
  <2>1. q \in apart => q \in Requests /\ hand[q] # NoRequest
    BY <1>2 DEF Open
  <2>2. Less(q)
    <3>1. CASE q \in apart
      <4>1. hand'[q] = [hand[q] EXCEPT !.alone = FALSE] /\ hand[q] # NoRequest
        BY <1>1, <1>4, <2>1, <3>1
      <4> QED
        BY <4>1 DEF Less
    <3>2. CASE q \notin apart
      <4>1. hand'[q] = hand[q]
        BY <1>1, <1>4, <3>2
      <4> QED
        BY <4>1, <1>4 DEF Less
    <3> QED
      BY <3>1, <3>2
  <2>3. q \in apart <=> hand[q].product = h.product
    BY <1>2, <2>2 DEF Open, Less
  <2>4. ASSUME hand'[q].alone, q \in apart
        PROVE  FALSE
    <3>1. hand'[q] = [hand[q] EXCEPT !.alone = FALSE] /\ DOMAIN hand[q] = Fields
      BY <1>1, <1>4, <2>1, <2>4 DEF TotalInv, LedgerInv, HandsSound, Sound
    <3> QED
      BY <2>4, <3>1 DEF Fields
  <2> QED
    BY <2>2, <2>3, <2>4, LessFields
<1>5. OneOwner'
  <2>1. ASSUME NEW q \in Requests, q # r, hand'[q] # NoRequest, hand'[q].op = "adjust",
               h.op = "adjust"
        PROVE  hand'[q].product # h.product
    BY <1>4, <2>1 DEF Owners, Open, Less
  <2>2. ASSUME NEW p \in Requests, NEW q \in Requests, p # r, q # r, p # q,
               hand'[p] # NoRequest, hand'[q] # NoRequest,
               hand'[p].op = "adjust", hand'[q].op = "adjust"
        PROVE  hand'[p].product # hand'[q].product
    <3>1. /\ hand[p] # NoRequest /\ hand[p].op = "adjust" /\ hand'[p].product = hand[p].product
          /\ hand[q] # NoRequest /\ hand[q].op = "adjust" /\ hand'[q].product = hand[q].product
      BY <1>4, <2>2 DEF Less
    <3>2. hand[p].product # hand[q].product
      BY <2>2, <3>1 DEF TotalInv, OneOwner
    <3> QED
      BY <3>1, <3>2
  <2> QED
    BY <1>1, <1>3, <2>1, <2>2 DEF OneOwner
<1>6. ASSUME NEW q \in Requests, q # r, hand'[q] # NoRequest
      PROVE  TotalHolds(q)'
  <2>1. Less(q) /\ (hand'[q].alone => hand[q].product # h.product)
    BY <1>4, <1>6
  <2>2. ASSUME hand'[q].alone
        PROVE  /\ \A s \in SizesOf(hand[q].product) : shelf'[s] = shelf[s]
               /\ \A p \in Requests : hand'[p] # NoRequest /\ p # q => hand'[p].product # hand[q].product
    <3>1. \A s \in SizesOf(hand[q].product) : s \in Sizes /\ s \notin SizesOf(h.product)
      BY <2>1, <2>2 DEF SizesOf
    <3>2. hand[q].alone /\ hand[q] # NoRequest
      BY <2>1, <2>2, LessFields DEF Less
    <3>3. \A p \in Requests : hand[p] # NoRequest /\ p # q => hand[p].product # hand[q].product
      BY <3>2 DEF TotalInv, TotalsHold, TotalHolds
    <3>4. ASSUME NEW p \in Requests, hand'[p] # NoRequest, p # q
          PROVE  hand'[p].product # hand[q].product
      <4>1. CASE p = r
        BY <1>1, <1>3, <2>1, <2>2, <4>1
      <4>2. CASE p # r
        BY <1>4, <3>3, <3>4, <4>2 DEF Less
      <4> QED
        BY <4>1, <4>2
    <3> QED
      BY <3>1, <3>4
  <2> QED
    BY <2>1, <2>2, HandStays
<1>7. TotalHolds(r)'
  <2>1. ASSUME hand'[r].alone, NEW q \in Requests, hand'[q] # NoRequest, q # r
        PROVE  hand'[q].product # h.product
    BY <1>1, <1>3, <1>4, <2>1
  <2> QED
    BY <1>1, <1>3, <2>1 DEF TotalHolds
<1>8. TotalsHold'
  BY <1>6, <1>7 DEF TotalsHold
<1>9. Covered'
  <2>1. ASSUME NEW q \in Requests, hand'[q] # NoRequest, NEW s \in DOMAIN hand'[q].rows
        PROVE  reserved'[s] <= hand'[q].rows[s]
    <3>1. CASE q = r
      BY <1>1, <1>3, <2>1, <3>1
    <3>2. CASE q # r
      BY <1>4, <2>1, <3>2 DEF TotalInv, Covered, Less
    <3> QED
      BY <3>1, <3>2
  <2>2. \A s \in Sizes : shelf'[s] # NoStock => reserved'[s] <= shelf'[s]
    BY DEF TotalInv, Covered
  <2> QED
    BY <2>1, <2>2 DEF Covered
<1> QED
  BY <1>5, <1>8, <1>9

\* The totals stay right where neither sizes nor product change.
LEMMA ExactStays ==
  ASSUME TotalInv, NEW p \in Products, p \notin adrift, product[p].state # "absent",
         product'[p].total = product[p].total,
         \A s \in SizesOf(p) : shelf'[s] = shelf[s]
  PROVE  product'[p].total = TotalOf(shelf', SizesOf(p))
<1>1. product[p].total = TotalOf(shelf, SizesOf(p))
  BY DEF TotalInv, TotalStockExact
<1>2. TotalOf(shelf', SizesOf(p)) = TotalOf(shelf, SizesOf(p))
  BY SameTotal
<1> QED
  BY <1>1, <1>2

LEMMA AdjustTotals ==
  ASSUME TotalInv, NEW r \in Requests, NEW s \in Sizes, NEW n \in {-1, 1}, Adjust(r, s, n)
  PROVE  TotalInv'
<1> DEFINE p == ProductOf[VariantOf[s]]
           h == Request("adjust", p, "written", [x \in {s} |-> shelf[s] + n], n, 0)
<1>1. /\ shelf[s] # NoStock /\ Owners(p) = {} /\ (n < 0 => Available(s) >= -n) /\ Take(r, h)
      /\ UNCHANGED <<product, shelf, reserved, adrift>>
  BY DEF Adjust
<1>2. LedgerInv'
  BY AdjustStep DEF TotalInv
<1>3. reserved[s] <= shelf[s] + n
  <2>1. shelf[s] \in Nat /\ reserved[s] \in Nat /\ reserved[s] <= shelf[s]
    BY <1>1, ShelfNat DEF TotalInv
  <2> QED
    BY <1>1, <2>1 DEF Available
<1>4. /\ DOMAIN h = Fields /\ h.total = 0 /\ h.op = "adjust" /\ h.product = p /\ h.step = "written"
      /\ h.rows = [x \in {s} |-> shelf[s] + n]
  BY DEF Request, Fields
<1> HIDE DEF h
<1>5. OneOwner' /\ TotalsHold' /\ Covered'
  BY <1>1, <1>3, <1>4, TakeTotals
<1>6. ProductsOK' /\ AbsentBare' /\ TotalStockExact'
  BY <1>1 DEF TotalInv, ProductsOK, AbsentBare, TotalStockExact, TotalOf, SizesOf
<1> QED
  BY <1>2, <1>5, <1>6 DEF TotalInv

LEMMA CreateVariantTotals ==
  ASSUME TotalInv, NEW r \in Requests, NEW v \in Variants,
         NEW stock \in [InVariant(v) -> 0..MaxStock], CreateVariant(r, v, stock)
  PROVE  TotalInv'
<1> DEFINE h == Request("create", ProductOf[v], "written", stock, 0, 0)
<1>1. /\ Take(r, h) /\ \A s \in InVariant(v) : shelf[s] = NoStock
      /\ UNCHANGED <<product, shelf, reserved, adrift>>
  BY DEF CreateVariant
<1>2. LedgerInv'
  BY CreateVariantStep DEF TotalInv
<1>3. \A s \in DOMAIN stock : reserved[s] <= stock[s]
  <2>1. ASSUME NEW s \in InVariant(v)
        PROVE  s \in Sizes /\ reserved[s] = 0
    BY <1>1, <2>1, ShelfNat DEF TotalInv, InVariant
  <2> QED
    BY <2>1
<1>4. /\ DOMAIN h = Fields /\ h.total = 0 /\ h.op = "create" /\ h.step = "written" /\ h.rows = stock
  BY DEF Request, Fields
<1> HIDE DEF h
<1>5. OneOwner' /\ TotalsHold' /\ Covered'
  BY <1>1, <1>3, <1>4, TakeTotals
<1>6. ProductsOK' /\ AbsentBare' /\ TotalStockExact'
  BY <1>1 DEF TotalInv, ProductsOK, AbsentBare, TotalStockExact, TotalOf, SizesOf
<1> QED
  BY <1>2, <1>5, <1>6 DEF TotalInv

LEMMA LoadProductTotals ==
  ASSUME TotalInv, NEW r \in Requests, NEW p \in Products, LoadProduct(r, p)
  PROVE  TotalInv'
<1> DEFINE h == Request("patch", p, "summed", <<>>, 0, product[p].total)
<1>1. Take(r, h) /\ UNCHANGED <<product, shelf, reserved, adrift>>
  BY DEF LoadProduct
<1>2. LedgerInv'
  BY LoadProductStep DEF TotalInv
<1>3. product[p].total \in Nat
  BY DEF TotalInv, ProductsOK
<1>4. /\ DOMAIN h = Fields /\ h.total = product[p].total /\ h.op = "patch" /\ h.product = p
      /\ h.rows = <<>> /\ DOMAIN <<>> = {} /\ h.step = "summed"
  BY DEF Request, Fields
<1> HIDE DEF h
<1>5. OneOwner' /\ TotalsHold' /\ Covered'
  BY <1>1, <1>3, <1>4, TakeTotals
<1>6. ProductsOK' /\ AbsentBare' /\ TotalStockExact'
  BY <1>1 DEF TotalInv, ProductsOK, AbsentBare, TotalStockExact, TotalOf, SizesOf
<1> QED
  BY <1>2, <1>5, <1>6 DEF TotalInv

\* The total of the product has the sizes that go until it is refreshed.
LEMMA DeleteVariantTotals ==
  ASSUME TotalInv, NEW r \in Requests, NEW v \in Variants, DeleteVariant(r, v)
  PROVE  TotalInv'
<1> DEFINE p == ProductOf[v]
           h == Request("delete", p, "written", <<>>, 0, 0)
<1>1. /\ Take(r, h)
      /\ shelf' = [s \in Sizes |-> IF s \in InVariant(v) THEN NoStock ELSE shelf[s]]
      /\ adrift' = adrift \cup {p} /\ UNCHANGED <<product, reserved>>
  BY DEF DeleteVariant
<1>2. LedgerInv'
  BY DeleteVariantStep DEF TotalInv
<1>3. /\ DOMAIN h = Fields /\ h.total = 0 /\ h.op = "delete" /\ h.product = p /\ h.step = "written"
      /\ h.rows = <<>> /\ DOMAIN <<>> = {}
  BY DEF Request, Fields
<1> HIDE DEF h
<1>4. \A s \in Sizes : /\ s \notin SizesOf(p) => shelf'[s] = shelf[s]
                       /\ shelf'[s] # NoStock => shelf'[s] = shelf[s]
  BY <1>1 DEF SizesOf, InVariant
<1>5. OneOwner' /\ TotalsHold' /\ Covered'
  BY <1>1, <1>3, <1>4, TakeTotals
<1>6. ProductsOK' /\ AbsentBare'
  BY <1>1 DEF TotalInv, ProductsOK, AbsentBare
<1>7. ASSUME NEW q \in Products, product'[q].state # "absent", q \notin adrift'
      PROVE  product'[q].total = TotalOf(shelf', SizesOf(q))
  <2>1. q # p /\ q \notin adrift /\ product'[q].total = product[q].total
    BY <1>1, <1>7
  <2>2. \A s \in SizesOf(q) : shelf'[s] = shelf[s]
    BY <1>4, <2>1 DEF SizesOf
  <2> QED
    BY <1>1, <1>7, <2>1, <2>2, ExactStays
<1>8. TotalStockExact'
  BY <1>7 DEF TotalStockExact, SizesOf
<1> QED
  BY <1>2, <1>5, <1>6, <1>8 DEF TotalInv

LEMMA RefreshTotals ==
  ASSUME TotalInv, NEW r \in Requests, Refresh(r)
  PROVE  TotalInv'
<1> DEFINE h == hand[r]
           total == TotalOf(Own(r), SizesOf(h.product))
           new == [h EXCEPT !.step = "summed", !.total = total]
<1>1. /\ h # NoRequest /\ h.step = "written"
      /\ UNCHANGED <<product, shelf, reserved, listed, ledger, adrift>>
      /\ DOMAIN h = Fields /\ TotalHolds(r)
  BY DEF Refresh, TotalInv, LedgerInv, HandsSound, Sound, TotalsHold
<1>2. LedgerInv'
  BY RefreshStep DEF TotalInv
<1>3. total \in Nat
  <2>1. SizesOf(h.product) \subseteq Sizes
    BY DEF SizesOf
  <2>2. ASSUME NEW s \in SizesOf(h.product)
        PROVE  Own(r)[s] \in Nat \cup {NoStock}
    BY <1>1, ShelfNat, RowsNat DEF TotalInv, Own, SizesOf
  <2> QED
    BY <2>1, <2>2, TotalType
<1>4. hand'[r] = new /\ \A q \in Requests \ {r} : hand'[q] = hand[q]
  BY <1>1 DEF Refresh, TotalInv, LedgerInv, Tables
<1>5. /\ new.op = h.op /\ new.product = h.product /\ new.rows = h.rows /\ new.step = "summed"
      /\ new.alone = h.alone /\ new.total = total
  <2> HIDE DEF total
  <2> QED
    BY <1>1 DEF Fields
<1> HIDE DEF new
<1>6. TotalOf(Own(r), SizesOf(h.product))' = total
  BY <1>1, <1>4, <1>5 DEF Own, SizesOf, TotalOf
<1> HIDE DEF total
<1>7. TotalHolds(r)'
  <2>1. \A q \in Requests : hand'[q] # NoRequest /\ q # r =>
          hand[q] # NoRequest /\ hand'[q].product = hand[q].product
    BY <1>4
  <2>2. hand'[r].total = TotalOf(Own(r), SizesOf(hand[r].product))'
    <3>1. SizesOf(hand[r].product)' = SizesOf(h.product)'
      BY DEF SizesOf
    <3> QED
      BY <1>4, <1>5, <1>6, <3>1
  <2>3. h.op # "patch"
    BY <1>1 DEF TotalHolds
  <2> QED
    BY <1>1, <1>3, <1>4, <1>5, <2>1, <2>2, <2>3 DEF TotalHolds
<1>8. ASSUME NEW q \in Requests \ {r}, hand'[q] # NoRequest
      PROVE  TotalHolds(q)'
  <2>1. Less(q) /\ hand'[q] = hand[q]
    BY <1>4, <1>8 DEF Less
  <2>2. hand'[q].alone => \A x \in Requests : hand'[x] # NoRequest /\ x # q => hand'[x].product # hand[q].product
    BY <1>1, <1>4, <1>5, <2>1 DEF TotalInv, TotalsHold, TotalHolds, Less
  <2> QED
    BY <1>1, <2>1, <2>2, HandStays
<1>9. TotalsHold'
  BY <1>7, <1>8 DEF TotalsHold
<1>10. OneOwner'
  BY <1>1, <1>4, <1>5 DEF TotalInv, OneOwner
<1>11. Covered'
  BY <1>1, <1>4, <1>5 DEF TotalInv, Covered
<1>12. ProductsOK' /\ AbsentBare' /\ TotalStockExact'
  BY <1>1 DEF TotalInv, ProductsOK, AbsentBare, TotalStockExact, TotalOf, SizesOf
<1> QED
  BY <1>2, <1>9, <1>10, <1>11, <1>12 DEF TotalInv

\* What a lone request has added up becomes the total; whoever was not alone
\* leaves the product adrift.
LEMMA CommitTotals ==
  ASSUME TotalInv, NEW r \in Requests, Commit(r)
  PROVE  TotalInv'
<1> DEFINE h == hand[r]
           p == h.product
           new == [state |-> IF h.op = "patch" THEN "live" ELSE product[p].state, total |-> h.total]
<1>1. /\ h # NoRequest /\ h.step = "summed" /\ TotalHolds(r) /\ Sound(h)
      /\ product' = [product EXCEPT ![p] = new]
      /\ shelf' = Own(r)
      /\ adrift' = IF ~h.alone THEN adrift \cup {p}
                   ELSE IF h.op = "patch" THEN adrift ELSE adrift \ {p}
      /\ hand' = [hand EXCEPT ![r] = NoRequest]
      /\ UNCHANGED reserved
  BY DEF Commit, TotalInv, LedgerInv, HandsSound, TotalsHold
<1>2. LedgerInv'
  BY CommitStep DEF TotalInv
<1>3. p \in Products /\ product[p].state # "absent" /\ DOMAIN h.rows \subseteq SizesOf(p)
  BY <1>1 DEF Sound
<1>4. new \in [state : {"absent", "live", "deleted"}, total : Nat] /\ new.state # "absent" /\ new.total = h.total
  BY <1>1, <1>3 DEF TotalInv, ProductsOK, TotalHolds
<1> HIDE DEF new
<1>5. /\ product'[p] = new /\ \A q \in Products \ {p} : product'[q] = product[q]
      /\ \A q \in Requests : hand'[q] # NoRequest => q # r /\ hand'[q] = hand[q]
  BY <1>1, <1>3 DEF TotalInv, LedgerInv, Tables
<1>6. /\ \A s \in Sizes : shelf'[s] = IF s \in DOMAIN h.rows THEN h.rows[s] ELSE shelf[s]
      /\ \A s \in Sizes : s \notin SizesOf(p) => shelf'[s] = shelf[s]
  BY <1>1, <1>3 DEF Own
<1>7. ProductsOK'
  BY <1>1, <1>4 DEF TotalInv, ProductsOK
<1>8. AbsentBare'
  BY <1>4, <1>5, <1>6 DEF TotalInv, AbsentBare, SizesOf
<1>9. Covered'
  <2>1. \A s \in Sizes : shelf'[s] # NoStock => reserved'[s] <= shelf'[s]
    BY <1>1, <1>6 DEF TotalInv, Covered
  <2>2. ASSUME NEW q \in Requests, hand'[q] # NoRequest
        PROVE  \A s \in DOMAIN hand'[q].rows : reserved'[s] <= hand'[q].rows[s]
    BY <1>1, <1>5, <2>2 DEF TotalInv, Covered
  <2> QED
    BY <2>1, <2>2 DEF Covered
<1>10. OneOwner'
  BY <1>5 DEF TotalInv, OneOwner
<1>11. ASSUME NEW q \in Requests, hand'[q] # NoRequest
       PROVE  TotalHolds(q)'
  <2>1. q # r /\ Less(q) /\ hand'[q] = hand[q] /\ TotalHolds(q)
    BY <1>5, <1>11 DEF Less, TotalInv, TotalsHold
  <2>2. ASSUME hand'[q].alone
        PROVE  /\ hand[q].product # p /\ hand[q].product \in Products
               /\ \A x \in Requests : hand'[x] # NoRequest /\ x # q => hand'[x].product # hand[q].product
    <3>1. hand[q].product \in Products
      BY <1>5, <1>11 DEF TotalInv, LedgerInv, HandsSound, Sound
    <3> QED
      BY <1>1, <1>5, <2>1, <2>2, <3>1 DEF TotalHolds
  <2>3. hand'[q].alone => \A s \in SizesOf(hand[q].product) : shelf'[s] = shelf[s]
    BY <1>6, <2>2 DEF SizesOf
  <2> QED
    BY <1>5, <2>1, <2>2, <2>3, HandStays
<1>12. TotalsHold'
  BY <1>11 DEF TotalsHold
<1>13. ASSUME NEW q \in Products, product'[q].state # "absent", q \notin adrift'
       PROVE  product'[q].total = TotalOf(shelf', SizesOf(q))
  <2>1. CASE q # p
    <3>1. q \notin adrift /\ product'[q] = product[q]
      BY <1>1, <1>5, <1>13, <2>1
    <3>2. \A s \in SizesOf(q) : shelf'[s] = shelf[s]
      BY <1>6, <2>1 DEF SizesOf
    <3> QED
      BY <1>13, <3>1, <3>2, ExactStays
  <2>2. CASE q = p /\ h.op = "patch"
    <3>1. h.alone /\ p \notin adrift
      BY <1>1, <1>13, <2>2
    <3>2. h.total = product[p].total /\ DOMAIN h.rows = {}
      BY <1>1, <2>2, <3>1 DEF TotalHolds
    <3>3. \A s \in SizesOf(p) : shelf'[s] = shelf[s]
      BY <1>6, <3>2 DEF SizesOf
    <3> QED
      BY <1>3, <1>4, <1>5, <2>2, <3>1, <3>2, <3>3, ExactStays
  <2>3. CASE q = p /\ h.op # "patch"
    <3>1. h.alone
      BY <1>1, <1>13, <2>3
    <3>2. h.total = TotalOf(Own(r), SizesOf(p))
      BY <1>1, <2>3, <3>1 DEF TotalHolds
    <3> QED
      BY <1>1, <1>4, <1>5, <2>3, <3>2
  <2> QED
    BY <2>1, <2>2, <2>3
<1>14. TotalStockExact'
  BY <1>13 DEF TotalStockExact, SizesOf
<1> QED
  BY <1>2, <1>7, <1>8, <1>9, <1>10, <1>12, <1>14 DEF TotalInv

\* What a lone request would commit is as good as before, because it is gone.
LEMMA AbortTotals ==
  ASSUME TotalInv, NEW r \in Requests, Abort(r)
  PROVE  TotalInv'
<1>1. /\ \A q \in Requests : hand'[q] # NoRequest => q # r /\ hand'[q] = hand[q]
      /\ UNCHANGED <<product, shelf, reserved, listed, ledger, adrift>>
  BY DEF Abort, TotalInv, LedgerInv, Tables
<1>2. LedgerInv'
  BY AbortStep DEF TotalInv
<1>3. ASSUME NEW q \in Requests, hand'[q] # NoRequest
      PROVE  TotalHolds(q)'
  <2>1. Less(q) /\ hand'[q] = hand[q]
    BY <1>1, <1>3 DEF Less
  <2>2. hand'[q].alone =>
          \A x \in Requests : hand'[x] # NoRequest /\ x # q => hand'[x].product # hand[q].product
    BY <1>1, <1>3, <2>1 DEF TotalInv, TotalsHold, TotalHolds
  <2> QED
    BY <1>1, <2>1, <2>2, HandStays
<1>4. TotalsHold'
  BY <1>3 DEF TotalsHold
<1>5. OneOwner' /\ Covered'
  BY <1>1 DEF TotalInv, OneOwner, Covered
<1>6. ProductsOK' /\ AbsentBare' /\ TotalStockExact'
  BY <1>1 DEF TotalInv, ProductsOK, AbsentBare, TotalStockExact, TotalOf, SizesOf
<1> QED
  BY <1>2, <1>4, <1>5, <1>6 DEF TotalInv

\* The first total of a product has all its sizes: none had a row before.
LEMMA CreateProductTotals ==
  ASSUME TotalInv, NEW p \in Products, NEW V \in SUBSET {v \in Variants : ProductOf[v] = p},
         NEW stock \in [UNION {InVariant(v) : v \in V} -> 0..MaxStock], CreateProduct(p, stock)
  PROVE  TotalInv'
<1> DEFINE total == TotalOf(stock, DOMAIN stock)
<1>1. /\ product[p].state = "absent"
      /\ product' = [product EXCEPT ![p] = [state |-> "live", total |-> total]]
      /\ shelf' = [s \in Sizes |-> IF s \in DOMAIN stock THEN stock[s] ELSE shelf[s]]
      /\ UNCHANGED <<reserved, listed, hand, adrift>>
  BY DEF CreateProduct
<1>2. LedgerInv'
  BY CreateProductStep DEF TotalInv
<1>3. DOMAIN stock \subseteq SizesOf(p) /\ \A s \in DOMAIN stock : stock[s] \in Nat /\ stock[s] # NoStock
  BY DEF SizesOf, InVariant
<1>4. total \in Nat
  <2>1. DOMAIN stock \subseteq Sizes
    BY <1>3 DEF SizesOf
  <2> QED
    BY <1>3, <2>1, TotalType
<1>5. total = TotalOf(shelf', SizesOf(p))
  <2>1. \A s \in SizesOf(p) : s \in Sizes /\ shelf[s] = NoStock
    BY <1>1 DEF TotalInv, AbsentBare, SizesOf
  <2>2. /\ {s \in SizesOf(p) : shelf'[s] # NoStock} = DOMAIN stock
        /\ {s \in DOMAIN stock : stock[s] # NoStock} = DOMAIN stock
    BY <1>1, <1>3, <2>1
  <2>3. \A s \in DOMAIN stock : shelf'[s] = stock[s]
    BY <1>1, <1>3, <2>1
  <2>4. [s \in DOMAIN stock |-> shelf'[s]] = [s \in DOMAIN stock |-> stock[s]]
    BY <2>3
  <2> QED
    BY <2>2, <2>4 DEF TotalOf
<1> HIDE DEF total
<1>6. /\ product'[p] = [state |-> "live", total |-> total]
      /\ \A q \in Products \ {p} : product'[q] = product[q]
      /\ \A s \in Sizes : s \notin SizesOf(p) => shelf'[s] = shelf[s]
  BY <1>1, <1>3 DEF TotalInv, LedgerInv, Tables
<1>7. ProductsOK'
  BY <1>1, <1>4 DEF TotalInv, ProductsOK
<1>8. AbsentBare'
  BY <1>6 DEF TotalInv, AbsentBare, SizesOf
<1>9. Covered'
  <2>1. ASSUME NEW s \in Sizes, shelf'[s] # NoStock
        PROVE  reserved'[s] <= shelf'[s]
    <3>1. CASE s \in DOMAIN stock
      <4>1. shelf[s] = NoStock
        BY <1>1, <1>3, <3>1 DEF TotalInv, AbsentBare, SizesOf
      <4>2. reserved[s] = 0
        BY <4>1, ShelfNat DEF TotalInv
      <4> QED
        BY <1>1, <1>3, <3>1, <4>2
    <3>2. CASE s \notin DOMAIN stock
      BY <1>1, <2>1, <3>2 DEF TotalInv, Covered
    <3> QED
      BY <3>1, <3>2
  <2> QED
    BY <1>1, <2>1 DEF TotalInv, Covered
<1>10. OneOwner'
  BY <1>1 DEF TotalInv, OneOwner
<1>11. ASSUME NEW q \in Requests, hand'[q] # NoRequest
       PROVE  TotalHolds(q)'
  <2>1. Less(q) /\ hand'[q] = hand[q] /\ TotalHolds(q)
    BY <1>1, <1>11 DEF Less, TotalInv, TotalsHold
  <2>2. hand[q].product \in Products /\ hand[q].product # p
    BY <1>1, <2>1 DEF Less, TotalInv, LedgerInv, HandsSound, Sound
  <2>3. \A s \in SizesOf(hand[q].product) : shelf'[s] = shelf[s]
    BY <1>6, <2>2 DEF SizesOf
  <2>4. product'[hand[q].product].total = product[hand[q].product].total
    BY <1>6, <2>2
  <2>5. hand'[q].alone =>
          \A x \in Requests : hand'[x] # NoRequest /\ x # q => hand'[x].product # hand[q].product
    BY <1>1, <2>1 DEF TotalHolds
  <2> QED
    BY <2>1, <2>3, <2>4, <2>5, HandStays
<1>12. TotalsHold'
  BY <1>11 DEF TotalsHold
<1>13. ASSUME NEW q \in Products, product'[q].state # "absent", q \notin adrift'
       PROVE  product'[q].total = TotalOf(shelf', SizesOf(q))
  <2>1. CASE q = p
    BY <1>5, <1>6, <2>1
  <2>2. CASE q # p
    <3>1. q \notin adrift /\ product'[q] = product[q]
      BY <1>1, <1>6, <1>13, <2>2
    <3>2. \A s \in SizesOf(q) : shelf'[s] = shelf[s]
      BY <1>6, <2>2 DEF SizesOf
    <3> QED
      BY <1>13, <3>1, <3>2, ExactStays
  <2> QED
    BY <2>1, <2>2
<1>14. TotalStockExact'
  BY <1>13 DEF TotalStockExact, SizesOf
<1> QED
  BY <1>2, <1>7, <1>8, <1>9, <1>10, <1>12, <1>14 DEF TotalInv

LEMMA DestroyProductTotals ==
  ASSUME TotalInv, NEW p \in Products, DestroyProduct(p)
  PROVE  TotalInv'
<1>1. /\ product[p].state = "live"
      /\ product' = [product EXCEPT ![p] = [state |-> "deleted", total |-> product[p].total]]
      /\ UNCHANGED <<shelf, reserved, listed, ledger, hand, adrift>>
  BY DEF DestroyProduct, Live
<1>2. LedgerInv'
  BY DestroyProductStep DEF TotalInv
<1>3. \A q \in Products : /\ product'[q].total = product[q].total
                          /\ product'[q].state # "absent" <=> product[q].state # "absent"
  BY <1>1 DEF TotalInv, ProductsOK
<1>4. ProductsOK'
  BY <1>1 DEF TotalInv, ProductsOK
<1>5. AbsentBare' /\ Covered' /\ OneOwner'
  BY <1>1, <1>3 DEF TotalInv, AbsentBare, Covered, OneOwner
<1>6. ASSUME NEW q \in Requests, hand'[q] # NoRequest
      PROVE  TotalHolds(q)'
  <2>1. Less(q) /\ hand'[q] = hand[q] /\ TotalHolds(q) /\ hand[q].product \in Products
    BY <1>1, <1>6 DEF Less, TotalInv, TotalsHold, LedgerInv, HandsSound, Sound
  <2>2. hand'[q].alone =>
          \A x \in Requests : hand'[x] # NoRequest /\ x # q => hand'[x].product # hand[q].product
    BY <1>1, <2>1 DEF TotalHolds
  <2> QED
    BY <1>1, <1>3, <2>1, <2>2, HandStays
<1>7. TotalsHold'
  BY <1>6 DEF TotalsHold
<1>8. TotalStockExact'
  BY <1>1, <1>3 DEF TotalInv, TotalStockExact, TotalOf, SizesOf
<1> QED
  BY <1>2, <1>4, <1>5, <1>7, <1>8 DEF TotalInv

\* A promise is of a piece that is free, and of no size in an open transaction.
LEMMA PromiseTotals ==
  ASSUME TotalInv, NEW s \in Sizes, Reserve(s) \/ \E kept \in BOOLEAN : Release(s, kept)
  PROVE  TotalInv'
<1>1. s \notin Locked /\ UNCHANGED <<product, shelf, ledger, hand, adrift>>
  BY DEF Reserve, Release
<1>2. LedgerInv'
  BY PromiseStep DEF TotalInv
<1>3. /\ \A x \in Sizes \ {s} : reserved'[x] = reserved[x]
      /\ shelf[s] # NoStock => reserved'[s] <= shelf[s]
  <2>1. reserved[s] \in Nat /\ (shelf[s] # NoStock => shelf[s] \in Nat /\ reserved[s] <= shelf[s])
        /\ DOMAIN reserved = Sizes
    BY ShelfNat DEF TotalInv, LedgerInv, RowsOK
  <2> QED
    BY <2>1 DEF Reserve, Release, Available
<1>4. Covered'
  <2>1. ASSUME NEW q \in Requests, hand'[q] # NoRequest, NEW x \in DOMAIN hand'[q].rows
        PROVE  reserved'[x] <= hand'[q].rows[x]
    <3>1. x # s /\ x \in Sizes
      BY <1>1, <2>1, RowsNat DEF Locked, TotalInv
    <3> QED
      BY <1>1, <1>3, <2>1, <3>1 DEF TotalInv, Covered
  <2> QED
    BY <1>1, <1>3, <2>1 DEF TotalInv, Covered
<1>5. ASSUME NEW q \in Requests, hand'[q] # NoRequest
      PROVE  TotalHolds(q)'
  <2>1. Less(q) /\ hand'[q] = hand[q] /\ TotalHolds(q)
    BY <1>1, <1>5 DEF Less, TotalInv, TotalsHold
  <2>2. hand'[q].alone =>
          \A x \in Requests : hand'[x] # NoRequest /\ x # q => hand'[x].product # hand[q].product
    BY <1>1, <2>1 DEF TotalHolds
  <2> QED
    BY <1>1, <2>1, <2>2, HandStays
<1>6. TotalsHold'
  BY <1>5 DEF TotalsHold
<1>7. OneOwner' /\ ProductsOK' /\ AbsentBare' /\ TotalStockExact'
  BY <1>1 DEF TotalInv, OneOwner, ProductsOK, AbsentBare, TotalStockExact, TotalOf, SizesOf
<1> QED
  BY <1>2, <1>4, <1>6, <1>7 DEF TotalInv

\* A dispatch leaves the product adrift, and every request on it.
LEMMA ShipTotals ==
  ASSUME TotalInv, NEW s \in Sizes, Ship(s)
  PROVE  TotalInv'
<1> DEFINE p == ProductOf[VariantOf[s]]
<1>1. /\ reserved[s] > 0 /\ s \notin Locked
      /\ shelf' = [shelf EXCEPT ![s] = @ - 1]
      /\ reserved' = [reserved EXCEPT ![s] = @ - 1]
      /\ adrift' = adrift \cup {p}
      /\ hand' = [r \in Requests |->
           IF r \in Open(p) THEN [hand[r] EXCEPT !.alone = FALSE] ELSE hand[r]]
      /\ UNCHANGED product
  BY DEF Ship
<1>2. LedgerInv'
  BY ShipStep DEF TotalInv
<1>3. shelf[s] # NoStock /\ shelf[s] \in Nat /\ reserved[s] \in Nat /\ reserved[s] <= shelf[s]
  BY <1>1, ShelfNat DEF TotalInv
<1>4. /\ \A x \in Sizes \ {s} : shelf'[x] = shelf[x] /\ reserved'[x] = reserved[x]
      /\ shelf'[s] = shelf[s] - 1 /\ reserved'[s] = reserved[s] - 1 /\ s \in SizesOf(p)
  BY <1>1 DEF TotalInv, LedgerInv, RowsOK, SizesOf
<1>5. ASSUME NEW q \in Requests, hand'[q] # NoRequest
      PROVE  Less(q) /\ (hand'[q].alone => hand[q].product # p)
  <2>1. CASE q \in Open(p)
    <3>1. hand'[q] = [hand[q] EXCEPT !.alone = FALSE] /\ hand[q] # NoRequest
      BY <1>1, <2>1 DEF Open
    <3>2. DOMAIN hand[q] = Fields
      BY <3>1 DEF TotalInv, LedgerInv, HandsSound, Sound
    <3>3. ~hand'[q].alone
      BY <3>1, <3>2 DEF Fields
    <3> QED
      BY <3>1, <3>3 DEF Less
  <2>2. CASE q \notin Open(p)
    <3>1. hand'[q] = hand[q]
      BY <1>1, <2>2
    <3> QED
      BY <1>5, <2>2, <3>1 DEF Less, Open
  <2> QED
    BY <2>1, <2>2
<1>6. AbsentBare'
  BY <1>1, <1>3, <1>4 DEF TotalInv, AbsentBare
<1>7. Covered'
  <2>1. ASSUME NEW q \in Requests, hand'[q] # NoRequest, NEW x \in DOMAIN hand'[q].rows
        PROVE  reserved'[x] <= hand'[q].rows[x]
    <3>1. hand[q] # NoRequest /\ hand'[q].rows = hand[q].rows
      BY <1>5, <2>1, LessFields DEF Less
    <3>2. x # s /\ x \in Sizes
      BY <1>1, <2>1, <3>1, RowsNat DEF Locked, TotalInv
    <3> QED
      BY <1>4, <2>1, <3>1, <3>2 DEF TotalInv, Covered
  <2>2. ASSUME NEW x \in Sizes, shelf'[x] # NoStock
        PROVE  reserved'[x] <= shelf'[x]
    BY <1>3, <1>4, <2>2 DEF TotalInv, Covered
  <2> QED
    BY <2>1, <2>2 DEF Covered
<1>8. OneOwner'
  <2>1. ASSUME NEW q \in Requests, hand'[q] # NoRequest
        PROVE  hand[q] # NoRequest /\ hand'[q].op = hand[q].op /\ hand'[q].product = hand[q].product
    BY <1>5, <2>1, LessFields DEF Less
  <2> QED
    BY <2>1 DEF TotalInv, OneOwner
<1>9. ASSUME NEW q \in Requests, hand'[q] # NoRequest
      PROVE  TotalHolds(q)'
  <2>1. Less(q) /\ (hand'[q].alone => hand[q].product # p)
    BY <1>5, <1>9
  <2>2. ASSUME hand'[q].alone
        PROVE  /\ \A x \in SizesOf(hand[q].product) : shelf'[x] = shelf[x]
               /\ \A x \in Requests : hand'[x] # NoRequest /\ x # q => hand'[x].product # hand[q].product
    <3>1. \A x \in SizesOf(hand[q].product) : x \in Sizes \ {s}
      BY <2>1, <2>2 DEF SizesOf
    <3>2. hand[q].alone /\ hand[q] # NoRequest
      BY <2>1, <2>2, LessFields DEF Less
    <3>3. \A x \in Requests : hand[x] # NoRequest /\ x # q => hand[x].product # hand[q].product
      BY <3>2 DEF TotalInv, TotalsHold, TotalHolds
    <3>4. ASSUME NEW x \in Requests, hand'[x] # NoRequest
          PROVE  hand[x] # NoRequest /\ hand'[x].product = hand[x].product
      BY <1>5, <3>4, LessFields DEF Less
    <3> QED
      BY <1>4, <3>1, <3>3, <3>4
  <2> QED
    BY <1>1, <2>1, <2>2, HandStays
<1>10. TotalsHold'
  BY <1>9 DEF TotalsHold
<1>11. ProductsOK'
  BY <1>1 DEF TotalInv, ProductsOK
<1>12. ASSUME NEW q \in Products, product'[q].state # "absent", q \notin adrift'
       PROVE  product'[q].total = TotalOf(shelf', SizesOf(q))
  <2>1. q # p /\ q \notin adrift
    BY <1>1, <1>12
  <2>2. \A x \in SizesOf(q) : shelf'[x] = shelf[x]
    BY <1>4, <2>1 DEF SizesOf
  <2> QED
    BY <1>1, <1>12, <2>1, <2>2, ExactStays
<1>13. TotalStockExact'
  BY <1>12 DEF TotalStockExact, SizesOf
<1> QED
  BY <1>2, <1>6, <1>7, <1>8, <1>10, <1>11, <1>13 DEF TotalInv

LEMMA TotalInit == Init => TotalInv
<1> SUFFICES ASSUME Init PROVE TotalInv
  OBVIOUS
<1>1. LedgerInv
  BY LedgerInit
<1> QED
  BY <1>1 DEF Init, TotalInv, ProductsOK, AbsentBare, Covered, OneOwner, TotalsHold, TotalStockExact

LEMMA TotalStep == TotalInv /\ [Next]_vars => TotalInv'
<1> SUFFICES ASSUME TotalInv, [Next]_vars PROVE TotalInv'
  OBVIOUS
<1>1. CASE UNCHANGED vars
  <2>1. LedgerInv'
    BY <1>1 DEF vars, TotalInv, LedgerInv, Tables, RowsOK, ListedKept, HandsSound, Sound, SizesOf,
                HandsApart, LedgerTells
  <2>2. ASSUME NEW q \in Requests, hand'[q] # NoRequest
        PROVE  TotalHolds(q)'
    BY <1>1, <2>2, HandStays DEF vars, Less, TotalInv, TotalsHold, TotalHolds
  <2>3. TotalsHold'
    BY <2>2 DEF TotalsHold
  <2>4. OneOwner' /\ ProductsOK' /\ AbsentBare' /\ Covered' /\ TotalStockExact'
    BY <1>1 DEF vars, TotalInv, OneOwner, ProductsOK, AbsentBare, Covered, TotalStockExact, TotalOf, SizesOf
  <2> QED
    BY <2>1, <2>3, <2>4 DEF TotalInv
<1>2. CASE \E p \in Products :
             \/ \E V \in SUBSET {v \in Variants : ProductOf[v] = p} :
                  \E stock \in [UNION {InVariant(v) : v \in V} -> 0..MaxStock] :
                    CreateProduct(p, stock)
             \/ DestroyProduct(p)
  BY <1>2, CreateProductTotals, DestroyProductTotals
<1>3. CASE \E s \in Sizes :
             Reserve(s) \/ Ship(s) \/ \E kept \in BOOLEAN : Release(s, kept)
  BY <1>3, PromiseTotals, ShipTotals
<1>4. ASSUME NEW r \in Requests, \E s \in Sizes, n \in {-1, 1} : Adjust(r, s, n)
      PROVE  TotalInv'
  BY <1>4, AdjustTotals
<1>5. ASSUME NEW r \in Requests, NEW v \in Variants,
             \/ \E stock \in [InVariant(v) -> 0..MaxStock] : CreateVariant(r, v, stock)
             \/ DeleteVariant(r, v)
      PROVE  TotalInv'
  BY <1>5, CreateVariantTotals, DeleteVariantTotals
<1>6. ASSUME NEW r \in Requests,
             (\E p \in Products : LoadProduct(r, p)) \/ Refresh(r) \/ Commit(r) \/ Abort(r)
      PROVE  TotalInv'
  BY <1>6, LoadProductTotals, RefreshTotals, CommitTotals, AbortTotals
<1> QED
  BY <1>1, <1>2, <1>3, <1>4, <1>5, <1>6 DEF Next

THEOREM TotalInvCorrect == Spec => []TotalInv
BY TotalInit, TotalStep, PTL DEF Spec

\* The stored total of a product is what its sizes hold, whatever adjustments,
\* new or deleted variants and edits overlap or fail, but for the products that
\* a dispatch, a deletion cut short or two requests at once have left adrift.
THEOREM TotalStockCorrect == Spec => []TotalStockExact
<1>1. TotalInv => TotalStockExact
  BY DEF TotalInv
<1> QED
  BY <1>1, TotalInvCorrect, PTL


-----------------------------------------------------------------------------
\* The pages

\* A size with a row holds what is promised of it and what is free.
LEMMA FreeAndPromised ==
  ASSUME TotalInv, NEW S \in SUBSET Sizes, NEW s \in Rows(S)
  PROVE  /\ s \in Sizes /\ shelf[s] \in Nat /\ reserved[s] \in Nat /\ Available(s) \in Nat
         /\ shelf[s] = Available(s) + reserved[s]
         /\ LowStockFilter(s) <=> IsLowStock(s)
         /\ OutOfStockFilter(s) <=> Available(s) = 0
<1>1. s \in Sizes /\ shelf[s] # NoStock
  BY DEF Rows
<1>2. shelf[s] \in Nat /\ reserved[s] \in Nat /\ reserved[s] <= shelf[s]
  BY <1>1, ShelfNat DEF TotalInv
<1> QED
  BY <1>1, <1>2, LowStockSame DEF Available

LEMMA RowsFinite ==
  ASSUME NEW S \in SUBSET Sizes
  PROVE  IsFiniteSet(Rows(S))
BY SetsAssumption, FS_Subset DEF Rows

\* The pieces of some sizes are those free and those promised.
LEMMA PiecesDivide ==
  ASSUME TotalInv, NEW S \in SUBSET Sizes
  PROVE  TotalOf(shelf, S) = Sum(Rows(S), Available) + Sum(Rows(S), LAMBDA s : reserved[s])
<1> DEFINE R == Rows(S)
           all == [s \in R |-> shelf[s]]
           free == [s \in R |-> Available(s)]
           promised == [s \in R |-> reserved[s]]
<1>1. /\ all \in [R -> Nat] /\ free \in [R -> Nat] /\ promised \in [R -> Nat]
      /\ \A s \in R : all[s] = free[s] + promised[s]
  BY FreeAndPromised
<1>2. IsFiniteSet(R)
  BY RowsFinite
<1>3. /\ TotalOf(shelf, S) = SumOf(all)
      /\ Sum(Rows(S), Available) = SumOf(free)
      /\ Sum(Rows(S), LAMBDA s : reserved[s]) = SumOf(promised)
  BY DEF TotalOf, Sum, Rows
<1> HIDE DEF R, all, free, promised
<1>4. SumOf(all) = SumOf(free) + SumOf(promised)
  BY <1>1, <1>2, SumAdd
<1> QED
  BY <1>3, <1>4

\* What is free of some sizes is what is free of each of their groups.
Free(S) == Sum(S, Available)

LEMMA FreeGrouped ==
  ASSUME TotalInv, NEW S \in SUBSET Sizes, NEW A, IsFiniteSet(A), NEW g \in [Rows(S) -> A],
         NEW n, n = [a \in A |-> n[a]],
         \A a \in A : n[a] = Free(Group(Rows(S), g, a))
  PROVE  Free(Rows(S)) = SumOf(n)
<1> DEFINE R == Rows(S)
           free == [s \in R |-> Available(s)]
           groups == [a \in A |-> SumOf(On(free, Group(R, g, a)))]
<1>1. free \in [R -> Nat]
  BY FreeAndPromised
<1>2. IsFiniteSet(R) /\ g \in [R -> A]
  BY RowsFinite
<1>3. ASSUME NEW a \in A
      PROVE  groups[a] = n[a]
  <2>1. On(free, Group(R, g, a)) = [s \in Group(R, g, a) |-> Available(s)]
    BY DEF On, Group
  <2> QED
    BY <2>1 DEF Free, Sum
<1>4. groups = n
  BY <1>3
<1>5. Free(R) = SumOf(free)
  BY DEF Free, Sum
<1> HIDE DEF free, R
<1>6. SumOf(free) = SumOf(groups)
  BY <1>1, <1>2, SumGroups
<1> QED
  BY <1>4, <1>5, <1>6 DEF R

\* Products that have a row.
Rowed == {p \in Products : product[p].state # "absent"}

LEMMA RowedPages ==
  ASSUME TotalInv
  PROVE  /\ ProductList \cup {p \in Products : product[p].state = "deleted"} = Rowed
         /\ IsFiniteSet(Rowed)
         /\ \A s \in Rows(Sizes) : ProductOf[VariantOf[s]] \in Rowed
<1>1. \A p \in Products : product[p].state \in {"absent", "live", "deleted"}
  BY DEF TotalInv, ProductsOK
<1>2. ProductList \cup {p \in Products : product[p].state = "deleted"} = Rowed
  BY <1>1 DEF ProductList, Live, Rowed
<1>3. IsFiniteSet(Rowed)
  BY SetsAssumption, FS_Subset DEF Rowed
<1>4. \A s \in Rows(Sizes) : ProductOf[VariantOf[s]] \in Rowed
  BY DEF TotalInv, AbsentBare, Rows, Rowed
<1> QED
  BY <1>2, <1>3, <1>4

LEMMA PagesHold == TotalInv => PagesAgree
<1> SUFFICES ASSUME TotalInv PROVE PagesAgree
  OBVIOUS
<1> DEFINE inventory == InventorySummary
           deleted == {p \in Products : product[p].state = "deleted"}
<1>1. \A s \in Rows(Sizes) : /\ LowStockFilter(s) <=> IsLowStock(s)
                            /\ OutOfStockFilter(s) <=> Available(s) = 0
  BY FreeAndPromised
<1>2. LowStockItems = {s \in Rows(Sizes) : IsLowStock(s)}
  <2>1. \A s \in Rows(Sizes) : LowStockFilter(s) <=> IsLowStock(s)
    BY FreeAndPromised
  <2>2. LowStockItems = {s \in Rows(Sizes) : LowStockFilter(s)}
    BY Zenon DEF LowStockItems
  <2> HIDE DEF inventory, deleted
  <2> QED
    BY <2>1, <2>2, Zenon
<1>3. \A p \in Products : /\ SizesOf(p) \in SUBSET Sizes
                          /\ Rows(SizesOf(p)) = {s \in Rows(Sizes) : ProductOf[VariantOf[s]] = p}
  BY DEF SizesOf, Rows
<1>4. InventoryRows(TRUE) = {row \in InventoryRows(FALSE) : row.is_low_stock}
  <2> DEFINE Row(s) == [size |-> s, available |-> Available(s), is_low_stock |-> IsLowStock(s)]
  <2>1. /\ InventoryRows(TRUE) = {Row(s) : s \in LowStockItems}
        /\ InventoryRows(FALSE) = {Row(s) : s \in Rows(Sizes)}
    BY DEF InventoryRows
  <2>2. \A s \in Rows(Sizes) : Row(s).is_low_stock = IsLowStock(s)
    OBVIOUS
  <2> HIDE DEF Row
  <2> QED
    BY <1>2, <2>1, <2>2
<1>5. inventory.low_stock_count = Cardinality(LowStockItems)
  BY <1>2 DEF InventorySummary
<1>6. ASSUME NEW p \in ProductList
      PROVE  /\ p \in LowStockList <=> \E s \in LowStockItems : s \in SizesOf(p)
             /\ p \in OutOfStockList <=> \E s \in Rows(SizesOf(p)) : Available(s) = 0
             /\ AvailableStock(p) = Sum({v \in Variants : ProductOf[v] = p}, VariantStock)
             /\ Rows(SizesOf(p)) = (UNION {Scan(v) : v \in Variants}) \cap SizesOf(p)
             /\ p \notin adrift =>
                  product[p].total = AvailableStock(p) + Sum(Rows(SizesOf(p)), LAMBDA s : reserved[s])
  <2>1. p \in Products /\ Live(p)
    BY DEF ProductList
  <2>2. p \in LowStockList <=> \E s \in LowStockItems : s \in SizesOf(p)
    BY <1>1, <1>3, <2>1 DEF LowStockList, LowStockItems, SizesOf, Rows
  <2>3. p \in OutOfStockList <=> \E s \in Rows(SizesOf(p)) : Available(s) = 0
    <3>1. \A s \in Rows(SizesOf(p)) : OutOfStockFilter(s) <=> Available(s) = 0
      BY <1>3, <2>1, FreeAndPromised
    <3>2. p \in OutOfStockList <=> \E s \in Rows(SizesOf(p)) : OutOfStockFilter(s)
      BY Zenon DEF OutOfStockList
    <3> QED
      BY <3>1, <3>2, Zenon
  <2>4. AvailableStock(p) = Sum({v \in Variants : ProductOf[v] = p}, VariantStock)
    <3> DEFINE A == {v \in Variants : ProductOf[v] = p}
               R == Rows(SizesOf(p))
               g == [s \in R |-> VariantOf[s]]
    <3>1. IsFiniteSet(A)
      BY SetsAssumption, FS_Subset
    <3>2. g \in [R -> A]
      BY DEF Rows, SizesOf
    <3>3. ASSUME NEW v \in A
          PROVE  Free(Group(R, g, v)) = VariantStock(v)
      <4>1. Group(R, g, v) = Rows(InVariant(v))
        BY DEF Rows, SizesOf, InVariant, Group
      <4> HIDE DEF R, g
      <4> QED
        BY <4>1 DEF VariantStock, Free
    <3> DEFINE n == [v \in A |-> VariantStock(v)]
    <3>4. n = [v \in A |-> n[v]] /\ \A v \in A : n[v] = VariantStock(v)
      OBVIOUS
    <3>5. Free(R) = SumOf(n)
      <4> HIDE DEF A, g, n
      <4> QED
        BY <1>3, <2>1, <3>1, <3>2, <3>3, <3>4, FreeGrouped
    <3> QED
      BY <3>5 DEF AvailableStock, Free, Sum
  <2>5. Rows(SizesOf(p)) = (UNION {Scan(v) : v \in Variants}) \cap SizesOf(p)
    <3>1. \A s \in Sizes : VariantOf[s] \in Variants
      OBVIOUS
    <3>2. ASSUME NEW s \in Rows(SizesOf(p))
          PROVE  s \in Scan(VariantOf[s]) /\ VariantOf[s] \in Variants /\ s \in SizesOf(p)
      BY <2>1, <3>1 DEF Scan, Rows, SizesOf, InVariant
    <3>3. ASSUME NEW s \in SizesOf(p), NEW v \in Variants, s \in Scan(v)
          PROVE  s \in Rows(SizesOf(p))
      BY <3>3 DEF Scan, Rows
    <3> QED
      BY <3>2, <3>3 DEF Rows
  <2>6. ASSUME p \notin adrift
        PROVE  product[p].total = AvailableStock(p) + Sum(Rows(SizesOf(p)), LAMBDA s : reserved[s])
    <3>1. product[p].total = TotalOf(shelf, SizesOf(p))
      BY <2>1, <2>6 DEF TotalInv, TotalStockExact, Live
    <3> QED
      BY <1>3, <2>1, <3>1, PiecesDivide DEF AvailableStock
  <2> QED
    BY <2>2, <2>3, <2>4, <2>5, <2>6
<1>7. inventory.total_stock_units = inventory.total_available + inventory.total_reserved
  <2>1. TotalOf(shelf, Sizes) = Sum(Rows(Sizes), Available) + Sum(Rows(Sizes), LAMBDA s : reserved[s])
    BY PiecesDivide
  <2> QED
    BY <2>1 DEF InventorySummary
<1>8. inventory.total_available = Sum(ProductList \cup deleted, AvailableStock)
  <2> DEFINE g == [s \in Rows(Sizes) |-> ProductOf[VariantOf[s]]]
  <2>1. IsFiniteSet(Rowed) /\ g \in [Rows(Sizes) -> Rowed]
    BY RowedPages
  <2>2. ASSUME NEW p \in Rowed
        PROVE  Free(Group(Rows(Sizes), g, p)) = AvailableStock(p)
    <3>1. Group(Rows(Sizes), g, p) = Rows(SizesOf(p))
      BY <1>3 DEF Rowed, Group
    <3> QED
      BY <3>1 DEF AvailableStock, Free
  <2> DEFINE n == [p \in Rowed |-> AvailableStock(p)]
  <2>3. n = [p \in Rowed |-> n[p]] /\ \A p \in Rowed : n[p] = AvailableStock(p)
    OBVIOUS
  <2>4. Free(Rows(Sizes)) = SumOf(n)
    <3> HIDE DEF g, n
    <3> QED
      BY <2>1, <2>2, <2>3, FreeGrouped
  <2>5. Sum(Rows(Sizes), Available) = Sum(Rowed, AvailableStock)
    BY <2>4 DEF Free, Sum
  <2> QED
    BY <2>5, RowedPages DEF InventorySummary
<1>9. inventory.total_products <= Cardinality(ProductList \cup deleted)
  <2>1. {ProductOf[VariantOf[s]] : s \in Rows(Sizes)} \subseteq Rowed
    BY RowedPages
  <2>2. Cardinality({ProductOf[VariantOf[s]] : s \in Rows(Sizes)}) <= Cardinality(Rowed)
    BY <2>1, RowedPages, FS_Subset
  <2> QED
    BY <2>2, RowedPages DEF InventorySummary
<1>10. ASSUME OutOfStockList = {}, deleted = {}
       PROVE  inventory.out_of_stock_count = 0
  <2>1. ASSUME NEW s \in Rows(Sizes), Available(s) = 0
        PROVE  FALSE
    <3> DEFINE p == ProductOf[VariantOf[s]]
    <3>1. p \in ProductList
      BY <1>10, RowedPages
    <3>2. s \in Rows(SizesOf(p)) /\ OutOfStockFilter(s)
      BY <1>1, <2>1 DEF Rows, SizesOf
    <3> QED
      BY <1>10, <3>1, <3>2 DEF OutOfStockList
  <2>2. {s \in Rows(Sizes) : Available(s) = 0} = {}
    BY <2>1
  <2> QED
    BY <2>2, FS_EmptySet DEF InventorySummary
<1> QED
  BY <1>4, <1>5, <1>6, <1>7, <1>8, <1>9, <1>10 DEF PagesAgree

\* The product list, the list of variants, a scan, the inventory report and the
\* dashboard agree on what is low, out of stock, free and promised.
THEOREM PagesAgreeCorrect == Spec => []PagesAgree
BY PagesHold, TotalInvCorrect, PTL

================================================================================
