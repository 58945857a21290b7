----------------------------- MODULE DraftFlow -----------------------------
(***************************************************************************)
(* The draft order flow: apps/orders/order_flow.py, the offline sync path  *)
(* and the consumer's disconnect hook that call into it, and the stock     *)
(* adjustment endpoint that shares the VariantSize rows.                   *)
(*                                                                         *)
(* Every mutator opens a transaction, locks the order row (_lock_order),   *)
(* re-checks the draft (_require_draft), locks the VariantSize rows and    *)
(* holds the locks to its commit: one action each.  A call that raises an  *)
(* OrderFlowError rolls its savepoint back and changes nothing: it is a    *)
(* disabled action.  The expiry sweep is the exception: it collects ids    *)
(* without a lock and then handles each in a transaction of its own, so it *)
(* is two actions with anything in between.                                *)
(*                                                                         *)
(* The lines that one scan adds (one per size of the range) share a        *)
(* group_id.  A line is the pair group/size; quantity 0 means no line.     *)
(* A piece of a line is a unit <<group, k>>, k = 1..quantity, so that a    *)
(* sum of quantities is the cardinality of a set of units.                 *)
(***************************************************************************)
EXTENDS Integers, FiniteSets

CONSTANTS
  Orders,     \* ids of order rows
  Groups,     \* group_ids (uuid4)
  Variants,   \* VariantSize rows
  Ranges,     \* what a scan may resolve to: a size range or a single size
  Refs,       \* client_ref values
  Sweepers,   \* callers of expire_draft_orders: the beat task, requests
  MaxQty,     \* bound: largest quantity in a payload
  MaxStock,   \* bound: largest stock_quantity
  BatchSize,  \* batch_size of expire_draft_orders
  NoOrder, NoRef

ASSUME SetsAssumption ==
  /\ IsFiniteSet(Groups)
  /\ NoOrder \notin Orders
  /\ NoRef \notin Refs
  /\ Ranges \subseteq ((SUBSET Variants) \ {{}})

ASSUME BoundsAssumption ==
  /\ MaxQty \in Nat \ {0}
  /\ MaxStock \in Nat
  /\ BatchSize \in Nat \ {0}

VARIABLES
  status,     \* Order.status; "absent": no such row
  exp,        \* draft_expires_at: "none" (NULL), "future", "past"
  owner,      \* owner[g]: the order whose items carry group_id g
  ref,        \* ref[g]: the client_ref stored on those items
  qty,        \* qty[g][v]: OrderItem.quantity of the line g/v, 0: no line
  stock,      \* VariantSize.stock_quantity
  reserved,   \* VariantSize.reserved_qty
  batch       \* batch[s]: ids a running sweep has still to handle

vars == <<status, exp, owner, ref, qty, stock, reserved, batch>>

Statuses == {"absent", "draft", "submitted", "confirmed"}
Placed   == {"submitted", "confirmed"}
Units    == Groups \X (1..MaxQty)

-----------------------------------------------------------------------------
\* Reading the state

Lines(g)         == {v \in Variants : qty[g][v] > 0}
GroupsOf(o)      == {g \in Groups : owner[g] = o}
ItemUnits(v)     == {u \in Units : u[2] <= qty[u[1]][v]}
OrderUnits(o, v) == {u \in ItemUnits(v) : owner[u[1]] = o}

\* Faulty variant: what is on the shelf, promised or not.
AvailableIgnoresReserved(v) == stock[v]

\* VariantSize.available_qty: max(0, stock_quantity - reserved_qty).
Available(v) ==
  IF reserved[v] < stock[v] THEN stock[v] - reserved[v] ELSE 0

\* Greatest(F("reserved_qty") - n, 0): every release is clamped at zero.
Released(r, n) == IF n < r THEN r - n ELSE 0

\* Faulty variants: the status, or the expiry, is not looked at.
OpenAnyStatus(o) == status[o] # "absent" /\ exp[o] # "past"
OpenEvenExpired(o) == status[o] = "draft"

\* _require_draft.
OpenDraft(o) == status[o] = "draft" /\ exp[o] # "past"

Expired(o) == status[o] = "draft" /\ exp[o] = "past"

-----------------------------------------------------------------------------
\* Helpers that write

\* reserved_qty after giving back n[v] pieces of each size.
ReleaseAll(n) == [v \in Variants |-> Released(reserved[v], n[v])]

\* The items of o are gone and its group_ids with them.
DropItems(o) ==
  /\ qty' = [g \in Groups |->
               IF owner[g] = o THEN [v \in Variants |-> 0] ELSE qty[g]]
  /\ owner' = [g \in Groups |-> IF owner[g] = o THEN NoOrder ELSE owner[g]]
  /\ ref' = [g \in Groups |-> IF owner[g] = o THEN NoRef ELSE ref[g]]

\* Faulty variant: the order goes, its reservations stay.
DeleteWithoutRelease(o) ==
  /\ DropItems(o)
  /\ status' = [status EXCEPT ![o] = "absent"]
  /\ exp' = [exp EXCEPT ![o] = "none"]
  /\ UNCHANGED <<stock, reserved>>

\* _release_order_items, then order.delete(), which cascades to the items.
ReleaseAndDelete(o) ==
  /\ reserved' = ReleaseAll([v \in Variants |-> Cardinality(OrderUnits(o, v))])
  /\ DropItems(o)
  /\ status' = [status EXCEPT ![o] = "absent"]
  /\ exp' = [exp EXCEPT ![o] = "none"]
  /\ UNCHANGED stock

-----------------------------------------------------------------------------
Init ==
  /\ status = [o \in Orders |-> "absent"]
  /\ exp = [o \in Orders |-> "none"]
  /\ owner = [g \in Groups |-> NoOrder]
  /\ ref = [g \in Groups |-> NoRef]
  /\ qty = [g \in Groups |-> [v \in Variants |-> 0]]
  /\ stock \in [Variants -> 0..MaxStock]
  /\ reserved = [v \in Variants |-> 0]
  /\ batch = [s \in Sweepers |-> {}]

-----------------------------------------------------------------------------
\* The mutators

\* create_draft_order.  Ids are fresh: a sweep that still holds the id of a
\* deleted order never meets a new order under it.
CreateDraft(o) ==
  /\ status[o] = "absent"
  /\ \A s \in Sweepers : o \notin batch[s]
  /\ status' = [status EXCEPT ![o] = "draft"]
  /\ exp' = [exp EXCEPT ![o] = "future"]
  /\ UNCHANGED <<owner, ref, qty, stock, reserved, batch>>

\* One line of q pieces for every size of the range.
Book(o, g, range, q, r) ==
  /\ owner' = [owner EXCEPT ![g] = o]
  /\ ref' = [ref EXCEPT ![g] = r]
  /\ qty' = [qty EXCEPT ![g] = [v \in Variants |-> IF v \in range THEN q ELSE 0]]
  /\ reserved' = [v \in Variants |->
                    IF v \in range THEN reserved[v] + q ELSE reserved[v]]
  /\ exp' = [exp EXCEPT ![o] = "future"]
  /\ UNCHANGED <<status, stock, batch>>

\* Faulty variants: enough stock for one size of the range is enough for all;
\* a client_ref is not compared with those the order has.
AddItemAnySize(o, g, range, q, r) ==
  /\ OpenDraft(o)
  /\ owner[g] = NoOrder
  /\ r = NoRef \/ \A h \in GroupsOf(o) : ref[h] # r
  /\ \E v \in range : Available(v) >= q
  /\ Book(o, g, range, q, r)

AddItemTwice(o, g, range, q, r) ==
  /\ OpenDraft(o)
  /\ owner[g] = NoOrder
  /\ \A v \in range : Available(v) >= q
  /\ Book(o, g, range, q, r)

\* add_item_to_draft: every size of the range is booked, or none is.  A
\* client_ref the order already has is a replay: no change.
AddItem(o, g, range, q, r) ==
  /\ OpenDraft(o)
  /\ owner[g] = NoOrder
  /\ r = NoRef \/ \A h \in GroupsOf(o) : ref[h] # r
  /\ \A v \in range : Available(v) >= q
  /\ Book(o, g, range, q, r)

\* remove_item_from_draft: the one line (scope "single") or its whole group.
\* An order left without items is deleted.
RemoveItem(o, g, sizes) ==
  /\ OpenDraft(o)
  /\ owner[g] = o
  /\ \/ \E v \in Lines(g) : sizes = {v}
     \/ sizes = Lines(g)
  /\ reserved' = ReleaseAll([v \in Variants |-> IF v \in sizes THEN qty[g][v] ELSE 0])
  /\ qty' = [qty EXCEPT ![g] =
               [v \in Variants |-> IF v \in sizes THEN 0 ELSE qty[g][v]]]
  /\ LET emptied == sizes = Lines(g)
         deleted == emptied /\ GroupsOf(o) = {g}
     IN /\ owner' = [owner EXCEPT ![g] = IF emptied THEN NoOrder ELSE o]
        /\ ref' = [ref EXCEPT ![g] = IF emptied THEN NoRef ELSE ref[g]]
        /\ status' = [status EXCEPT ![o] = IF deleted THEN "absent" ELSE "draft"]
        /\ exp' = [exp EXCEPT ![o] = IF deleted THEN "none" ELSE "future"]
  /\ UNCHANGED <<stock, batch>>

\* Faulty variant: only the line that was named changes, not its group.
UpdateOneLine(o, g, q) ==
  /\ OpenDraft(o)
  /\ owner[g] = o
  /\ \E v \in Lines(g) :
       /\ q > qty[g][v] => Available(v) >= q - qty[g][v]
       /\ qty' = [qty EXCEPT ![g][v] = q]
       /\ reserved' = [reserved EXCEPT ![v] = @ + q - qty[g][v]]
  /\ exp' = [exp EXCEPT ![o] = "future"]
  /\ UNCHANGED <<status, owner, ref, stock, batch>>

\* update_item_quantity: every line of the group gets quantity q; each size
\* that grows needs the difference to be available.
UpdateQuantity(o, g, q) ==
  /\ OpenDraft(o)
  /\ owner[g] = o
  /\ \A v \in Lines(g) : q > qty[g][v] => Available(v) >= q - qty[g][v]
  /\ qty' = [qty EXCEPT ![g] =
               [v \in Variants |-> IF v \in Lines(g) THEN q ELSE 0]]
  /\ reserved' = [v \in Variants |->
                    IF v \notin Lines(g) THEN reserved[v]
                    ELSE IF q >= qty[g][v] THEN reserved[v] + (q - qty[g][v])
                    ELSE Released(reserved[v], qty[g][v] - q)]
  /\ exp' = [exp EXCEPT ![o] = "future"]
  /\ UNCHANGED <<status, owner, ref, stock, batch>>

\* Faulty variant: an order without items is placed.
SubmitEmpty(o, placed) ==
  /\ OpenDraft(o)
  /\ status' = [status EXCEPT ![o] = placed]
  /\ exp' = [exp EXCEPT ![o] = "none"]
  /\ UNCHANGED <<owner, ref, qty, stock, reserved, batch>>

\* submit_draft: the reservations stay, the expiry is cleared.  Whether the
\* order is auto-confirmed depends on company settings: either status.
Submit(o, placed) ==
  /\ OpenDraft(o)
  /\ GroupsOf(o) # {}
  /\ status' = [status EXCEPT ![o] = placed]
  /\ exp' = [exp EXCEPT ![o] = "none"]
  /\ UNCHANGED <<owner, ref, qty, stock, reserved, batch>>

\* discard_draft.
Discard(o) ==
  /\ OpenDraft(o)
  /\ ReleaseAndDelete(o)
  /\ UNCHANGED batch

\* sync_offline, one order of the batch: _create_order runs create, the adds
\* and the submit in one savepoint.  lines maps each group to the sizes and
\* quantity of one payload item; the adds fit one after the other exactly
\* when together they fit into what is available.  Client_refs of one payload
\* are left out: the order is placed at once and takes no further adds.
SyncUnits(lines, v) ==
  {u \in (DOMAIN lines) \X (1..MaxQty) :
     v \in lines[u[1]].range /\ u[2] <= lines[u[1]].q}

SyncOffline(o, lines, placed) ==
  /\ status[o] = "absent"
  /\ \A s \in Sweepers : o \notin batch[s]
  /\ DOMAIN lines # {}
  /\ \A g \in DOMAIN lines : owner[g] = NoOrder
  /\ \A v \in Variants :
       SyncUnits(lines, v) # {} => Available(v) >= Cardinality(SyncUnits(lines, v))
  /\ status' = [status EXCEPT ![o] = placed]
  /\ owner' = [g \in Groups |-> IF g \in DOMAIN lines THEN o ELSE owner[g]]
  /\ qty' = [g \in Groups |->
               IF g \in DOMAIN lines
               THEN [v \in Variants |-> IF v \in lines[g].range THEN lines[g].q ELSE 0]
               ELSE qty[g]]
  /\ reserved' = [v \in Variants |->
                    reserved[v] + Cardinality(SyncUnits(lines, v))]
  /\ UNCHANGED <<exp, ref, stock, batch>>

-----------------------------------------------------------------------------
\* Expiry

\* draft_expires_at is reached.
ExpiryPasses(o) ==
  /\ status[o] = "draft"
  /\ exp[o] = "future"
  /\ exp' = [exp EXCEPT ![o] = "past"]
  /\ UNCHANGED <<status, owner, ref, qty, stock, reserved, batch>>

\* Faulty variant: only drafts without items are collected.
SweepCollectEmpty(s) ==
  /\ batch[s] = {}
  /\ \E ids \in SUBSET {o \in Orders : Expired(o) /\ GroupsOf(o) = {}} :
       /\ ids # {}
       /\ batch' = [batch EXCEPT ![s] = ids]
  /\ UNCHANGED <<status, exp, owner, ref, qty, stock, reserved>>

\* expire_draft_orders, the unlocked query for at most batch_size ids.  Which
\* ids a longer backlog yields (newest first) is left open.
SweepCollect(s) ==
  /\ batch[s] = {}
  /\ \E ids \in SUBSET {o \in Orders : Expired(o)} :
       /\ ids # {}
       /\ Cardinality(ids) <= BatchSize
       /\ Cardinality(ids) < BatchSize => ids = {o \in Orders : Expired(o)}
       /\ batch' = [batch EXCEPT ![s] = ids]
  /\ UNCHANGED <<status, exp, owner, ref, qty, stock, reserved>>

\* Faulty variant: the expiry is not looked at again under the lock.
SweepWithoutRecheck(s, o) ==
  /\ o \in batch[s]
  /\ batch' = [batch EXCEPT ![s] = @ \ {o}]
  /\ IF status[o] = "draft"
     THEN ReleaseAndDelete(o)
     ELSE UNCHANGED <<status, exp, owner, ref, qty, stock, reserved>>

\* expire_draft_orders, the transaction of one id: lock, look again, delete.
SweepOne(s, o) ==
  /\ o \in batch[s]
  /\ batch' = [batch EXCEPT ![s] = @ \ {o}]
  /\ IF Expired(o)
     THEN ReleaseAndDelete(o)
     ELSE UNCHANGED <<status, exp, owner, ref, qty, stock, reserved>>

\* An exception or a killed worker ends a sweep; what it had not handled is
\* still expired and a later sweep collects it again.
SweepAbort(s) ==
  /\ batch[s] # {}
  /\ batch' = [batch EXCEPT ![s] = {}]
  /\ UNCHANGED <<status, exp, owner, ref, qty, stock, reserved>>

\* OrderConsumer._shorten_empty_drafts on disconnect: a draft without items
\* gets 30 more seconds, even one whose time is already over.
ShortenEmptyDraft(o) ==
  /\ status[o] = "draft"
  /\ GroupsOf(o) = {}
  /\ exp' = [exp EXCEPT ![o] = "future"]
  /\ UNCHANGED <<status, owner, ref, qty, stock, reserved, batch>>

-----------------------------------------------------------------------------
\* StockViewSet.adjust: a recount of one size under its row lock.
AdjustStock(v, d) ==
  /\ d # 0
  /\ d < 0 => Available(v) >= -d
  /\ stock[v] + d <= MaxStock
  /\ stock' = [stock EXCEPT ![v] = @ + d]
  /\ UNCHANGED <<status, exp, owner, ref, qty, reserved, batch>>

OfflineItems == [range : Ranges, q : 1..MaxQty]

Mutate(o) ==
  \/ CreateDraft(o)
  \/ \E g \in Groups, range \in Ranges, q \in 1..MaxQty, r \in Refs \cup {NoRef} :
       AddItem(o, g, range, q, r)
  \/ \E g \in Groups, sizes \in SUBSET Variants : RemoveItem(o, g, sizes)
  \/ \E g \in Groups, q \in 1..MaxQty : UpdateQuantity(o, g, q)
  \/ \E placed \in Placed : Submit(o, placed)
  \/ Discard(o)
  \/ \E gs \in SUBSET Groups : \E lines \in [gs -> OfflineItems], placed \in Placed :
       SyncOffline(o, lines, placed)

Expire(o) == ExpiryPasses(o) \/ ShortenEmptyDraft(o)

Sweep(s) ==
  \/ SweepCollect(s)
  \/ \E o \in Orders : SweepOne(s, o)
  \/ SweepAbort(s)

Next ==
  \/ \E o \in Orders : Mutate(o) \/ Expire(o)
  \/ \E s \in Sweepers : Sweep(s)
  \/ \E v \in Variants, d \in (-MaxStock)..MaxStock : AdjustStock(v, d)

Spec == Init /\ [][Next]_vars

\* The beat schedule starts a sweep every minute, and a sweep that is started
\* over and over gets to the end of its list some time.
Fairness ==
  \A s \in Sweepers :
    /\ WF_vars(SweepCollect(s))
    /\ \A o \in Orders : SF_vars(SweepOne(s, o))

FairSpec == Spec /\ Fairness

-----------------------------------------------------------------------------
\* Properties

\* The variables have their types; stock and reservations stay in bounds.
TypeOK ==
  /\ status \in [Orders -> Statuses]
  /\ exp \in [Orders -> {"none", "future", "past"}]
  /\ owner \in [Groups -> Orders \cup {NoOrder}]
  /\ ref \in [Groups -> Refs \cup {NoRef}]
  /\ qty \in [Groups -> [Variants -> 0..MaxQty]]
  /\ stock \in [Variants -> 0..MaxStock]
  /\ reserved \in [Variants -> Nat]
  /\ batch \in [Sweepers -> SUBSET Orders]

\* The counter reserved_qty, kept up to date by increments and by decrements
\* clamped at zero in six places of order_flow.py, is at all times exactly the
\* sum of the lines of the orders that exist: nothing leaks, nothing is
\* released twice, and the clamp never hides a difference.
ReservationExact ==
  \A v \in Variants : reserved[v] = Cardinality(ItemUnits(v))

\* However adds, quantity changes and stock recounts interleave, no size is
\* promised beyond what is on the shelf (INSUFFICIENT_STOCK in add_item_to_draft
\* and update_item_quantity, "Insufficient stock" in adjust).
NoOversell == \A v \in Variants : reserved[v] <= stock[v]

\* Orders and items agree: items belong to an order that exists, a draft and
\* only a draft has an expiry, a group without lines has no owner, and an
\* order that was placed has items (EMPTY_ORDER in submit_draft, the delete of
\* an emptied draft in remove_item_from_draft).
OrdersAndItemsAgree ==
  /\ \A g \in Groups : (owner[g] = NoOrder) <=> (Lines(g) = {})
  /\ \A g \in Groups : owner[g] # NoOrder => status[owner[g]] # "absent"
  /\ \A o \in Orders : (exp[o] = "none") <=> (status[o] # "draft")
  /\ \A o \in Orders : status[o] \in Placed => GroupsOf(o) # {}

\* The lines of one scan keep one quantity, whatever removals of single sizes
\* and quantity changes came before: what makes the deltas of
\* update_item_quantity all increases or all decreases.
GroupUniform ==
  \A g \in Groups : \A v, w \in Lines(g) : qty[g][v] = qty[g][w]

\* A retried add never books twice: no two groups of one order carry the same
\* client_ref ("Optional client idempotency key, unique per order").
ClientRefOnce ==
  \A g, h \in Groups :
    owner[g] = owner[h] /\ ref[g] = ref[h] /\ ref[g] # NoRef => g = h

\* Once an order is placed nothing in the order flow takes its reservation
\* away or changes its lines, a sweep that collected it as a draft included.
PlacedKeepsItems ==
  [][\A o \in Orders : status[o] \in Placed =>
       /\ status'[o] = status[o]
       /\ \A g \in GroupsOf(o) : owner'[g] = o /\ qty'[g] = qty[g]]_vars

\* A draft that was refreshed after a sweep collected its id is left alone by
\* that sweep: the transaction of one id looks at the expiry again.
SweepSparesRefreshed ==
  [][\A o \in Orders :
       status[o] = "draft" /\ exp[o] = "future" /\ status'[o] = "absent"
         => batch' = batch]_vars

\* An expired draft is not edited or submitted any more (DRAFT_EXPIRED): the
\* only thing that happens to its items is that all of them are released.
ExpiredIsFrozen ==
  [][\A o \in Orders : Expired(o) =>
       \/ status'[o] = "absent" /\ GroupsOf(o)' = {}
       \/ /\ status'[o] = "draft"
          /\ GroupsOf(o)' = GroupsOf(o)
          /\ \A g \in GroupsOf(o) : qty'[g] = qty[g]]_vars

\* A draft that expired and still holds stock is swept in the end, although
\* sweeps are cut short and several of them work on overlapping lists.
ExpiredStockFreed ==
  \A o \in Orders :
    (Expired(o) /\ GroupsOf(o) # {}) ~> (status[o] = "absent")

\* The order flow implements the stock ledger: the tokens promised are the
\* pieces of the lines.
Ledger == INSTANCE StockLedger WITH held <- [v \in Variants |-> ItemUnits(v)]

\* Every step of the flow is a promise covered by the shelf, a withdrawal, a
\* covered recount, or nothing to the ledger.
LedgerSpec == Ledger!LedgerSpec
============================================================================
