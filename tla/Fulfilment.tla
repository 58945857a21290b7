----------------------------- MODULE Fulfilment -----------------------------
(***************************************************************************)
(* What the back office does to orders: the handlers of OrderViewSet       *)
(* (orders/views.py) and DispatchViewSet (dispatch/views.py), running      *)
(* beside the draft flow of DraftFlow on the same rows.                    *)
(*                                                                         *)
(* These handlers take no lock.  Each reads the order (and validates what  *)
(* it read), and later writes it: Load copies what the handler keeps in    *)
(* memory, and the write, which waits for the order row and keeps it until *)
(* the commit, is one action.  save(update_fields=[...]) writes the named  *)
(* columns and fails when the row is gone; save() writes every column      *)
(* from memory, and inserts the row again when it is gone.                 *)
(***************************************************************************)
EXTENDS DraftFlow

CONSTANTS
  Requests,   \* request slots: how many handlers may be in flight at once
  Ops,        \* the endpoints clients use
  PackIn,     \* statuses in which clients send pack-items
  NoRequest

ASSUME OpsAssumption ==
  Ops \subseteq {"cancel", "approve", "reject", "status", "edit", "pack",
                 "dispatch", "deliver", "track"}

VARIABLES
  packed,     \* packed[g][v]: OrderItem.packed_quantity
  approval,   \* Order.requires_approval
  dispatch,   \* the Dispatch row: "none", "sent", "arrived" (actual_delivery set)
  shipped,    \* shipped[o][v]: pieces the OUT movement of the dispatch took
  sales,      \* number of sales invoices linked to the order
  hand        \* hand[r]: what the handler in slot r keeps in memory

backVars == <<packed, approval, dispatch, shipped, sales, hand>>
allVars  == <<vars, backVars>>

OrderStatus == {"draft", "submitted", "confirmed", "processing", "packed",
                "dispatched", "delivered", "cancelled"}
Final   == {"dispatched", "delivered", "cancelled"}
Holding == OrderStatus \ Final

\* The pieces whose order is still to be shipped, and the pieces packed.
HeldUnits(v)   == {u \in ItemUnits(v) : status[owner[u[1]]] \in Holding}
PackedUnits(o, v) ==
  {u \in Units : owner[u[1]] = o /\ u[2] <= packed[u[1]][v]}

\* The items of an order, as pairs group/size, and Order.packing_status when
\* the packed quantities are p.
Items(o) == {i \in Groups \X Variants : owner[i[1]] = o /\ qty[i[1]][i[2]] > 0}

PackingStatus(o, p) ==
  IF \A i \in Items(o) : p[i[1]][i[2]] = 0 THEN "unpacked"
  ELSE IF \A i \in Items(o) : p[i[1]][i[2]] >= qty[i[1]][i[2]] THEN "packed"
  ELSE "partially"

-----------------------------------------------------------------------------
FInit ==
  /\ Init
  /\ packed = [g \in Groups |-> [v \in Variants |-> 0]]
  /\ approval = [o \in Orders |-> FALSE]
  /\ dispatch = [o \in Orders |-> "none"]
  /\ shipped = [o \in Orders |-> [v \in Variants |-> 0]]
  /\ sales = [o \in Orders |-> 0]
  /\ hand = [r \in Requests |-> NoRequest]

-----------------------------------------------------------------------------
\* The draft flow, on the same rows

Gone(o) == status[o] = "absent"
InFlight(o) == \E r \in Requests : hand[r] # NoRequest /\ hand[r].o = o

\* A pack-items request that has written its items holds their rows.
RespectsItemLocks ==
  \A r \in Requests : hand[r] # NoRequest /\ hand[r].written =>
    \A i \in DOMAIN hand[r].picks : qty'[i[1]][i[2]] = qty[i[1]][i[2]]

\* The id a handler keeps is not given to another order.
FreshIds ==
  \A o \in Orders : Gone(o) /\ InFlight(o) => status'[o] = "absent"

\* Rows that go with an order or an item, and the approval flag that
\* submit_draft computes.
FollowDraftFlow ==
  /\ packed' = [g \in Groups |-> [v \in Variants |->
                  IF qty'[g][v] = 0 THEN 0 ELSE packed[g][v]]]
  /\ \E required \in BOOLEAN :
       approval' = [o \in Orders |->
         IF status'[o] = "absent" THEN FALSE
         ELSE IF status'[o] = status[o] THEN approval[o]
         ELSE status'[o] = "submitted" /\ required]
  /\ dispatch' = [o \in Orders |-> IF status'[o] = "absent" THEN "none" ELSE dispatch[o]]
  /\ shipped' = [o \in Orders |->
       IF status'[o] = "absent" THEN [v \in Variants |-> 0] ELSE shipped[o]]
  /\ sales' = [o \in Orders |-> IF status'[o] = "absent" THEN 0 ELSE sales[o]]
  /\ UNCHANGED hand

DraftStep == Next /\ RespectsItemLocks /\ FreshIds /\ FollowDraftFlow

-----------------------------------------------------------------------------
\* Load: the handler reads the order and validates

\* The order's columns matter later only to the handlers that save() them
\* all; target is the status it will write,
\* picks are the packed quantities of a pack-items request.
Memory(op, o, new, picks) ==
  LET full == op \in {"status", "edit"}
  IN [op |-> op, o |-> o, picks |-> picks, written |-> FALSE, target |-> new,
      exp |-> IF full THEN exp[o] ELSE "none",
      approval |-> full /\ approval[o]]

\* Faulty variant: an order that is cancelled already can be cancelled.
AcceptsCancelled(op, o) ==
  CASE op = "cancel" -> status[o] \in (Holding \ {"draft"}) \cup {"cancelled"}
    [] op \in {"approve", "reject"} -> approval[o] /\ status[o] = "submitted"
    [] op = "edit" -> status[o] = "draft"
    [] op = "pack" -> status[o] \in Holding \cap PackIn
    [] op = "dispatch" -> status[o] = "packed" /\ dispatch[o] = "none"
    [] op = "deliver" -> dispatch[o] = "sent"
    [] OTHER -> status[o] \in OrderStatus

\* What each handler checks on the order it read.
Accepts(op, o) ==
  CASE op = "cancel" -> status[o] \in Holding \ {"draft"}
    [] op \in {"approve", "reject"} -> approval[o] /\ status[o] = "submitted"
    [] op = "edit" -> status[o] = "draft"
    [] op = "pack" -> status[o] \in Holding \cap PackIn
    [] op = "dispatch" -> status[o] = "packed" /\ dispatch[o] = "none"
    [] op = "deliver" -> dispatch[o] = "sent"
    [] OTHER -> status[o] \in OrderStatus

Targets(op) == IF op = "status" THEN OrderStatus ELSE {"same"}

\* Faulty variant: packed quantities are not compared with ordered ones.
PicksUnchecked(op, o) ==
  IF op # "pack" THEN {[i \in {} |-> 0]}
  ELSE UNION {[is -> 0..MaxQty] : is \in (SUBSET Items(o)) \ {{}}}

\* PackItemsSerializer: packed quantities for some items, none above ordered.
Picks(op, o) ==
  IF op # "pack" THEN {[i \in {} |-> 0]}
  ELSE {p \in UNION {[is -> 0..MaxQty] : is \in (SUBSET Items(o)) \ {{}}} :
          \A i \in DOMAIN p : p[i] <= qty[i[1]][i[2]]}

Load(r, op, o) ==
  /\ hand[r] = NoRequest
  /\ op \in Ops \ {"track"}
  /\ Accepts(op, o)
  /\ \E new \in Targets(op), picks \in Picks(op, o) :
       hand' = [hand EXCEPT ![r] = Memory(op, o, new, picks)]
  /\ UNCHANGED <<vars, packed, approval, dispatch, shipped, sales>>

-----------------------------------------------------------------------------
\* Commit: the handler writes

Writing(r, op) == hand[r] # NoRequest /\ hand[r].op = op
Done(r) == hand' = [hand EXCEPT ![r] = NoRequest]

SetStatusOf(o, new) == status' = [status EXCEPT ![o] = new]

\* Release of every item's full quantity, each update clamped at zero.
ReleaseItems(o) ==
  reserved' = ReleaseAll([v \in Variants |-> Cardinality(OrderUnits(o, v))])

\* generate_sales_invoice: only when none is linked to the order yet.
InvoiceOnce(o) == sales' = [sales EXCEPT ![o] = IF @ = 0 THEN 1 ELSE @]

\* The write fails (row gone, unique constraint) and the request rolls back.
Fails(r) ==
  /\ hand[r] # NoRequest
  /\ \/ Gone(hand[r].o) /\ hand[r].op \notin {"status", "edit"}
     \/ hand[r].op = "dispatch" /\ dispatch[hand[r].o] # "none"
     \/ hand[r].op = "deliver" /\ dispatch[hand[r].o] = "none"
     \/ hand[r].op = "pack" /\ ~(DOMAIN hand[r].picks \subseteq Items(hand[r].o))
  /\ Done(r)
  /\ UNCHANGED <<vars, packed, approval, dispatch, shipped, sales>>

\* Faulty variants: nothing is released; the pieces are put on the shelf.
CancelKeepsReserved(r) ==
  /\ Writing(r, "cancel") \/ Writing(r, "reject")
  /\ ~Gone(hand[r].o)
  /\ SetStatusOf(hand[r].o, "cancelled")
  /\ Done(r)
  /\ UNCHANGED <<exp, owner, ref, qty, stock, reserved, batch, packed, approval,
                 dispatch, shipped, sales>>

CancelRestocks(r) ==
  /\ Writing(r, "cancel") \/ Writing(r, "reject")
  /\ ~Gone(hand[r].o)
  /\ SetStatusOf(hand[r].o, "cancelled")
  /\ ReleaseItems(hand[r].o)
  /\ stock' = [v \in Variants |-> stock[v] + Cardinality(OrderUnits(hand[r].o, v))]
  /\ Done(r)
  /\ UNCHANGED <<exp, owner, ref, qty, batch, packed, approval, dispatch, shipped,
                 sales>>

\* cancel, and approve with action "reject".
CommitCancel(r) ==
  /\ Writing(r, "cancel") \/ Writing(r, "reject")
  /\ LET o == hand[r].o IN
       /\ ~Gone(o)
       /\ SetStatusOf(o, "cancelled")
       /\ ReleaseItems(o)
  /\ Done(r)
  /\ UNCHANGED <<exp, owner, ref, qty, stock, batch, packed, approval, dispatch,
                 shipped, sales>>

\* approve with action "approve".
CommitApprove(r) ==
  /\ Writing(r, "approve")
  /\ ~Gone(hand[r].o)
  /\ SetStatusOf(hand[r].o, "confirmed")
  /\ Done(r)
  /\ UNCHANGED <<exp, owner, ref, qty, stock, reserved, batch, packed, approval,
                 dispatch, shipped, sales>>

\* A full save() puts the draft_expires_at of memory back: a time that was in
\* the future when it was read may have passed.
Restored(e) == IF e = "future" THEN {"future", "past"} ELSE {e}

\* update_status: any status to any other.
CommitStatus(r) ==
  /\ Writing(r, "status")
  /\ LET o == hand[r].o
         new == hand[r].target
     IN /\ SetStatusOf(o, new)
        /\ \E e \in Restored(hand[r].exp) : exp' = [exp EXCEPT ![o] = e]
        /\ approval' = [approval EXCEPT ![o] = hand[r].approval]
        /\ IF new = "cancelled" THEN ReleaseItems(o) ELSE UNCHANGED reserved
        /\ IF new = "dispatched" THEN InvoiceOnce(o) ELSE UNCHANGED sales
  /\ Done(r)
  /\ UNCHANGED <<owner, ref, qty, stock, batch, packed, dispatch, shipped>>

\* partial_update: the whole row from memory, with a fresh expiry.
CommitEdit(r) ==
  /\ Writing(r, "edit")
  /\ LET o == hand[r].o IN
       /\ SetStatusOf(o, "draft")
       /\ exp' = [exp EXCEPT ![o] = "future"]
       /\ approval' = [approval EXCEPT ![o] = hand[r].approval]
  /\ Done(r)
  /\ UNCHANGED <<owner, ref, qty, stock, reserved, batch, packed, dispatch, shipped,
                 sales>>

\* pack_items writes the items, reads the order again, and only then may move
\* its status: two steps.
Repacked(p) ==
  [g \in Groups |-> [v \in Variants |->
     IF <<g, v>> \in DOMAIN p THEN p[<<g, v>>] ELSE packed[g][v]]]

WritePack(r) ==
  /\ Writing(r, "pack")
  /\ ~hand[r].written
  /\ LET o == hand[r].o
         packing == PackingStatus(o, Repacked(hand[r].picks))
         target ==
           IF packing = "packed" /\ status[o] \in {"confirmed", "processing"}
             THEN "packed"
           ELSE IF packing = "partially" /\ status[o] = "confirmed"
             THEN "processing"
           ELSE "same"
     IN /\ ~Gone(o)
        /\ DOMAIN hand[r].picks \subseteq Items(o)
        /\ \A s \in Requests : s # r /\ hand[s] # NoRequest /\ hand[s].written
             => DOMAIN hand[r].picks \cap DOMAIN hand[s].picks = {}
        /\ hand' = [hand EXCEPT ![r].written = TRUE, ![r].target = target]
  /\ UNCHANGED <<vars, packed, approval, dispatch, shipped, sales>>

CommitPack(r) ==
  /\ Writing(r, "pack")
  /\ hand[r].written
  /\ packed' = Repacked(hand[r].picks)
  /\ IF hand[r].target = "same" THEN UNCHANGED status
     ELSE SetStatusOf(hand[r].o, hand[r].target)
  /\ Done(r)
  /\ UNCHANGED <<exp, owner, ref, qty, stock, reserved, batch, approval, dispatch,
                 shipped, sales>>

\* DispatchViewSet.create, with out[v] pieces of each size leaving the shelf:
\* the Dispatch row, the status, stock and reservation of every item, the
\* sales invoice.
Ship(r, out) ==
  /\ Writing(r, "dispatch")
  /\ LET o == hand[r].o IN
       /\ ~Gone(o)
       /\ dispatch' = [dispatch EXCEPT ![o] = "sent"]
       /\ SetStatusOf(o, "dispatched")
       /\ stock' = [v \in Variants |-> stock[v] - out[v]]
       /\ ReleaseItems(o)
       /\ shipped' = [shipped EXCEPT ![o] = out]
       /\ InvoiceOnce(o)
  /\ Done(r)
  /\ UNCHANGED <<exp, owner, ref, qty, batch, packed, approval>>

\* Faulty variants: the ordered instead of the packed pieces leave the shelf;
\* nothing keeps a second Dispatch row of the order out.
DispatchOrdered(r) ==
  /\ hand[r] # NoRequest
  /\ dispatch[hand[r].o] = "none"
  /\ Ship(r, [v \in Variants |-> Cardinality(OrderUnits(hand[r].o, v))])

DispatchAgain(r) ==
  /\ hand[r] # NoRequest
  /\ Ship(r, [v \in Variants |->
              shipped[hand[r].o][v] + Cardinality(PackedUnits(hand[r].o, v))])

\* The packed pieces go, and the one-to-one constraint on Dispatch.order lets
\* one request of two through.
CommitDispatch(r) ==
  /\ hand[r] # NoRequest
  /\ dispatch[hand[r].o] = "none"
  /\ Ship(r, [v \in Variants |-> Cardinality(PackedUnits(hand[r].o, v))])

\* DispatchViewSet.mark_delivered.
CommitDeliver(r) ==
  /\ Writing(r, "deliver")
  /\ LET o == hand[r].o IN
       /\ ~Gone(o)
       /\ dispatch[o] # "none"
       /\ dispatch' = [dispatch EXCEPT ![o] = "arrived"]
       /\ SetStatusOf(o, "delivered")
  /\ Done(r)
  /\ UNCHANGED <<exp, owner, ref, qty, stock, reserved, batch, packed, approval,
                 shipped, sales>>

\* DispatchViewSet.partial_update may set actual_delivery, and the order stays.
Track(o) ==
  /\ "track" \in Ops
  /\ dispatch[o] = "sent"
  /\ dispatch' = [dispatch EXCEPT ![o] = "arrived"]
  /\ UNCHANGED <<vars, packed, approval, shipped, sales, hand>>

Handle(r) ==
  \/ \E op \in Ops, o \in Orders : Load(r, op, o)
  \/ Fails(r)
  \/ CommitCancel(r)
  \/ CommitApprove(r)
  \/ CommitStatus(r)
  \/ CommitEdit(r)
  \/ WritePack(r)
  \/ CommitPack(r)
  \/ CommitDispatch(r)
  \/ CommitDeliver(r)

FNext ==
  \/ DraftStep
  \/ \E r \in Requests : Handle(r)
  \/ \E o \in Orders : Track(o)

FSpec == FInit /\ [][FNext]_allVars

\* An order has one handler at a time: what an office where nobody else works
\* on the same order sees.  The draft flow and the sweep come in between still.
OneAtATime ==
  \A r, s \in Requests :
    hand[r] # NoRequest /\ hand[s] # NoRequest /\ hand[r].o = hand[s].o => r = s

SerialSpec == FInit /\ [][FNext /\ OneAtATime']_allVars

-----------------------------------------------------------------------------
\* Properties

\* reserved_qty is what its help text says, "Reserved for pending orders": the
\* lines of the orders not yet shipped or cancelled, no piece more or less.
\* Every way out of the pending statuses must release, and release once.
HeldExact == \A v \in Variants : reserved[v] = Cardinality(HeldUnits(v))

\* What pending orders hold is on the shelf, dispatches included: taking the
\* packed pieces off the shelf and releasing the ordered ones keeps the rest
\* covered.
ShelfCoversHeld == \A v \in Variants : Cardinality(HeldUnits(v)) <= stock[v]

\* "Packed quantity may be equal to or less than the ordered quantity —
\* over-packing is rejected" (PackItemsSerializer), whatever happens to the
\* line afterwards.
PackedWithinOrdered ==
  \A g \in Groups, v \in Variants : packed[g][v] <= qty[g][v]

\* The packed quantities of a dispatched order are still the ones its OUT
\* movement took from stock.
ShippedIsPacked ==
  \A o \in Orders, v \in Variants :
    dispatch[o] # "none" => shipped[o][v] = Cardinality(PackedUnits(o, v))

\* An order has one dispatch, taken from stock once, and one sales invoice,
\* although the serializer and generate_sales_invoice look before they insert
\* and two requests may look at the same time.
ShippedOnce ==
  [][\A o \in Orders : dispatch[o] # "none" /\ ~Gone(o)' =>
       /\ shipped'[o] = shipped[o]
       /\ sales'[o] = sales[o]]_allVars

\* Stock leaves the shelf by a recount or by a dispatch, piece for piece.
StockOnlyShipped ==
  [][\A v \in Variants : stock'[v] # stock[v] =>
       \/ /\ reserved' = reserved
          /\ shipped' = shipped
       \/ \E o \in Orders : /\ dispatch[o] = "none" /\ dispatch'[o] = "sent"
                            /\ stock[v] - stock'[v] = shipped'[o][v]]_allVars
============================================================================
