----------------------------- MODULE OrderSocket -----------------------------
(***************************************************************************)
(* The order socket of an agent (orders/consumers.py) and the broadcasts   *)
(* of the order flow (orders/realtime.py), over the draft flow of          *)
(* DraftFlow: what an open connection was last told about each order.      *)
(*                                                                         *)
(* A consumer handles one message at a time; while it does, the events of  *)
(* its groups wait.  It commits, broadcasts, and then reads the order      *)
(* again for its answer.  A REST handler broadcasts inside its             *)
(* transaction: its event is out before the commit, or before a rollback.  *)
(* The beat task broadcasts when its sweep is through, sweeps inside       *)
(* requests do not broadcast at all.                                       *)
(*                                                                         *)
(* All orders belong to one agent of one company.  A connection is in the  *)
(* group of the agent and in that of the company and gets every event      *)
(* twice, one after the other: one copy is modelled.  An event carries     *)
(* whether the order is a draft; amounts and stock.updated are left out.   *)
(***************************************************************************)
EXTENDS DraftFlow, Sequences

CONSTANTS
  Clients,    \* connections
  Beat,       \* the sweeper that is the beat task
  MaxInbox,   \* bound: events that wait for a connection
  NoTask

ASSUME BeatAssumption == Beat \in Sweepers
ASSUME InboxAssumption == MaxInbox \in Nat \ {0}
ASSUME TaskAssumption ==
  /\ NoTask \notin [order : Orders, says : {"draft", "placed", "expired"},
                    step : {"send", "answer"}]
  /\ NoTask \notin [order : Orders, op : {"create", "edit", "submit", "discard"},
                    heard : SUBSET Clients]

VARIABLES
  conn,     \* conn[c]: "closed", "joined" (in its groups), "open" (connected was sent),
            \* "leaving" (its empty drafts are being shortened)
  told,     \* told[c]: the orders that c was last told are drafts
  inbox,    \* inbox[c]: events of its groups that c has not handled yet
  task,     \* task[c]: what the handler that c runs has still to do
  rest,     \* the REST request that has broadcast and not committed
  swept,    \* orders the beat task has deleted and not yet broadcast
  created,  \* created[c]: created_orders of the consumer
  stale     \* stale[c]: orders that c may be told wrong about (history)

socketVars == <<conn, told, inbox, task, rest, swept, created, stale>>
ovars == <<vars, socketVars>>

OInit ==
  /\ Init
  /\ conn = [c \in Clients |-> "closed"]
  /\ told = [c \in Clients |-> {}]
  /\ inbox = [c \in Clients |-> <<>>]
  /\ task = [c \in Clients |-> NoTask]
  /\ rest = NoTask
  /\ swept = {}
  /\ created = [c \in Clients |-> {}]
  /\ stale = [c \in Clients |-> {}]

-----------------------------------------------------------------------------
Drafts == {o \in Orders : status[o] = "draft"}

\* The members of the groups.
Joined == {c \in Clients : conn[c] \in {"joined", "open"}}

\* The order row is held by an open transaction.
Locked(o) == rest # NoTask /\ rest.order = o

\* A change of o is committed and its event is not sent yet.
Unsent(o) ==
  \/ o \in swept
  \/ \E c \in Clients : task[c] # NoTask /\ task[c].order = o /\ task[c].step = "send"

Waiting(c, o) == \E i \in DOMAIN inbox[c] : inbox[c][i].order = o

Serving(c, o) == task[c] # NoTask /\ task[c].order = o

\* Ids are fresh: nobody has heard of an order that is to be created.
Fresh(o) ==
  /\ ~Locked(o) /\ ~Unsent(o)
  /\ \A c \in Clients :
       ~Waiting(c, o) /\ ~Serving(c, o) /\ o \notin told[c] \cup created[c] \cup stale[c]

\* What c knows of o can be wrong from now on.
Doubt(C, o) ==
  stale' = [c \in Clients |-> IF c \in C \cap Joined THEN stale[c] \cup {o} ELSE stale[c]]

\* An event that tells of a change while an older one is unsent may come first.
Overtakers(o) == IF Unsent(o) THEN Clients ELSE {}

\* _send, with its exception handler: an event reaches a connection or is lost
\* to it; the layer drops what a full channel cannot take.
Send(o, says, doubted) ==
  \E got \in SUBSET Joined :
    /\ \A c \in got : Len(inbox[c]) < MaxInbox
    /\ inbox' = [c \in Clients |->
         IF c \in got THEN Append(inbox[c], [order |-> o, says |-> says]) ELSE inbox[c]]
    /\ Doubt(doubted \cup (Joined \ got), o)

Hears(known, o, says) == IF says = "draft" THEN known \cup {o} ELSE known \ {o}

-----------------------------------------------------------------------------
\* Connections

\* connect: authenticated, the connection joins its groups.
Connect(c) ==
  /\ conn[c] = "closed"
  /\ conn' = [conn EXCEPT ![c] = "joined"]
  /\ stale' = [stale EXCEPT ![c] = {o \in Orders : Unsent(o)}]
  /\ UNCHANGED <<vars, told, inbox, task, rest, swept, created>>

\* A list of all drafts replaces what c was told; a transaction that is open, or
\* an event that waits, may still make it wrong.
Listed(c) ==
  /\ told' = [told EXCEPT ![c] = Drafts]
  /\ stale' = [stale EXCEPT ![c] =
       {o \in Orders : Locked(o) \/ (o \in @ /\ (Unsent(o) \/ Waiting(c, o)))}]

\* The "connected" message with _drafts_payload, whose sweep is one of those
\* that requests do.
Connected(c) ==
  /\ conn[c] = "joined"
  /\ conn' = [conn EXCEPT ![c] = "open"]
  /\ Listed(c)
  /\ UNCHANGED <<vars, inbox, task, rest, swept, created>>

\* order.drafts, and order.list with its drafts.
ListDrafts(c) ==
  /\ conn[c] = "open" /\ task[c] = NoTask
  /\ Listed(c)
  /\ UNCHANGED <<vars, conn, inbox, task, rest, swept, created>>

Closes(c) ==
  /\ told' = [told EXCEPT ![c] = {}]
  /\ inbox' = [inbox EXCEPT ![c] = <<>>]
  /\ task' = [task EXCEPT ![c] = NoTask]

\* disconnect: out of the groups; the empty drafts made over this connection
\* are still to be shortened.
Disconnect(c) ==
  /\ conn[c] = "open" /\ task[c] = NoTask
  /\ conn' = [conn EXCEPT ![c] = IF created[c] = {} THEN "closed" ELSE "leaving"]
  /\ Closes(c)
  /\ stale' = [stale EXCEPT ![c] = {}]
  /\ UNCHANGED <<vars, rest, swept, created>>

\* _shorten_empty_drafts: one UPDATE, here one order at a time.
Shorten(c, o) ==
  /\ conn[c] = "leaving" /\ o \in created[c] /\ ~Locked(o)
  /\ created' = [created EXCEPT ![c] = @ \ {o}]
  /\ conn' = [conn EXCEPT ![c] = IF created[c] = {o} THEN "closed" ELSE "leaving"]
  /\ IF status[o] = "draft" /\ GroupsOf(o) = {} THEN ShortenEmptyDraft(o) ELSE UNCHANGED vars
  /\ UNCHANGED <<told, inbox, task, rest, swept, stale>>

\* The process of a connection is killed: what its handler had not broadcast
\* is never sent, its drafts keep their time.
Kill(c) ==
  /\ c \in Joined
  /\ conn' = [conn EXCEPT ![c] = "closed"]
  /\ created' = [created EXCEPT ![c] = {}]
  /\ Closes(c)
  /\ LET lost == {o \in Orders : Serving(c, o) /\ task[c].step = "send"}
     IN stale' = [d \in Clients |-> IF d = c THEN {}
                                    ELSE IF d \in Joined THEN stale[d] \cup lost ELSE stale[d]]
  /\ UNCHANGED <<vars, rest, swept>>

\* order_event: the consumer relays one event.
Deliver(c) ==
  /\ conn[c] = "open" /\ task[c] = NoTask /\ inbox[c] # <<>>
  /\ inbox' = [inbox EXCEPT ![c] = Tail(@)]
  /\ told' = [told EXCEPT ![c] = Hears(@, Head(inbox[c]).order, Head(inbox[c]).says)]
  /\ UNCHANGED <<vars, conn, task, rest, swept, created, stale>>

-----------------------------------------------------------------------------
\* Requests over the socket

\* An edit of a draft, as the order flow does it.
Edit(o) ==
  \/ \E g \in Groups, range \in Ranges, q \in 1..MaxQty, r \in Refs \cup {NoRef} :
       AddItem(o, g, range, q, r)
  \/ \E g \in Groups, sizes \in SUBSET Variants : RemoveItem(o, g, sizes)
  \/ \E g \in Groups, q \in 1..MaxQty : UpdateQuantity(o, g, q)

\* The flow call of a request and the event that the handler makes of it.  An
\* emptied draft is deleted, and broadcast as an update of a draft.
Flow(o, op) ==
  CASE op = "create"  -> CreateDraft(o)
    [] op = "edit"    -> Edit(o)
    [] op = "submit"  -> \E placed \in Placed : Submit(o, placed)
    [] op = "discard" -> Discard(o)

\* Faulty variant: a discarded draft is broadcast as an update.
SaysUpdated(op) == IF op = "submit" THEN "placed" ELSE "draft"

Says(op) ==
  CASE op = "submit" -> "placed" [] op = "discard" -> "expired" [] OTHER -> "draft"

FlowOps == {"create", "edit", "submit", "discard"}

Emptied(o, op) == op = "edit" /\ status'[o] = "absent"

\* handle_order_create ... handle_order_submit: the transaction of the flow.
\* One that raises changes nothing.
Call(c, o, op) ==
  /\ conn[c] = "open" /\ task[c] = NoTask /\ ~Locked(o)
  /\ op = "create" => Fresh(o)
  /\ Flow(o, op)
  /\ task' = [task EXCEPT ![c] = [order |-> o, says |-> Says(op), step |-> "send"]]
  /\ created' = [created EXCEPT ![c] =
       CASE op = "create" -> @ \cup {o} [] op = "edit" -> @ [] OTHER -> @ \ {o}]
  /\ Doubt(IF Emptied(o, op) THEN Clients ELSE Overtakers(o), o)
  /\ UNCHANGED <<conn, told, inbox, rest, swept>>

\* broadcast_order_updated, broadcast_order_expired: of what the flow returned.
Broadcast(c) ==
  /\ task[c] # NoTask /\ task[c].step = "send"
  /\ Send(task[c].order, task[c].says, {})
  /\ task' = [task EXCEPT ![c].step = "answer"]
  /\ UNCHANGED <<vars, conn, told, rest, swept, created>>

\* The answer: of the order as it is now (_serialize_order), or that it is
\* gone; when it is gone before the answer, INTERNAL_ERROR tells nothing.
Answer(c) ==
  /\ task[c] # NoTask /\ task[c].step = "answer"
  /\ LET o == task[c].order
     IN /\ told' = [told EXCEPT ![c] =
             IF task[c].says = "expired" THEN @ \ {o}
             ELSE IF status[o] = "absent" THEN @
             ELSE Hears(@, o, status[o])]
        /\ Doubt(IF Locked(o) THEN {c} ELSE {}, o)
  /\ task' = [task EXCEPT ![c] = NoTask]
  /\ UNCHANGED <<vars, conn, inbox, rest, swept, created>>

\* handle_order_get; an order that does not exist is an error that says so.
Get(c, o) ==
  /\ conn[c] = "open" /\ task[c] = NoTask /\ status[o] # "absent"
  /\ told' = [told EXCEPT ![c] = Hears(@, o, status[o])]
  /\ Doubt(IF Locked(o) THEN {c} ELSE {}, o)
  /\ UNCHANGED <<vars, conn, inbox, task, rest, swept, created>>

-----------------------------------------------------------------------------
\* REST requests: the broadcast comes before the commit

\* The row is locked (or new) and the flow has accepted the request.
Announce(o, op) ==
  /\ rest = NoTask
  /\ IF op = "create" THEN status[o] = "absent" /\ Fresh(o) ELSE OpenDraft(o)
  /\ op = "submit" => GroupsOf(o) # {}
  /\ rest' = [order |-> o, op |-> op, heard |-> Joined]
  /\ Send(o, Says(op), Overtakers(o))
  /\ UNCHANGED <<vars, conn, told, task, swept, created>>

\* Connections that came in between listed the drafts as they were before.
Commit ==
  /\ rest # NoTask
  /\ LET o == rest.order
     IN /\ Flow(o, rest.op)
        /\ Doubt(IF Emptied(o, rest.op) THEN Clients ELSE Clients \ rest.heard, o)
  /\ rest' = NoTask
  /\ UNCHANGED <<conn, told, inbox, task, swept, created>>

Rollback ==
  /\ rest # NoTask
  /\ Doubt(Clients, rest.order)
  /\ rest' = NoTask
  /\ UNCHANGED <<vars, conn, told, inbox, task, swept, created>>

\* sync_offline does not broadcast: what it places was never a draft to anyone.
Offline(o) ==
  /\ Fresh(o)
  /\ \E gs \in SUBSET Groups : \E lines \in [gs -> OfflineItems], placed \in Placed :
       SyncOffline(o, lines, placed)
  /\ UNCHANGED socketVars

-----------------------------------------------------------------------------
\* Sweeps

\* expire_drafts_task starts again when it has broadcast.
Collect(s) ==
  /\ s = Beat => swept = {}
  /\ SweepCollect(s)
  /\ UNCHANGED socketVars

\* Requests keep what they have deleted to themselves.
Expire1(s, o) ==
  /\ ~Locked(o)
  /\ SweepOne(s, o)
  /\ LET deleted == Expired(o)
     IN /\ swept' = IF deleted /\ s = Beat THEN swept \cup {o} ELSE swept
        /\ Doubt(IF deleted /\ s # Beat THEN Clients
                 ELSE IF deleted THEN Overtakers(o) ELSE {}, o)
  /\ UNCHANGED <<conn, told, inbox, task, rest, created>>

\* Faulty variant: the task deletes and does not push.
PushNothing(o) ==
  /\ batch[Beat] = {} /\ o \in swept
  /\ swept' = swept \ {o}
  /\ UNCHANGED <<vars, conn, told, inbox, task, rest, created, stale>>

\* broadcast_order_expired, when the sweep is through.
Push(o) ==
  /\ batch[Beat] = {} /\ o \in swept
  /\ swept' = swept \ {o}
  /\ Send(o, "expired", {})
  /\ UNCHANGED <<vars, conn, told, task, rest, created>>

\* A sweep that is cut short takes its list of deleted orders with it; so does a
\* worker that is killed while it broadcasts.
LoseSwept ==
  /\ swept' = {}
  /\ stale' = [c \in Clients |-> IF c \in Joined THEN stale[c] \cup swept ELSE stale[c]]

Cut(s) ==
  /\ IF s = Beat THEN LoseSwept ELSE UNCHANGED <<swept, stale>>
  /\ \/ SweepAbort(s)
     \/ s = Beat /\ swept # {} /\ batch[s] = {} /\ UNCHANGED vars
  /\ UNCHANGED <<conn, told, inbox, task, rest, created>>

\* Time is up; for an order whose row is locked, when the lock is given back.
TimeUp(o) == ~Locked(o) /\ ExpiryPasses(o) /\ UNCHANGED socketVars

Recount == \E v \in Variants, d \in (-MaxStock)..MaxStock :
             AdjustStock(v, d) /\ UNCHANGED socketVars

ONext ==
  \/ \E c \in Clients :
       \/ Connect(c) \/ Connected(c) \/ ListDrafts(c) \/ Disconnect(c) \/ Kill(c)
       \/ Deliver(c) \/ Broadcast(c) \/ Answer(c)
       \/ \E o \in Orders : Get(c, o) \/ Shorten(c, o) \/ \E op \in FlowOps : Call(c, o, op)
  \/ \E o \in Orders :
       Push(o) \/ TimeUp(o) \/ Offline(o) \/ \E op \in FlowOps : Announce(o, op)
  \/ Commit \/ Rollback \/ Recount
  \/ \E s \in Sweepers : Collect(s) \/ Cut(s) \/ \E o \in Orders : Expire1(s, o)

\* Sweeps as in DraftFlow; an open connection, a handler and the task's worker
\* go on with what waits for them.
OFairness ==
  /\ \A s \in Sweepers :
       WF_ovars(Collect(s)) /\ \A o \in Orders : SF_ovars(Expire1(s, o))
  /\ \A c \in Clients :
       WF_ovars(Connected(c)) /\ SF_ovars(Deliver(c)) /\ WF_ovars(Broadcast(c))
         /\ WF_ovars(Answer(c))
  /\ \A o \in Orders : SF_ovars(Push(o))
  /\ WF_ovars(Commit \/ Rollback)

OSpec == OInit /\ [][ONext]_ovars
FairOSpec == OSpec /\ OFairness

-----------------------------------------------------------------------------
\* Properties

\* An event about o, or an answer, is on its way to c.
OnItsWay(c, o) == Unsent(o) \/ Waiting(c, o) \/ Serving(c, o) \/ Locked(o)

\* When nothing about an order is on its way any more, the last word that an open
\* connection has heard on it, be it the list, an answer or an event, is true.
\* The exceptions are the places where the code may leave it wrong: a lost
\* event, a silent sweep of a request, an emptied draft, events that overtook
\* each other, a rollback after the broadcast, a list taken between the
\* broadcast and the commit of a REST request.
LastWordTrue ==
  \A c \in Clients, o \in Orders :
    conn[c] = "open" /\ o \notin stale[c] /\ ~OnItsWay(c, o) =>
      (o \in told[c] <=> status[o] = "draft")

\* "Do not locally delete the draft; the server expiry task does that and
\* pushes order.expired": a draft that is gone does not stay on an open
\* connection's list (unless a REST request, whose event came first, makes it one),
\* with the same exceptions.
GhostsLeave ==
  \A c \in Clients, o \in Orders :
    conn[c] = "open" /\ o \in told[c] /\ status[o] = "absent" /\ o \notin stale[c]
      ~> \/ conn[c] # "open" \/ o \notin told[c] \/ o \in stale[c]
         \/ status[o] = "draft"
=============================================================================
