------------------------------ MODULE Membership ------------------------------
(***************************************************************************)
(* Agents in companies: the invitations and joins of                       *)
(* apps/accounts/views.py and the memberships of apps/agents/views.py.     *)
(*                                                                         *)
(* Nothing here runs in a transaction and nothing is locked.  A handler    *)
(* reads a row, checks it and saves some columns of it later (Load and     *)
(* Write); joining is four saves and removing is two, and a handler may    *)
(* end between any two of them (Cut).                                      *)
(***************************************************************************)
EXTENDS Integers, FiniteSets, Tenants

CONSTANTS
  Agents,      \* users of the role agent
  Invites,     \* AgentInvitation ids
  MaxUses,     \* what max_uses may be
  Front,       \* slots for registrations and joins: how many may be in flight
  Office,      \* slots for the handlers of the company's staff
  Staffed,     \* bound: the companies whose staff acts
  MaxJoins,    \* bound: how often an invitation is joined with
  NoRequest

ASSUME SlotsAssumption == IsFiniteSet(Front) /\ Front # {} /\ Front \cap Office = {}
ASSUME UsesAssumption == MaxUses \subseteq Nat \ {0} /\ MaxJoins \in Nat
ASSUME StaffedAssumption == Staffed \subseteq Companies

VARIABLES
  account,  \* account[a]: no user, a user without a profile, a profile, or disabled
  member,   \* member[a][c]: the AgentCompanyMembership row
  invite,   \* invite[i]: the AgentInvitation row; home: its inviter's company
  hand,     \* hand[r]: what the handler in slot r keeps in memory
  said,     \* said[a][c]: the last word on a membership that did not exist or was
            \* removed: asked for, or approved since (history)
  token,    \* token[a]: the companies named in a's valid tokens
  joins,    \* joins[i]: joins that came through with i (history)
  crossed,  \* pairs of an agent and a company on which requests of the staff
            \* overlapped, and no lone one has decided since (history)
  ever      \* pairs of an agent and a company that approved it once (history)

Requests == Front \cup Office

vars == <<account, member, invite, hand, said, token, joins, crossed, ever>>

MembershipStatus == {"absent", "pending", "reviewed", "active", "suspended", "removed"}
InviteStatus     == {"absent", "pending", "expired"}

Staff == {"approve", "reject", "suspend", "reactivate", "review", "remove", "edit"}

NoInvite == [status |-> "absent", company |-> NoCompany, home |-> NoCompany,
             max |-> 0, used |-> 0, lapsed |-> FALSE]

Init ==
  /\ account = [a \in Agents |-> "none"]
  /\ member = [a \in Agents |-> [c \in Companies |-> "absent"]]
  /\ invite = [i \in Invites |-> NoInvite]
  /\ hand = [r \in Requests |-> NoRequest]
  /\ said = [a \in Agents |-> [c \in Companies |-> "nothing"]]
  /\ token = [a \in Agents |-> {}]
  /\ joins = [i \in Invites |-> 0]
  /\ crossed = {}
  /\ ever = {}

Free(r)    == hand[r] = NoRequest
Busy(r, s) == hand[r] # NoRequest /\ hand[r].step = s
Done(r)    == hand' = [hand EXCEPT ![r] = NoRequest]
GoOn(r, s) == hand' = [hand EXCEPT ![r].step = s]

-----------------------------------------------------------------------------
\* Accounts and invitations

\* The user is created, and then its AgentProfile.
Register(r, a) ==
  /\ Free(r) /\ account[a] = "none"
  /\ account' = [account EXCEPT ![a] = "bare"]
  /\ hand' = [hand EXCEPT ![r] = [step |-> "profile", agent |-> a]]
  /\ UNCHANGED <<member, invite, said, token, joins, crossed, ever>>

CreateProfile(r) ==
  /\ Busy(r, "profile")
  /\ account' = [account EXCEPT ![hand[r].agent] = "agent"]
  /\ Done(r)
  /\ UNCHANGED <<member, invite, said, token, joins, crossed, ever>>

\* An admin of company c invites; the inviter belongs to c at that moment.
Invite(i, c, n) ==
  /\ invite[i].status = "absent"
  /\ invite' = [invite EXCEPT ![i] =
       [status |-> "pending", company |-> c, home |-> c, max |-> n, used |-> 0,
        lapsed |-> FALSE]]
  /\ UNCHANGED <<account, member, hand, said, token, joins, crossed, ever>>

\* An admin edits the inviter's user: its company is one of the columns.
MoveInviter(i, c) ==
  /\ invite[i].status # "absent" /\ invite[i].home # c
  /\ invite' = [invite EXCEPT ![i].home = c]
  /\ UNCHANGED <<account, member, hand, said, token, joins, crossed, ever>>

\* expires_at passes.
InviteLapses(i) ==
  /\ invite[i].status = "pending" /\ ~invite[i].lapsed
  /\ invite' = [invite EXCEPT ![i].lapsed = TRUE]
  /\ UNCHANGED <<account, member, hand, said, token, joins, crossed, ever>>

-----------------------------------------------------------------------------
\* Joining

\* Faulty variant: uses are not compared with the maximum.
SpentUnchecked(i) == invite[i].lapsed

\* What validate_invite_code refuses, and marks as expired.
Spent(i) == invite[i].lapsed \/ invite[i].used >= invite[i].max

\* The refusal is an answer to the client, but the status is saved before it.
RefuseInvite(a, i) ==
  /\ account[a] = "agent" /\ invite[i].status = "pending" /\ Spent(i)
  /\ invite' = [invite EXCEPT ![i].status = "expired"]
  /\ UNCHANGED <<account, member, hand, said, token, joins, crossed, ever>>

\* The joins with invitation i that are past the check and not yet counted.
Joining(i) ==
  {r \in Front : hand[r] # NoRequest
     /\ hand[r].step \in {"join", "return", "home", "count"} /\ hand[r].invite = i}

LoadInvite(r, a, i) ==
  /\ Free(r) /\ account[a] = "agent" /\ invite[i].status = "pending" /\ ~Spent(i)
  /\ joins[i] + Cardinality(Joining(i)) < MaxJoins
  /\ hand' = [hand EXCEPT ![r] = [step |-> "join", agent |-> a, invite |-> i]]
  /\ UNCHANGED <<account, member, invite, said, token, joins, crossed, ever>>

\* get_or_create for the inviting company.  Who was removed is asked to come
\* back by another save, from the row read here.
Join(r) ==
  LET a == hand[r].agent  c == invite[hand[r].invite].company
  IN /\ Busy(r, "join")
     /\ IF member[a][c] = "absent"
          THEN /\ member' = [member EXCEPT ![a][c] = "pending"]
               /\ said' = [said EXCEPT ![a][c] = "asked"]
               /\ GoOn(r, "home")
          ELSE /\ GoOn(r, IF member[a][c] = "removed" THEN "return" ELSE "home")
               /\ UNCHANGED <<member, said>>
     /\ UNCHANGED <<account, invite, token, joins, crossed, ever>>

Return(r) ==
  LET a == hand[r].agent  c == invite[hand[r].invite].company
  IN /\ Busy(r, "return")
     /\ member' = [member EXCEPT ![a][c] = "pending"]
     /\ said' = IF member[a][c] = "removed" THEN [said EXCEPT ![a][c] = "asked"] ELSE said
     /\ GoOn(r, "home")
     /\ UNCHANGED <<account, invite, token, joins, crossed, ever>>

\* get_or_create for the company the inviter belongs to by now.
JoinHome(r) ==
  LET a == hand[r].agent  c == invite[hand[r].invite].home
  IN /\ Busy(r, "home")
     /\ IF member[a][c] = "absent"
          THEN /\ member' = [member EXCEPT ![a][c] = "pending"]
               /\ said' = [said EXCEPT ![a][c] = "asked"]
          ELSE UNCHANGED <<member, said>>
     /\ GoOn(r, "count")
     /\ UNCHANGED <<account, invite, token, joins, crossed, ever>>

\* used_count = F("used_count") + 1.
CountUse(r) ==
  LET i == hand[r].invite
  IN /\ Busy(r, "count")
     /\ invite' = [invite EXCEPT ![i].used = @ + 1]
     /\ joins' = [joins EXCEPT ![i] = @ + 1]
     /\ Done(r)
     /\ UNCHANGED <<account, member, said, token, crossed, ever>>

-----------------------------------------------------------------------------
\* Acting for a company

\* The tokens of switch_company name the company; those of a login name none.
SwitchCompany(a, c) ==
  /\ account[a] = "agent" /\ member[a][c] = "active" /\ c \notin token[a]
  /\ token' = [token EXCEPT ![a] = @ \cup {c}]
  /\ UNCHANGED <<account, member, invite, hand, said, joins, crossed, ever>>

\* A token lapses, after logout or by itself; suspending or rejecting its agent
\* does not end it.
TokenLapses(a, c) ==
  /\ c \in token[a]
  /\ token' = [token EXCEPT ![a] = @ \ {c}]
  /\ UNCHANGED <<account, member, invite, hand, said, joins, crossed, ever>>

\* request.company in CustomJWTAuthentication: the one the token names is not
\* checked again, the one of the X-Company-Id header is.
ActsFor(a, c) ==
  account[a] = "agent" /\ (c \in token[a] \/ member[a][c] = "active")

\* OrderConsumer._authenticate: a membership that is active now.
OpensSocket(a, c) == account[a] = "agent" /\ member[a][c] = "active"

\* AgentMembershipViewSet.my_companies, whatever the status.
MyCompanies(a) == {c \in Companies : member[a][c] # "absent"}

-----------------------------------------------------------------------------
\* The office

\* Faulty variant: a suspension is lifted even after the removal of the agent.
AcceptsRemoved(op, status) ==
  CASE op = "approve"                 -> status \in {"pending", "reviewed"}
    [] op \in {"reject", "review"}    -> status = "pending"
    [] op = "suspend"                 -> status = "active"
    [] op = "reactivate"              -> status \in {"suspended", "removed"}
    [] op \in {"remove", "edit"}      -> status # "absent"

\* What each endpoint asks of the status it reads.
Accepts(op, status) ==
  CASE op = "approve"                 -> status \in {"pending", "reviewed"}
    [] op \in {"reject", "review"}    -> status = "pending"
    [] op = "suspend"                 -> status = "active"
    [] op = "reactivate"              -> status = "suspended"
    [] op \in {"remove", "edit"}      -> status # "absent"

\* The status it saves; edit saves all columns, with the status it read.
Saves(op, status) ==
  CASE op \in {"approve", "reactivate"} -> "active"
    [] op \in {"reject", "remove"}      -> "removed"
    [] op = "suspend"                   -> "suspended"
    [] op = "review"                    -> "reviewed"
    [] op = "edit"                      -> status

\* The requests that have read a membership and not yet saved it.
Handling(a, c) == {r \in Office : Busy(r, "save") /\ hand[r].agent = a /\ hand[r].company = c}

LoadMember(r, op, a, c) ==
  /\ Free(r) /\ Accepts(op, member[a][c])
  /\ hand' = [hand EXCEPT ![r] = [step |-> "save", op |-> op, agent |-> a, company |-> c,
                                  status |-> member[a][c]]]
  /\ crossed' = IF Handling(a, c) = {} THEN crossed ELSE crossed \cup {<<a, c>>}
  /\ UNCHANGED <<account, member, invite, said, token, joins, ever>>

SaveMember(r) ==
  LET h == hand[r]
      pair == <<h.agent, h.company>>
  IN /\ Busy(r, "save")
     /\ member' = [member EXCEPT ![h.agent][h.company] = Saves(h.op, h.status)]
     /\ said' = IF h.op = "approve" THEN [said EXCEPT ![h.agent][h.company] = "approved"]
                ELSE said
     /\ ever' = IF h.op = "approve" THEN ever \cup {pair} ELSE ever
     /\ crossed' = IF h.op \in {"approve", "reject", "remove"} /\ Handling(h.agent, h.company) = {r}
                   THEN crossed \ {pair} ELSE crossed
     /\ IF h.op = "remove" THEN GoOn(r, "disable") ELSE Done(r)
     /\ UNCHANGED <<account, invite, token, joins>>

\* The second save of destroy: user.is_active = False, for every company.
Disable(r) ==
  /\ Busy(r, "disable")
  /\ account' = [account EXCEPT ![hand[r].agent] = "disabled"]
  /\ Done(r)
  /\ UNCHANGED <<member, invite, said, token, joins, crossed, ever>>

\* A handler fails or its process dies; what it saved stays.
Cut(r) ==
  /\ hand[r] # NoRequest
  /\ Done(r)
  /\ UNCHANGED <<account, member, invite, said, token, joins, crossed, ever>>

Next ==
  \/ \E r \in Front, a \in Agents : Register(r, a)
  \/ \E i \in Invites, c \in Companies, n \in MaxUses : Invite(i, c, n)
  \/ \E i \in Invites, c \in Companies : MoveInviter(i, c)
  \/ \E i \in Invites : InviteLapses(i)
  \/ \E a \in Agents, i \in Invites : RefuseInvite(a, i)
  \/ \E r \in Front, a \in Agents, i \in Invites : LoadInvite(r, a, i)
  \/ \E a \in Agents, c \in Companies : SwitchCompany(a, c) \/ TokenLapses(a, c)
  \/ \E r \in Office, op \in Staff, a \in Agents, c \in Staffed : LoadMember(r, op, a, c)
  \/ \E r \in Requests :
       \/ CreateProfile(r) \/ Join(r) \/ Return(r) \/ JoinHome(r) \/ CountUse(r)
       \/ SaveMember(r) \/ Disable(r) \/ Cut(r)

Spec == Init /\ [][Next]_vars

-----------------------------------------------------------------------------
\* Properties

TypeOK ==
  /\ account \in [Agents -> {"none", "bare", "agent", "disabled"}]
  /\ member \in [Agents -> [Companies -> MembershipStatus]]
  /\ invite \in [Invites -> [status : InviteStatus, company : Companies \cup {NoCompany},
                             home : Companies \cup {NoCompany}, max : Nat, used : Nat,
                             lapsed : BOOLEAN]]
  /\ joins \in [Invites -> Nat]

\* "This invitation has reached its maximum uses": the check and the count are
\* two steps of join_company, so the maximum can be passed, but every join is
\* counted and there are never more of them than max_uses plus the other
\* handlers that were between the two.
UsesBounded ==
  \A i \in Invites :
    /\ invite[i].used = joins[i]
    /\ invite[i].status # "absent" =>
         joins[i] + Cardinality(Joining(i)) < invite[i].max + Cardinality(Front)

\* Who is active or suspended in a company was approved there after having
\* asked to join last, whatever joins are under way and wherever handlers are
\* cut off, as long as the staff handles a membership with one request at a
\* time.  When two overlap, the late save of suspend, reactivate or
\* partial_update may bring back a member who was removed and has asked again;
\* the next lone approval, rejection or removal puts it right.  Even so nobody
\* acts for a company that never approved them, whatever tokens they kept, and
\* who acts for a company has it on the list of companies.
ActiveWasApproved ==
  /\ \A a \in Agents, c \in Companies :
       member[a][c] \in {"active", "suspended"} /\ <<a, c>> \notin crossed =>
         said[a][c] = "approved"
  /\ \A a \in Agents, c \in Companies :
       ActsFor(a, c) \/ OpensSocket(a, c) => <<a, c>> \in ever /\ c \in MyCompanies(a)

=============================================================================
