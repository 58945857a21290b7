----------------------------- MODULE People_proofs -----------------------------
(***************************************************************************)
(* Proofs about the people of a company: its agents (Membership) and its   *)
(* sub-admins (Access).                                                    *)
(*                                                                         *)
(* The tables of Membership keep their types, an invitation is joined with *)
(* at most as often as its maximum and the handlers that were between the  *)
(* check and the count allow, and who is active in a company was approved  *)
(* there, for any number of agents, companies, invitations and handlers.   *)
(* The login's permission map and the check of each request agree, a       *)
(* company keeps one default template, and the lists that are scoped by    *)
(* the key of their rows show what the rows' keys allow.                   *)
(***************************************************************************)
EXTENDS Membership, Access, FiniteSetTheorems, TLAPS

JoinSteps == {"join", "return", "home", "count"}

HandType ==
  [step : {"profile"}, agent : Agents]
    \cup [step : JoinSteps, agent : Agents, invite : Invites]
    \cup [step : {"save", "disable"}, op : Staff, agent : Agents, company : Companies,
          status : MembershipStatus]

HandsOK == hand \in [Requests -> HandType \cup {NoRequest}]

\* Whoever joins does so in a front slot, with an invitation that was sent.
JoinsSent ==
  \A r \in Requests : hand[r] # NoRequest /\ hand[r].step \in JoinSteps =>
    r \in Front /\ invite[hand[r].invite].status # "absent"

UnsentUnused == \A i \in Invites : invite[i].status = "absent" => invite[i].used = 0

UsesInv == TypeOK /\ HandsOK /\ JoinsSent /\ UnsentUnused /\ UsesBounded

-----------------------------------------------------------------------------
\* The counters

LEMMA JoiningFinite ==
  ASSUME NEW i
  PROVE  IsFiniteSet(Joining(i)) /\ Cardinality(Joining(i)) \in Nat
         /\ Joining(i) \subseteq Front /\ Cardinality(Front) \in Nat
<1>1. Joining(i) \subseteq Front
  BY DEF Joining
<1> QED BY <1>1, SlotsAssumption, FS_Subset, FS_CardinalityType

\* A slot that is free leaves room for one more join.
LEMMA JoiningRoom ==
  ASSUME NEW i, NEW r \in Front, hand[r] = NoRequest
  PROVE  Cardinality(Joining(i)) < Cardinality(Front)
<1>1. Joining(i) \subseteq Front /\ r \notin Joining(i)
  BY DEF Joining
<1>2. Cardinality(Joining(i)) <= Cardinality(Front)
  BY <1>1, SlotsAssumption, FS_Subset
<1>3. Cardinality(Joining(i)) # Cardinality(Front)
  BY <1>1, SlotsAssumption, FS_Subset
<1> QED BY <1>2, <1>3, JoiningFinite

\* A step that counts nothing and lets no new join past the check keeps the bound.
LEMMA QuietStep ==
  ASSUME UsesInv, TypeOK', HandsOK', joins' = joins,
         \A i \in Invites : /\ invite'[i].used = invite[i].used /\ invite'[i].max = invite[i].max
                            /\ invite'[i].status = "absent" <=> invite[i].status = "absent",
         \A r \in Requests : hand'[r] # NoRequest /\ hand'[r].step \in JoinSteps =>
           /\ hand[r] # NoRequest /\ hand[r].step \in JoinSteps
           /\ hand'[r].invite = hand[r].invite
  PROVE  UsesInv'
<1>1. \A r \in Requests : hand'[r] # NoRequest /\ hand'[r].step \in JoinSteps =>
        hand'[r].invite \in Invites
  BY DEF HandsOK, HandType, JoinSteps
<1>2. JoinsSent'
  BY <1>1 DEF JoinsSent, UsesInv
<1>3. UnsentUnused'
  BY DEF UnsentUnused, UsesInv
<1>4. ASSUME NEW i \in Invites PROVE Cardinality(Joining(i)') <= Cardinality(Joining(i))
  <2>1. Joining(i)' \subseteq Joining(i)
    BY DEF Joining, JoinSteps, Requests
  <2> QED BY <2>1, JoiningFinite, FS_Subset
<1>5. UsesBounded'
  <2> SUFFICES ASSUME NEW i \in Invites
               PROVE  /\ invite'[i].used = joins'[i]
                      /\ invite'[i].status # "absent" =>
                           joins'[i] + Cardinality(Joining(i)') < invite'[i].max + Cardinality(Front)
    BY DEF UsesBounded
  <2>1. joins[i] \in Nat /\ invite[i].max \in Nat
    BY DEF UsesInv, TypeOK
  <2>2. Cardinality(Joining(i)') \in Nat
    <3>1. Joining(i)' \subseteq Front
      BY DEF Joining
    <3> QED BY <3>1, SlotsAssumption, FS_Subset, FS_CardinalityType
  <2> QED BY <1>4, <2>1, <2>2, JoiningFinite DEF UsesInv, UsesBounded
<1> QED BY <1>2, <1>3, <1>5 DEF UsesInv

-----------------------------------------------------------------------------
LEMMA GoOnHand ==
  ASSUME NEW r \in Requests, NEW s, HandsOK, GoOn(r, s), hand[r] # NoRequest
  PROVE  /\ \A q \in Requests : q # r => hand'[q] = hand[q]
         /\ hand' = [hand EXCEPT ![r] = [hand[r] EXCEPT !.step = s]]
BY DEF GoOn, HandsOK

LEMMA DoneHand ==
  ASSUME NEW r \in Requests, HandsOK, Done(r)
  PROVE  HandsOK' /\ hand'[r] = NoRequest /\ \A q \in Requests : q # r => hand'[q] = hand[q]
BY DEF Done, HandsOK

\* The next step of a join: the same agent and invitation.
LEMMA JoinGoesOn ==
  ASSUME NEW r \in Requests, NEW s \in JoinSteps, HandsOK, GoOn(r, s), hand[r] # NoRequest,
         hand[r].step \in JoinSteps
  PROVE  /\ HandsOK' /\ hand[r].agent \in Agents /\ hand[r].invite \in Invites
         /\ hand'[r].invite = hand[r].invite
         /\ \A q \in Requests : q # r => hand'[q] = hand[q]
<1>1. hand[r] \in [step : JoinSteps, agent : Agents, invite : Invites]
  BY DEF HandsOK, HandType, JoinSteps
<1>2. /\ [hand[r] EXCEPT !.step = s] \in [step : JoinSteps, agent : Agents, invite : Invites]
      /\ [hand[r] EXCEPT !.step = s].invite = hand[r].invite
  BY <1>1
<1>3. [hand[r] EXCEPT !.step = s] \in HandType
  BY <1>2 DEF HandType
<1> HIDE DEF HandType
<1>4. hand' = [hand EXCEPT ![r] = [hand[r] EXCEPT !.step = s]]
  BY GoOnHand
<1> QED BY <1>1, <1>2, <1>3, <1>4 DEF HandsOK

LEMMA UsesInit == Init => UsesInv
<1> SUFFICES ASSUME Init PROVE UsesInv
  OBVIOUS
<1>1. TypeOK
  <2>1. NoInvite \in [status : InviteStatus, company : Companies \cup {NoCompany},
                      home : Companies \cup {NoCompany}, max : Nat, used : Nat, lapsed : BOOLEAN]
    BY DEF NoInvite, InviteStatus
  <2> QED BY <2>1 DEF Init, TypeOK, MembershipStatus
<1>2. HandsOK /\ JoinsSent
  BY DEF Init, HandsOK, JoinsSent
<1>3. \A i \in Invites : invite[i].status = "absent" /\ invite[i].used = 0 /\ joins[i] = 0
  BY DEF Init, NoInvite
<1> QED BY <1>1, <1>2, <1>3 DEF UsesInv, UnsentUnused, UsesBounded

-----------------------------------------------------------------------------
\* The steps, grouped as the handlers are

Inviting ==
  \/ \E i \in Invites, c \in Companies, n \in MaxUses : Invite(i, c, n)
  \/ \E i \in Invites, c \in Companies : MoveInviter(i, c)
  \/ \E i \in Invites : InviteLapses(i)
  \/ \E a \in Agents, i \in Invites : RefuseInvite(a, i)

Starting ==
  \/ \E r \in Front, a \in Agents : Register(r, a)
  \/ \E r \in Office, op \in Staff, a \in Agents, c \in Staffed : LoadMember(r, op, a, c)

GoingOn ==
  \E r \in Requests :
    \/ CreateProfile(r) \/ Join(r) \/ Return(r) \/ JoinHome(r)
    \/ SaveMember(r) \/ Disable(r) \/ Cut(r)

Switching ==
  \E a \in Agents, c \in Companies : SwitchCompany(a, c) \/ TokenLapses(a, c)

LEMMA NextGroups ==
  Next <=> \/ Inviting \/ Starting \/ GoingOn \/ Switching
           \/ \E r \in Front, a \in Agents, i \in Invites : LoadInvite(r, a, i)
           \/ \E r \in Requests : CountUse(r)
BY DEF Next, Inviting, Starting, GoingOn, Switching

InviteRow == [status : InviteStatus, company : Companies \cup {NoCompany},
              home : Companies \cup {NoCompany}, max : Nat, used : Nat, lapsed : BOOLEAN]

LEMMA InvitingStep == UsesInv /\ Inviting => UsesInv'
<1> SUFFICES ASSUME UsesInv, Inviting PROVE UsesInv'
  OBVIOUS
<1>1. ASSUME NEW i \in Invites, NEW c \in Companies, NEW n \in MaxUses, Invite(i, c, n)
      PROVE  UsesInv'
  <2>1. n \in Nat /\ n > 0
    BY UsesAssumption
  <2>2. /\ \A j \in Invites : invite'[j] =
             IF j = i THEN [status |-> "pending", company |-> c, home |-> c, max |-> n, used |-> 0,
                            lapsed |-> FALSE]
             ELSE invite[j]
        /\ UNCHANGED <<account, member, hand, said, joins>>
        /\ invite[i].status = "absent"
    BY <1>1 DEF Invite, UsesInv, TypeOK
  <2>3. TypeOK'
    BY <1>1, <2>1 DEF Invite, UsesInv, TypeOK, InviteStatus
  <2>4. HandsOK' /\ JoinsSent'
    <3>1. \A r \in Requests : hand[r] # NoRequest /\ hand[r].step \in JoinSteps =>
            hand[r].invite \in Invites
      BY DEF UsesInv, HandsOK, HandType, JoinSteps
    <3> QED BY <2>2, <3>1 DEF UsesInv, HandsOK, JoinsSent
  <2>5. UnsentUnused'
    BY <2>2 DEF UsesInv, UnsentUnused
  <2>6. Joining(i) = {} /\ joins[i] = 0
    BY <2>2 DEF Joining, Requests, JoinSteps, JoinsSent, UsesInv, UnsentUnused, UsesBounded
  <2>7. UsesBounded'
    <3> SUFFICES ASSUME NEW j \in Invites
                 PROVE  /\ invite'[j].used = joins'[j]
                        /\ invite'[j].status # "absent" =>
                             joins'[j] + Cardinality(Joining(j)') < invite'[j].max + Cardinality(Front)
      BY DEF UsesBounded
    <3>1. Joining(j)' = Joining(j)
      BY <2>2 DEF Joining
    <3>2. CASE j = i
      <4>1. Cardinality(Joining(i)) = 0
        BY <2>6, FS_EmptySet
      <4> QED BY <2>1, <2>2, <2>6, <3>1, <3>2, <4>1, JoiningFinite
    <3>3. CASE j # i
      BY <2>2, <3>1, <3>3 DEF UsesInv, UsesBounded
    <3> QED BY <3>2, <3>3
  <2> QED BY <2>3, <2>4, <2>5, <2>7 DEF UsesInv
<1>2. ASSUME NEW i \in Invites,
             \/ \E c \in Companies : MoveInviter(i, c)
             \/ InviteLapses(i)
             \/ \E a \in Agents : RefuseInvite(a, i)
      PROVE  UsesInv'
  <2>1. invite[i] \in InviteRow
    BY DEF UsesInv, TypeOK, InviteRow
  <2>2. /\ UNCHANGED <<account, member, hand, said, joins>>
        /\ invite' \in [Invites -> InviteRow]
        /\ \A j \in Invites : j # i => invite'[j] = invite[j]
        /\ invite'[i].used = invite[i].used /\ invite'[i].max = invite[i].max
        /\ invite'[i].status = "absent" <=> invite[i].status = "absent"
    <3>1. CASE \E c \in Companies : MoveInviter(i, c)
      <4>1. PICK c \in Companies : MoveInviter(i, c)
        BY <3>1
      <4>2. [invite[i] EXCEPT !.home = c] \in InviteRow
        BY <2>1 DEF InviteRow
      <4> QED BY <2>1, <4>1, <4>2 DEF MoveInviter, UsesInv, TypeOK, InviteRow
    <3>2. CASE InviteLapses(i)
      <4>1. [invite[i] EXCEPT !.lapsed = TRUE] \in InviteRow
        BY <2>1 DEF InviteRow
      <4> QED BY <2>1, <3>2, <4>1 DEF InviteLapses, UsesInv, TypeOK, InviteRow
    <3>3. CASE \E a \in Agents : RefuseInvite(a, i)
      <4>1. [invite[i] EXCEPT !.status = "expired"] \in InviteRow
        BY <2>1 DEF InviteRow, InviteStatus
      <4> QED BY <2>1, <3>3, <4>1 DEF RefuseInvite, UsesInv, TypeOK, InviteRow
    <3> QED BY <1>2, <3>1, <3>2, <3>3
  <2>3. TypeOK' /\ HandsOK'
    BY <2>2 DEF UsesInv, TypeOK, HandsOK, InviteRow
  <2> QED BY <2>2, <2>3, QuietStep
<1> QED BY <1>1, <1>2 DEF Inviting

LEMMA StartingStep == UsesInv /\ Starting => UsesInv'
<1> SUFFICES ASSUME UsesInv, Starting PROVE UsesInv'
  OBVIOUS
<1>1. ASSUME NEW r \in Front, NEW a \in Agents, Register(r, a) PROVE UsesInv'
  <2>1. TypeOK'
    BY <1>1 DEF Register, UsesInv, TypeOK
  <2>2. r \in Requests /\ hand' = [hand EXCEPT ![r] = [step |-> "profile", agent |-> a]]
    BY <1>1 DEF Register, Requests
  <2>3. HandsOK'
    BY <2>2 DEF UsesInv, HandsOK, HandType
  <2>4. \A q \in Requests : hand'[q] # NoRequest /\ hand'[q].step \in JoinSteps => hand'[q] = hand[q]
    BY <2>2 DEF UsesInv, HandsOK, JoinSteps
  <2> QED BY <1>1, <2>1, <2>3, <2>4, QuietStep DEF Register
<1>2. ASSUME NEW r \in Office, NEW op \in Staff, NEW a \in Agents, NEW c \in Staffed,
             LoadMember(r, op, a, c)
      PROVE  UsesInv'
  <2> DEFINE h == [step |-> "save", op |-> op, agent |-> a, company |-> c, status |-> member[a][c]]
  <2>1. TypeOK'
    BY <1>2 DEF LoadMember, UsesInv, TypeOK
  <2>2. r \in Requests /\ hand' = [hand EXCEPT ![r] = h]
    BY <1>2 DEF LoadMember, Requests
  <2>3. h \in HandType /\ h.step = "save"
    BY StaffedAssumption DEF HandType, UsesInv, TypeOK
  <2>4. HandsOK'
    <3> HIDE DEF h, HandType
    <3> QED BY <2>2, <2>3 DEF UsesInv, HandsOK
  <2>5. \A q \in Requests : hand'[q] # NoRequest /\ hand'[q].step \in JoinSteps => hand'[q] = hand[q]
    <3> HIDE DEF h
    <3> QED BY <2>2, <2>3 DEF UsesInv, HandsOK, JoinSteps
  <2> QED BY <1>2, <2>1, <2>4, <2>5, QuietStep DEF LoadMember
<1> QED BY <1>1, <1>2 DEF Starting

LEMMA GoingOnStep == UsesInv /\ GoingOn => UsesInv'
<1> SUFFICES ASSUME UsesInv, NEW r \in Requests,
                    \/ CreateProfile(r) \/ Join(r) \/ Return(r) \/ JoinHome(r)
                    \/ SaveMember(r) \/ Disable(r) \/ Cut(r)
             PROVE  UsesInv'
  BY DEF GoingOn
<1> USE DEF UsesInv
<1>1. CASE CreateProfile(r) \/ Disable(r) \/ Cut(r)
  <2>1. Done(r) /\ UNCHANGED <<member, invite, joins>>
    BY <1>1 DEF CreateProfile, Disable, Cut
  <2>2. TypeOK'
    BY <1>1 DEF CreateProfile, Disable, Cut, TypeOK
  <2> QED BY <2>1, <2>2, DoneHand, QuietStep
\* Joins that go on are the joins that were going on.
<1>2. ASSUME NEW s \in JoinSteps, GoOn(r, s), hand[r] # NoRequest, hand[r].step \in JoinSteps,
             TypeOK', UNCHANGED <<invite, joins>>
      PROVE  UsesInv'
  <2>1. /\ HandsOK' /\ hand'[r].invite = hand[r].invite
        /\ \A q \in Requests : q # r => hand'[q] = hand[q]
    BY <1>2, JoinGoesOn
  <2> QED BY <1>2, <2>1, QuietStep
<1>3. CASE Join(r)
  <2>1. hand[r] # NoRequest /\ hand[r].step \in JoinSteps
    BY <1>3 DEF Join, Busy, JoinSteps
  <2>2. GoOn(r, "home") \/ GoOn(r, "return")
    BY <1>3 DEF Join
  <2>3. TypeOK'
    <3>1. member' \in [Agents -> [Companies -> MembershipStatus]]
      <4>1. CASE UNCHANGED member
        BY <4>1 DEF TypeOK
      <4>2. CASE member' = [member EXCEPT ![hand[r].agent][invite[hand[r].invite].company] = "pending"]
        BY <4>2 DEF TypeOK, MembershipStatus
      <4> QED BY <1>3, <4>1, <4>2 DEF Join
    <3> QED BY <1>3, <3>1 DEF Join, TypeOK
  <2> QED BY <1>2, <1>3, <2>1, <2>2, <2>3 DEF Join, JoinSteps
<1>4. CASE Return(r)
  <2>1. hand[r] # NoRequest /\ hand[r].step \in JoinSteps
    BY <1>4 DEF Return, Busy, JoinSteps
  <2>2. TypeOK'
    BY <1>4 DEF Return, TypeOK, MembershipStatus
  <2> QED BY <1>2, <1>4, <2>1, <2>2 DEF Return, JoinSteps
<1>5. CASE JoinHome(r)
  <2>1. hand[r] # NoRequest /\ hand[r].step \in JoinSteps
    BY <1>5 DEF JoinHome, Busy, JoinSteps
  <2>2. TypeOK'
    BY <1>5 DEF JoinHome, TypeOK, MembershipStatus
  <2> QED BY <1>2, <1>5, <2>1, <2>2 DEF JoinHome, JoinSteps
<1>6. CASE SaveMember(r)
  <2> DEFINE SaveType == [step : {"save", "disable"}, op : Staff, agent : Agents,
                          company : Companies, status : MembershipStatus]
  <2>1. hand[r] \in SaveType /\ hand[r].step = "save"
    BY <1>6 DEF SaveMember, Busy, HandsOK, HandType, JoinSteps
  <2>2. Saves(hand[r].op, hand[r].status) \in MembershipStatus
    BY <2>1 DEF Saves, MembershipStatus, Staff
  <2>3. TypeOK'
    BY <1>6, <2>1, <2>2 DEF SaveMember, TypeOK
  <2>4. CASE Done(r)
    BY <1>6, <2>3, <2>4, DoneHand, QuietStep DEF SaveMember
  <2>5. CASE GoOn(r, "disable")
    <3>1. /\ [hand[r] EXCEPT !.step = "disable"] \in SaveType
          /\ [hand[r] EXCEPT !.step = "disable"].step = "disable"
      BY <2>1
    <3>2. [hand[r] EXCEPT !.step = "disable"] \in HandType
      BY <3>1 DEF HandType
    <3>3. hand[r] # NoRequest
      BY <1>6 DEF SaveMember, Busy
    <3>4. hand' = [hand EXCEPT ![r] = [hand[r] EXCEPT !.step = "disable"]]
      BY <2>5, <3>3, GoOnHand
    <3>5. HandsOK' /\ hand'[r].step = "disable" /\ \A q \in Requests : q # r => hand'[q] = hand[q]
      <4> HIDE DEF HandType
      <4> QED BY <3>1, <3>2, <3>4 DEF HandsOK
    <3> QED BY <1>6, <2>3, <3>5, QuietStep DEF SaveMember, JoinSteps
  <2> QED BY <1>6, <2>4, <2>5 DEF SaveMember
<1> QED BY <1>1, <1>3, <1>4, <1>5, <1>6

\* One more join passes the check: its slot was free, and a use was left.
LEMMA LoadStep ==
  ASSUME UsesInv, NEW r \in Front, NEW a \in Agents, NEW i \in Invites, LoadInvite(r, a, i)
  PROVE  UsesInv'
<1> USE DEF UsesInv
<1>1. /\ r \in Requests /\ hand[r] = NoRequest /\ invite[i].status = "pending"
      /\ invite[i].used < invite[i].max
      /\ UNCHANGED <<account, member, invite, said, joins>>
      /\ hand' = [hand EXCEPT ![r] = [step |-> "join", agent |-> a, invite |-> i]]
  <2>1. invite[i].used \in Nat /\ invite[i].max \in Nat
    BY DEF TypeOK
  <2> QED BY <2>1 DEF LoadInvite, Free, Spent, Requests
<1>2. hand'[r] = [step |-> "join", agent |-> a, invite |-> i] /\ \A q \in Requests : q # r => hand'[q] = hand[q]
  BY <1>1 DEF HandsOK
<1>3. TypeOK' /\ UnsentUnused'
  BY <1>1 DEF TypeOK, UnsentUnused
<1>4. HandsOK'
  BY <1>1 DEF HandsOK, HandType, JoinSteps
<1>5. JoinsSent'
  BY <1>1, <1>2 DEF JoinsSent
<1>6. UsesBounded'
  <2> SUFFICES ASSUME NEW j \in Invites
               PROVE  /\ invite[j].used = joins[j]
                      /\ invite[j].status # "absent" =>
                           joins[j] + Cardinality(Joining(j)') < invite[j].max + Cardinality(Front)
    BY <1>1 DEF UsesBounded
  <2>1. CASE j = i
    <3>1. Joining(i)' \subseteq Joining(i) \cup {r} /\ r \notin Joining(i)
      BY <1>1, <1>2 DEF Joining, Requests
    <3>0. /\ Cardinality(Joining(i) \cup {r}) = Cardinality(Joining(i)) + 1
          /\ IsFiniteSet(Joining(i) \cup {r})
      BY <3>1, JoiningFinite, FS_AddElement
    <3>2. /\ Cardinality(Joining(i)') <= Cardinality(Joining(i)) + 1
          /\ Cardinality(Joining(i)') \in Nat
      BY <3>0, <3>1, FS_Subset, FS_CardinalityType
    <3>3. Cardinality(Joining(i)) < Cardinality(Front)
      BY <1>1, JoiningRoom
    <3>4. invite[i].max \in Nat /\ invite[i].used \in Nat
      BY DEF TypeOK
    <3> QED BY <1>1, <2>1, <3>2, <3>3, <3>4, JoiningFinite DEF UsesBounded
  <2>2. CASE j # i
    <3>1. Joining(j)' = Joining(j)
      BY <1>1, <1>2, <2>2 DEF Joining, Requests
    <3> QED BY <3>1 DEF UsesBounded
  <2> QED BY <2>1, <2>2
<1> QED BY <1>3, <1>4, <1>5, <1>6

\* A join is counted and leaves.
LEMMA CountStep ==
  ASSUME UsesInv, NEW r \in Requests, CountUse(r)
  PROVE  UsesInv'
<1> USE DEF UsesInv
<1> DEFINE i == hand[r].invite
<1>1. hand[r] # NoRequest /\ hand[r].step = "count" /\ Done(r)
  BY DEF CountUse, Busy
<1>2. i \in Invites /\ r \in Front /\ invite[i].status # "absent"
  BY <1>1 DEF HandsOK, HandType, JoinSteps, JoinsSent
<1>3. /\ invite[i] \in InviteRow
      /\ invite' = [invite EXCEPT ![i] = [invite[i] EXCEPT !.used = invite[i].used + 1]]
      /\ joins' = [joins EXCEPT ![i] = joins[i] + 1]
  BY <1>2 DEF CountUse, TypeOK, InviteRow
<1>4. /\ [invite[i] EXCEPT !.used = invite[i].used + 1] \in InviteRow
      /\ [invite[i] EXCEPT !.used = invite[i].used + 1].used = invite[i].used + 1
      /\ [invite[i] EXCEPT !.used = invite[i].used + 1].max = invite[i].max
      /\ [invite[i] EXCEPT !.used = invite[i].used + 1].status = invite[i].status
  BY <1>3 DEF InviteRow
<1>5. /\ invite' \in [Invites -> InviteRow] /\ invite'[i].used = invite[i].used + 1
      /\ invite'[i].max = invite[i].max /\ invite'[i].status = invite[i].status
      /\ \A j \in Invites : j # i => invite'[j] = invite[j]
      /\ joins' \in [Invites -> Nat] /\ joins'[i] = joins[i] + 1
      /\ \A j \in Invites : j # i => joins'[j] = joins[j]
  <2>1. invite \in [Invites -> InviteRow] /\ joins \in [Invites -> Nat]
    BY DEF TypeOK, InviteRow
  <2> HIDE DEF InviteRow, i
  <2> QED BY <1>2, <1>3, <1>4, <2>1
<1>6. TypeOK'
  BY <1>5 DEF CountUse, TypeOK, InviteRow
<1>7. /\ HandsOK' /\ hand'[r] = NoRequest
      /\ \A q \in Requests : q # r => hand'[q] = hand[q]
  BY <1>1, DoneHand
<1>8. JoinsSent'
  <2>1. \A q \in Requests : hand[q] # NoRequest /\ hand[q].step \in JoinSteps => hand[q].invite \in Invites
    BY DEF HandsOK, HandType, JoinSteps
  <2> HIDE DEF i
  <2> QED BY <1>5, <1>7, <2>1 DEF JoinsSent
<1>9. UnsentUnused'
  BY <1>2, <1>5 DEF UnsentUnused
<1>10. UsesBounded'
  <2> SUFFICES ASSUME NEW j \in Invites
               PROVE  /\ invite'[j].used = joins'[j]
                      /\ invite'[j].status # "absent" =>
                           joins'[j] + Cardinality(Joining(j)') < invite'[j].max + Cardinality(Front)
    BY DEF UsesBounded
  <2>0. joins[j] \in Nat /\ invite[j].max \in Nat
    BY DEF TypeOK
  <2>1. CASE j = i
    <3>1. Joining(i) \ {r} = Joining(j)' /\ r \in Joining(i)
      BY <1>1, <1>2, <1>7, <2>1 DEF Joining, Requests
    <3>2. Cardinality(Joining(j)') = Cardinality(Joining(i)) - 1
      BY <3>1, JoiningFinite, FS_RemoveElement
    <3> QED BY <1>2, <1>5, <2>0, <2>1, <3>2, JoiningFinite DEF UsesBounded
  <2>2. CASE j # i
    <3>1. Joining(j)' = Joining(j)
      BY <1>1, <1>7, <2>2 DEF Joining, Requests
    <3> QED BY <1>5, <2>2, <3>1 DEF UsesBounded
  <2> QED BY <2>1, <2>2
<1> QED BY <1>6, <1>7, <1>8, <1>9, <1>10

LEMMA UsesStep == UsesInv /\ [Next]_vars => UsesInv'
<1>1. UsesInv /\ UNCHANGED vars => UsesInv'
  BY DEF UsesInv, TypeOK, HandsOK, JoinsSent, UnsentUnused, UsesBounded, Joining, vars
<1>2. UsesInv /\ Switching => UsesInv'
  BY DEF UsesInv, TypeOK, HandsOK, JoinsSent, UnsentUnused, UsesBounded, Joining, Switching,
         SwitchCompany, TokenLapses
<1> QED
  BY <1>1, <1>2, NextGroups, InvitingStep, StartingStep, GoingOnStep, LoadStep, CountStep

\* However joins overlap, an invitation is used no more often than its maximum
\* and the other front slots, and every join is counted.
THEOREM UsesCorrect == Spec => []UsesBounded
<1>1. UsesInv => UsesBounded
  BY DEF UsesInv
<1> QED BY <1>1, UsesInit, UsesStep, PTL DEF Spec


-----------------------------------------------------------------------------
\* Who is active was approved.  Two facts are kept of each membership: who was
\* ever let in (Met), and, as long as the staff handles it with one request at a
\* time, what the request in flight has read (Lone).

In == {"active", "suspended"}

\* A request of the staff saves what it read and was allowed to change.
HandsRead ==
  \A r \in Requests : Busy(r, "save") =>
    r \in Office /\ Accepts(hand[r].op, hand[r].status)

WordsOK ==
  /\ said \in [Agents -> [Companies -> {"nothing", "asked", "approved"}]]
  /\ token \in [Agents -> SUBSET Companies]

Met(a, c) ==
  /\ member[a][c] \in In \/ c \in token[a] => <<a, c>> \in ever
  /\ \A r \in Handling(a, c) : hand[r].status \in In => <<a, c>> \in ever
  /\ <<a, c>> \in ever => member[a][c] # "absent"

Lone(a, c) ==
  <<a, c>> \notin crossed =>
    /\ \A q, r \in Handling(a, c) : q = r
    /\ member[a][c] \in In => said[a][c] = "approved"
    /\ \A r \in Handling(a, c) :
         hand[r].status \in In => said[a][c] = "approved" /\ member[a][c] \notin {"absent", "removed"}

ApprovedInv ==
  UsesInv /\ HandsRead /\ WordsOK /\ \A a \in Agents, c \in Companies : Met(a, c) /\ Lone(a, c)

\* Steps of the front: a membership stays or is asked for, and no request of the
\* staff reads or saves.
LEMMA FrontRow ==
  ASSUME NEW a \in Agents, NEW c \in Companies, Met(a, c), Lone(a, c),
         \/ member'[a][c] = member[a][c] /\ said'[a][c] = said[a][c]
         \/ /\ member'[a][c] = "pending"
            /\ \/ said'[a][c] = said[a][c]
               \/ said'[a][c] = "asked" /\ member[a][c] \in {"absent", "removed"},
         ever' = ever, crossed' = crossed,
         c \in token'[a] => c \in token[a] \/ member[a][c] = "active",
         \A r \in Handling(a, c)' : r \in Handling(a, c) /\ hand'[r] = hand[r]
  PROVE  Met(a, c)' /\ Lone(a, c)'
<1>1. Met(a, c)'
  BY DEF Met, In
<1>2. Lone(a, c)'
  BY DEF Lone, In
<1> QED BY <1>1, <1>2

LEMMA StaffHands ==
  ASSUME \A r \in Requests : Busy(r, "save")' => Busy(r, "save") /\ hand'[r] = hand[r]
  PROVE  /\ HandsRead => HandsRead'
         /\ \A a \in Agents, c \in Companies :
              \A r \in Handling(a, c)' : r \in Handling(a, c) /\ hand'[r] = hand[r]
<1>1. HandsRead => HandsRead'
  BY DEF HandsRead
<1>2. \A r \in Office : r \in Requests
  BY DEF Requests
<1> QED BY <1>1, <1>2 DEF Handling


\* The steps of accounts, invitations and tokens.
LEMMA QuietRows ==
  ASSUME ApprovedInv, \/ Inviting \/ Switching
                      \/ \E r \in Front, a \in Agents : Register(r, a)
                      \/ \E r \in Front, a \in Agents, i \in Invites : LoadInvite(r, a, i)
                      \/ \E r \in Requests : CreateProfile(r) \/ Disable(r) \/ Cut(r) \/ CountUse(r)
  PROVE  HandsRead' /\ WordsOK' /\ \A a \in Agents, c \in Companies : Met(a, c)' /\ Lone(a, c)'
<1>1. UNCHANGED <<member, said, crossed, ever>>
  BY DEF Inviting, Switching, Invite, MoveInviter, InviteLapses, RefuseInvite, SwitchCompany,
         TokenLapses, Register, LoadInvite, CreateProfile, Disable, Cut, CountUse
<1>2. \A r \in Requests : Busy(r, "save")' => Busy(r, "save") /\ hand'[r] = hand[r]
  <2>1. CASE Inviting \/ Switching
    <3>1. UNCHANGED hand
      BY <2>1 DEF Inviting, Switching, Invite, MoveInviter, InviteLapses, RefuseInvite,
                  SwitchCompany, TokenLapses
    <3> QED BY <3>1 DEF Busy
  <2>2. ASSUME NEW r \in Front, NEW a \in Agents, Register(r, a)
        PROVE  \A q \in Requests : Busy(q, "save")' => Busy(q, "save") /\ hand'[q] = hand[q]
    BY <2>2 DEF Register, Busy, Requests, ApprovedInv, UsesInv, HandsOK
  <2>3. ASSUME NEW r \in Front, NEW a \in Agents, NEW i \in Invites, LoadInvite(r, a, i)
        PROVE  \A q \in Requests : Busy(q, "save")' => Busy(q, "save") /\ hand'[q] = hand[q]
    BY <2>3 DEF LoadInvite, Busy, Requests, ApprovedInv, UsesInv, HandsOK
  <2>4. ASSUME NEW r \in Requests, CreateProfile(r) \/ Disable(r) \/ Cut(r) \/ CountUse(r)
        PROVE  \A q \in Requests : Busy(q, "save")' => Busy(q, "save") /\ hand'[q] = hand[q]
    <3>1. Done(r)
      BY <2>4 DEF CreateProfile, Disable, Cut, CountUse
    <3> QED BY <3>1, DoneHand DEF Busy, ApprovedInv, UsesInv
  <2> QED BY <2>1, <2>2, <2>3, <2>4
<1>3. WordsOK' /\ \A a \in Agents, c \in Companies :
                    c \in token'[a] => c \in token[a] \/ member[a][c] = "active"
  <2>1. CASE UNCHANGED token
    BY <1>1, <2>1 DEF ApprovedInv, WordsOK
  <2>2. ASSUME NEW a \in Agents, NEW c \in Companies, SwitchCompany(a, c) \/ TokenLapses(a, c)
        PROVE  WordsOK' /\ \A b \in Agents, d \in Companies :
                             d \in token'[b] => d \in token[b] \/ member[b][d] = "active"
    <3>1. \/ token' = [token EXCEPT ![a] = token[a] \cup {c}] /\ member[a][c] = "active"
          \/ token' = [token EXCEPT ![a] = token[a] \ {c}]
      BY <2>2 DEF SwitchCompany, TokenLapses
    <3> QED BY <1>1, <3>1 DEF ApprovedInv, WordsOK
  <2>3. UNCHANGED token \/ Switching
    BY DEF Inviting, Invite, MoveInviter, InviteLapses, RefuseInvite, Register, LoadInvite,
           CreateProfile, Disable, Cut, CountUse
  <2> QED BY <2>1, <2>2, <2>3 DEF Switching
<1>4. HandsRead' /\ \A a \in Agents, c \in Companies :
                      \A r \in Handling(a, c)' : r \in Handling(a, c) /\ hand'[r] = hand[r]
  BY <1>2, StaffHands DEF ApprovedInv
<1>5. ASSUME NEW a \in Agents, NEW c \in Companies PROVE Met(a, c)' /\ Lone(a, c)'
  BY <1>1, <1>3, <1>4, FrontRow DEF ApprovedInv
<1> QED BY <1>3, <1>4, <1>5

\* A join asks for a membership that is absent or removed, or finds it there; a
\* late second save makes a membership pending that was approved meanwhile.
LEMMA JoinRows ==
  ASSUME ApprovedInv, NEW r \in Requests, Join(r) \/ Return(r) \/ JoinHome(r)
  PROVE  HandsRead' /\ WordsOK' /\ \A a \in Agents, c \in Companies : Met(a, c)' /\ Lone(a, c)'
<1>1. hand[r] # NoRequest /\ hand[r].step \in JoinSteps /\ UNCHANGED <<token, crossed, ever>>
  BY DEF Join, Return, JoinHome, Busy, JoinSteps
<1>2. PICK s \in JoinSteps : GoOn(r, s)
  BY DEF Join, Return, JoinHome, JoinSteps
<1>3. /\ \A q \in Requests : q # r => hand'[q] = hand[q]
      /\ hand'[r].step # "save"
  <2>1. hand[r] \in [step : JoinSteps, agent : Agents, invite : Invites]
    BY <1>1 DEF ApprovedInv, UsesInv, HandsOK, HandType, JoinSteps
  <2>2. [hand[r] EXCEPT !.step = s].step = s
    BY <2>1
  <2>3. hand' = [hand EXCEPT ![r] = [hand[r] EXCEPT !.step = s]] /\ \A q \in Requests : q # r => hand'[q] = hand[q]
    BY <1>1, <1>2, GoOnHand DEF ApprovedInv, UsesInv
  <2>4. hand'[r].step = s
    BY <2>2, <2>3 DEF ApprovedInv, UsesInv, HandsOK
  <2> QED BY <2>3, <2>4 DEF JoinSteps
<1>4. HandsRead' /\ \A a \in Agents, c \in Companies :
                      \A q \in Handling(a, c)' : q \in Handling(a, c) /\ hand'[q] = hand[q]
  <2>1. \A q \in Requests : Busy(q, "save")' => Busy(q, "save") /\ hand'[q] = hand[q]
    BY <1>3 DEF Busy
  <2> QED BY <2>1, StaffHands DEF ApprovedInv
<1>5. PICK b, d :
        \/ UNCHANGED <<member, said>>
        \/ /\ member' = [member EXCEPT ![b][d] = "pending"]
           /\ \/ said' = said
              \/ said' = [said EXCEPT ![b][d] = "asked"] /\ member[b][d] \in {"absent", "removed"}
  BY DEF Join, Return, JoinHome
<1>6. /\ WordsOK'
      /\ \A a \in Agents, c \in Companies :
           \/ member'[a][c] = member[a][c] /\ said'[a][c] = said[a][c]
           \/ /\ member'[a][c] = "pending"
              /\ \/ said'[a][c] = said[a][c]
                 \/ said'[a][c] = "asked" /\ member[a][c] \in {"absent", "removed"}
  <2>1. /\ member \in [Agents -> [Companies -> MembershipStatus]]
        /\ said \in [Agents -> [Companies -> {"nothing", "asked", "approved"}]]
        /\ token' \in [Agents -> SUBSET Companies]
    BY <1>1 DEF ApprovedInv, WordsOK, UsesInv, TypeOK
  <2>2. said' \in [Agents -> [Companies -> {"nothing", "asked", "approved"}]]
    <3>1. CASE said' = said
      BY <2>1, <3>1
    <3>2. CASE said' = [said EXCEPT ![b][d] = "asked"]
      <4>1. \A row \in [Companies -> {"nothing", "asked", "approved"}] :
              [row EXCEPT ![d] = "asked"] \in [Companies -> {"nothing", "asked", "approved"}]
        OBVIOUS
      <4>2. b \in Agents =>
              [said[b] EXCEPT ![d] = "asked"] \in [Companies -> {"nothing", "asked", "approved"}]
        BY <2>1, <4>1
      <4>3. said' = [said EXCEPT ![b] = [said[b] EXCEPT ![d] = "asked"]]
        BY <3>2
      <4> HIDE <3>2
      <4> QED BY <2>1, <4>2, <4>3
    <3> QED BY <1>5, <3>1, <3>2
  <2>3. ASSUME NEW a \in Agents, NEW c \in Companies
        PROVE  \/ member'[a][c] = member[a][c] /\ said'[a][c] = said[a][c]
               \/ /\ member'[a][c] = "pending"
                  /\ \/ said'[a][c] = said[a][c]
                     \/ said'[a][c] = "asked" /\ member[a][c] \in {"absent", "removed"}
    <3>1. CASE a = b /\ c = d
      BY <1>5, <2>1, <3>1
    <3>2. CASE a # b \/ c # d
      BY <1>5, <2>1, <3>2
    <3> QED BY <3>1, <3>2
  <2> QED BY <2>1, <2>2, <2>3 DEF WordsOK
<1>7. ASSUME NEW a \in Agents, NEW c \in Companies PROVE Met(a, c)' /\ Lone(a, c)'
  BY <1>1, <1>4, <1>6, FrontRow DEF ApprovedInv
<1> QED BY <1>4, <1>6, <1>7

LEMMA ReadRows ==
  ASSUME ApprovedInv, NEW r \in Office, NEW op \in Staff, NEW a \in Agents, NEW c \in Staffed,
         LoadMember(r, op, a, c)
  PROVE  HandsRead' /\ WordsOK' /\ \A b \in Agents, d \in Companies : Met(b, d)' /\ Lone(b, d)'
<1> DEFINE h == [step |-> "save", op |-> op, agent |-> a, company |-> c, status |-> member[a][c]]
<1>1. /\ hand' = [hand EXCEPT ![r] = h] /\ Accepts(op, member[a][c]) /\ r \in Requests
      /\ hand[r] = NoRequest /\ UNCHANGED <<member, said, token, ever>>
      /\ crossed' = IF Handling(a, c) = {} THEN crossed ELSE crossed \cup {<<a, c>>}
  BY DEF LoadMember, Free, Requests
<1>2. hand'[r] = h /\ \A q \in Requests : q # r => hand'[q] = hand[q]
  BY <1>1 DEF ApprovedInv, UsesInv, HandsOK
<1>3. h.step = "save" /\ h.op = op /\ h.agent = a /\ h.company = c /\ h.status = member[a][c]
  OBVIOUS
<1> HIDE DEF h
<1>4. HandsRead' /\ WordsOK'
  BY <1>1, <1>2, <1>3 DEF ApprovedInv, HandsRead, WordsOK, Busy
<1>5. ASSUME NEW b \in Agents, NEW d \in Companies, b # a \/ d # c
      PROVE  Met(b, d)' /\ Lone(b, d)'
  <2>1. \A q \in Handling(b, d)' : q \in Handling(b, d) /\ hand'[q] = hand[q]
    BY <1>2, <1>3, <1>5 DEF Handling, Busy, Requests
  <2>2. <<b, d>> \in crossed' <=> <<b, d>> \in crossed
    BY <1>1, <1>5
  <2>3. Met(b, d) /\ Lone(b, d)
    BY DEF ApprovedInv
  <2> QED BY <1>1, <2>1, <2>2, <2>3 DEF Met, Lone
<1>6. Met(a, c)' /\ Lone(a, c)'
  <2>1. \A q \in Handling(a, c)' : q = r \/ (q \in Handling(a, c) /\ hand'[q] = hand[q])
    BY <1>2 DEF Handling, Busy, Requests
  <2>2. Met(a, c) /\ Lone(a, c)
    BY StaffedAssumption DEF ApprovedInv
  <2>3. Met(a, c)'
    BY <1>1, <1>2, <1>3, <2>1, <2>2 DEF Met
  <2>4. <<a, c>> \notin crossed' => Handling(a, c) = {} /\ <<a, c>> \notin crossed
    BY <1>1
  <2>5. Lone(a, c)'
    BY <1>1, <1>2, <1>3, <2>1, <2>2, <2>4 DEF Lone, In
  <2> QED BY <2>3, <2>5
<1> QED BY <1>4, <1>5, <1>6

LEMMA SavedRows ==
  ASSUME ApprovedInv, NEW r \in Requests, SaveMember(r)
  PROVE  HandsRead' /\ WordsOK' /\ \A b \in Agents, d \in Companies : Met(b, d)' /\ Lone(b, d)'
<1>0. PICK h : h = hand[r]
  OBVIOUS
<1> DEFINE a == h.agent
           c == h.company
           saved == Saves(h.op, h.status)
<1>1. /\ hand[r] # NoRequest /\ h.step = "save" /\ r \in Office /\ Accepts(h.op, h.status)
      /\ h.op \in Staff /\ h.status \in MembershipStatus /\ a \in Agents /\ c \in Companies
  <2>1. Busy(r, "save")
    BY DEF SaveMember
  <2>2. h \in [step : {"save", "disable"}, op : Staff, agent : Agents, company : Companies,
               status : MembershipStatus]
    BY <1>0, <2>1 DEF Busy, ApprovedInv, UsesInv, HandsOK, HandType, JoinSteps
  <2> QED BY <1>0, <2>1, <2>2 DEF Busy, ApprovedInv, HandsRead
<1>2. /\ member' = [member EXCEPT ![a][c] = saved]
      /\ said' = IF h.op = "approve" THEN [said EXCEPT ![a][c] = "approved"] ELSE said
      /\ ever' = IF h.op = "approve" THEN ever \cup {<<a, c>>} ELSE ever
      /\ crossed' = IF h.op \in {"approve", "reject", "remove"} /\ Handling(a, c) = {r}
                    THEN crossed \ {<<a, c>>} ELSE crossed
      /\ token' = token
  BY <1>0 DEF SaveMember
<1>3. hand'[r] = NoRequest \/ hand'[r].step # "save"
  <2>1. CASE Done(r)
    BY <2>1, DoneHand DEF ApprovedInv, UsesInv
  <2>2. CASE GoOn(r, "disable")
    <3>1. h \in [step : {"save", "disable"}, op : Staff, agent : Agents, company : Companies,
                 status : MembershipStatus]
      BY <1>0, <1>1 DEF ApprovedInv, UsesInv, HandsOK, HandType, JoinSteps
    <3>2. [hand[r] EXCEPT !.step = "disable"].step = "disable"
      BY <1>0, <3>1
    <3>3. hand' = [hand EXCEPT ![r] = [hand[r] EXCEPT !.step = "disable"]]
      BY <1>1, <2>2, GoOnHand DEF ApprovedInv, UsesInv
    <3> QED BY <3>2, <3>3 DEF ApprovedInv, UsesInv, HandsOK
  <2> QED BY <2>1, <2>2 DEF SaveMember
<1>4. \A q \in Requests : q # r => hand'[q] = hand[q]
  BY <1>1, DoneHand, GoOnHand DEF SaveMember, ApprovedInv, UsesInv
<1>5. \A q \in Requests : Busy(q, "save")' => q # r /\ Busy(q, "save") /\ hand'[q] = hand[q]
  BY <1>3, <1>4 DEF Busy
<1>6. HandsRead' /\ \A b \in Agents, d \in Companies :
                      \A q \in Handling(b, d)' : q # r /\ q \in Handling(b, d) /\ hand'[q] = hand[q]
  <2>1. \A q \in Office : q \in Requests
    BY DEF Requests
  <2> QED BY <1>5, <2>1, StaffHands DEF ApprovedInv, Handling
<1>7. r \in Handling(a, c)
  BY <1>0, <1>1 DEF Handling, Busy
<1>8. /\ saved # "absent"
      /\ saved \in In => h.op = "approve" \/ h.status \in In
      /\ saved \in {"absent", "removed"} => h.op \in {"reject", "remove", "edit"}
  BY <1>1 DEF Saves, Accepts, In, Staff, MembershipStatus
<1> HIDE DEF a, c, saved
<1>9. WordsOK'
  BY <1>1, <1>2 DEF ApprovedInv, WordsOK
<1>10. ASSUME NEW b \in Agents, NEW d \in Companies, b # a \/ d # c
       PROVE  Met(b, d)' /\ Lone(b, d)'
  <2>1. /\ member'[b][d] = member[b][d] /\ said'[b][d] = said[b][d] /\ token' = token
        /\ <<b, d>> \in ever' <=> <<b, d>> \in ever
        /\ <<b, d>> \in crossed' <=> <<b, d>> \in crossed
    BY <1>1, <1>2, <1>10 DEF ApprovedInv, UsesInv, TypeOK, WordsOK
  <2>2. Met(b, d) /\ Lone(b, d)
    BY DEF ApprovedInv
  <2> QED BY <1>6, <2>1, <2>2 DEF Met, Lone
<1>11. Met(a, c)' /\ Lone(a, c)'
  <2>1. /\ member'[a][c] = saved
        /\ said'[a][c] = IF h.op = "approve" THEN "approved" ELSE said[a][c]
        /\ <<a, c>> \in ever' <=> <<a, c>> \in ever \/ h.op = "approve"
    BY <1>1, <1>2 DEF ApprovedInv, UsesInv, TypeOK, WordsOK
  <2>2. Met(a, c) /\ Lone(a, c)
    BY <1>1 DEF ApprovedInv
  <2>3. h.status \in In => <<a, c>> \in ever
    BY <1>0, <1>7, <2>2 DEF Met
  <2>4. Met(a, c)'
    BY <1>1, <1>2, <1>6, <1>8, <2>1, <2>2, <2>3 DEF Met
  <2>5. ASSUME <<a, c>> \notin crossed'
        PROVE  /\ Handling(a, c)' = {}
               /\ saved \in In => said'[a][c] = "approved"
    <3>1. CASE <<a, c>> \notin crossed
      <4>1. \A q \in Handling(a, c) : q = r
        BY <1>7, <2>2, <3>1 DEF Lone
      <4>2. h.status \in In => said[a][c] = "approved"
        BY <1>0, <1>7, <2>2, <3>1 DEF Lone
      <4> QED BY <1>6, <1>1, <1>8, <2>1, <4>1, <4>2
    <3>2. CASE <<a, c>> \in crossed
      <4>1. h.op \in {"approve", "reject", "remove"} /\ Handling(a, c) = {r}
        BY <1>2, <2>5, <3>2
      <4>2. saved \in In => h.op = "approve"
        BY <4>1 DEF saved, Saves, In
      <4> QED BY <1>1, <1>6, <2>1, <4>1, <4>2
    <3> QED BY <3>1, <3>2
  <2>6. Lone(a, c)'
    BY <2>1, <2>5 DEF Lone
  <2> QED BY <2>4, <2>6
<1> QED BY <1>6, <1>9, <1>10, <1>11


LEMMA ApprovedInit == Init => ApprovedInv
<1> SUFFICES ASSUME Init PROVE ApprovedInv
  OBVIOUS
<1>1. HandsRead /\ \A a \in Agents, c \in Companies : Handling(a, c) = {}
  BY DEF Init, HandsRead, Handling, Busy, Requests
<1>2. WordsOK /\ ever = {} /\ \A a \in Agents, c \in Companies : member[a][c] = "absent" /\ token[a] = {}
  BY DEF Init, WordsOK
<1> QED BY <1>1, <1>2, UsesInit DEF ApprovedInv, Met, Lone, In

LEMMA ApprovedStep == ApprovedInv /\ [Next]_vars => ApprovedInv'
<1> SUFFICES ASSUME ApprovedInv, [Next]_vars PROVE ApprovedInv'
  OBVIOUS
<1>1. UsesInv'
  BY UsesStep DEF ApprovedInv
<1>2. CASE UNCHANGED vars
  <2>1. \A r \in Requests : Busy(r, "save")' => Busy(r, "save") /\ hand'[r] = hand[r]
    BY <1>2 DEF vars, Busy
  <2>2. HandsRead' /\ WordsOK'
    BY <1>2, <2>1, StaffHands DEF vars, ApprovedInv, WordsOK
  <2>3. ASSUME NEW a \in Agents, NEW c \in Companies PROVE Met(a, c)' /\ Lone(a, c)'
    BY <1>2, <2>1, StaffHands, FrontRow DEF vars, ApprovedInv
  <2> QED BY <1>1, <2>2, <2>3 DEF ApprovedInv
<1>3. CASE Next
  <2>1. \/ \/ Inviting \/ Switching
           \/ \E r \in Front, a \in Agents : Register(r, a)
           \/ \E r \in Front, a \in Agents, i \in Invites : LoadInvite(r, a, i)
           \/ \E r \in Requests : CreateProfile(r) \/ Disable(r) \/ Cut(r) \/ CountUse(r)
        \/ \E r \in Requests : Join(r) \/ Return(r) \/ JoinHome(r)
        \/ \E r \in Office, op \in Staff, a \in Agents, c \in Staffed : LoadMember(r, op, a, c)
        \/ \E r \in Requests : SaveMember(r)
    BY <1>3, NextGroups DEF Starting, GoingOn
  <2>2. HandsRead' /\ WordsOK' /\ \A a \in Agents, c \in Companies : Met(a, c)' /\ Lone(a, c)'
    BY <2>1, QuietRows, JoinRows, ReadRows, SavedRows
  <2> QED BY <1>1, <2>2 DEF ApprovedInv
<1> QED BY <1>2, <1>3

\* With one request of the staff at a time on a membership, who is active or
\* suspended was approved since asking last, however joins overlap and wherever
\* handlers are cut off; and whatever overlaps, nobody acts for a company that
\* never approved them.
THEOREM ApprovedCorrect == Spec => []ActiveWasApproved
<1>1. ApprovedInv => ActiveWasApproved
  <2> SUFFICES ASSUME ApprovedInv, NEW a \in Agents, NEW c \in Companies
               PROVE  /\ member[a][c] \in {"active", "suspended"} /\ <<a, c>> \notin crossed =>
                           said[a][c] = "approved"
                      /\ ActsFor(a, c) \/ OpensSocket(a, c) => <<a, c>> \in ever /\ c \in MyCompanies(a)
    BY DEF ActiveWasApproved
  <2>1. Met(a, c) /\ Lone(a, c)
    BY DEF ApprovedInv
  <2> QED BY <2>1 DEF Met, Lone, In, ActsFor, OpensSocket, MyCompanies
<1> QED BY <1>1, ApprovedInit, ApprovedStep, PTL DEF Spec


-----------------------------------------------------------------------------
\* Sub-admins: what their permission rows and templates say

\* At most one permission row speaks of a module.
ModulesUnique ==
  \A p, q \in Kept : permission[p].module = permission[q].module => p = q

\* What the requests in flight hold on to.
HandsApart ==
  \A q, r \in Slots :
    call[q] # NoCall /\ call[r] # NoCall /\ q # r => call[q].template # call[r].template

HandOwned ==
  \A r \in Slots : call[r] # NoCall /\ call[r].op = "set" =>
    (template[call[r].template] # NoRow => template[call[r].template].company = call[r].company)

\* A lone change sees every default of its company, and a change that takes the
\* flag from no other template brings none.
LoneSees ==
  \A r \in Slots : call[r] # NoCall /\ call[r].op = "set" /\ call[r].alone =>
    /\ Setting(call[r].company) = {r}
    /\ call[r].clears => Defaults(call[r].company) \subseteq call[r].seen \cup {call[r].template}
    /\ ~call[r].clears /\ call[r].default => call[r].template \in Defaults(call[r].company)

DefaultInv == ATypeOK /\ HandsApart /\ HandOwned /\ LoneSees /\ OneDefault

-----------------------------------------------------------------------------
\* Types

LEMMA InitTypes == AInit => ATypeOK /\ ModulesUnique /\ HandsApart /\ HandOwned /\ LoneSees /\ OneDefault
<1> SUFFICES ASSUME AInit
             PROVE  ATypeOK /\ ModulesUnique /\ HandsApart /\ HandOwned /\ LoneSees /\ OneDefault
  OBVIOUS
<1>1. Platform \in TemplateRow
  BY DEF Platform, TemplateRow
<1>2. ATypeOK
  BY <1>1 DEF AInit, ATypeOK
<1>3. ModulesUnique /\ HandsApart /\ HandOwned /\ LoneSees
  BY DEF AInit, ModulesUnique, Kept, HandsApart, HandOwned, LoneSees
<1>4. \A t \in Templates : template[t] # NoRow => ~template[t].default
  BY DEF AInit, Platform
<1> QED BY <1>2, <1>3, <1>4 DEF OneDefault, Defaults

\* The steps of the requests for templates, and the others.
PermissionStep ==
  \E p \in Permissions :
    \/ \E m \in Modules, rights \in SUBSET Rights :
         CreatePermission(p, m, rights) \/ UpdatePermission(p, m, rights)
    \/ DeletePermission(p)

TemplateStep ==
  \E r \in Slots :
    \/ \E t \in Templates :
         \/ \E k \in Companies, named, default \in BOOLEAN : SetTemplate(r, t, k, named, default)
         \/ CheckUnused(r, t)
    \/ \E rows \in SUBSET Permissions : CommitTemplate(r, rows)
    \/ DeleteTemplate(r) \/ Fail(r)

StaffStep ==
  \E u \in SubAdmins :
    \/ \E k \in Companies, t \in Templates \cup {NoTemplate}, n \in Thresholds \cup {NoThreshold} :
         CreateSubAdmin(u, k, t, n)
    \/ \E n \in Thresholds \cup {NoThreshold} : SetThreshold(u, n)
    \/ \E rows \in SUBSET Permissions : SetCustom(u, rows)
    \/ RestrictAgents(u) \/ RestrictCategories(u) \/ Deactivate(u)

LEMMA NextSteps == ANext <=> PermissionStep \/ TemplateStep \/ StaffStep
BY DEF ANext, PermissionStep, TemplateStep, StaffStep

LEMMA PermissionTypes == ATypeOK /\ PermissionStep => ATypeOK'
<1> SUFFICES ASSUME ATypeOK, NEW p \in Permissions,
                    \/ \E m \in Modules, rights \in SUBSET Rights :
                         CreatePermission(p, m, rights) \/ UpdatePermission(p, m, rights)
                    \/ DeletePermission(p)
             PROVE  ATypeOK'
  BY DEF PermissionStep
<1>1. ASSUME NEW m \in Modules, NEW rights \in SUBSET Rights,
             CreatePermission(p, m, rights) \/ UpdatePermission(p, m, rights)
      PROVE  ATypeOK'
  BY <1>1 DEF ATypeOK, CreatePermission, UpdatePermission, Others
<1>2. CASE DeletePermission(p)
  <2>1. permission' \in [Permissions -> {NoRow} \cup [module : Modules, rights : SUBSET Rights]]
    BY <1>2 DEF ATypeOK, DeletePermission
  <2>2. template' \in [Templates -> {NoRow} \cup TemplateRow]
    BY <1>2 DEF ATypeOK, DeletePermission, TemplateRow
  <2>3. subadmin' \in [SubAdmins -> {NoRow} \cup
          [company : Companies, template : Templates \cup {NoTemplate}, custom : SUBSET Permissions,
           threshold : Thresholds \cup {NoThreshold}, agents : SUBSET UNION {StaffOf[k] : k \in Companies},
           categories : SUBSET UNION {CategoriesOf[k] : k \in Companies}, active : BOOLEAN]]
    BY <1>2 DEF ATypeOK, DeletePermission
  <2> QED BY <1>2, <2>1, <2>2, <2>3 DEF ATypeOK, DeletePermission
<1> QED BY <1>1, <1>2

LEMMA TemplateTypes == ATypeOK /\ TemplateStep => ATypeOK'
<1> SUFFICES ASSUME ATypeOK, NEW r \in Slots,
                    \/ \E t \in Templates :
                         \/ \E k \in Companies, named, default \in BOOLEAN :
                              SetTemplate(r, t, k, named, default)
                         \/ CheckUnused(r, t)
                    \/ \E rows \in SUBSET Permissions : CommitTemplate(r, rows)
                    \/ DeleteTemplate(r) \/ Fail(r)
             PROVE  ATypeOK'
  BY DEF TemplateStep
<1>1. ASSUME NEW t \in Templates, NEW k \in Companies, NEW named \in BOOLEAN, NEW default \in BOOLEAN,
             SetTemplate(r, t, k, named, default)
      PROVE  ATypeOK'
  <2>0. Clears(named, default) \in BOOLEAN /\ Defaults(k) \in SUBSET Templates
    BY DEF Defaults, Clears
  <2>1. /\ (IF named THEN default ELSE t \in Defaults(k)) \in BOOLEAN
        /\ (Setting(k) = {}) \in BOOLEAN
    <3>1. (t \in Defaults(k)) \in BOOLEAN
      OBVIOUS
    <3>2. (Setting(k) = {}) \in BOOLEAN
      OBVIOUS
    <3>3. CASE named
      BY <3>2, <3>3, Zenon
    <3>4. CASE ~named
      BY <3>1, <3>2, <3>4, Zenon
    <3> QED BY <3>3, <3>4
  <2>2. ASSUME NEW q \in Slots
        PROVE  call'[q] \in {NoCall}
                 \cup [op : {"set"}, template : Templates, company : Companies, alone : BOOLEAN,
                       default : BOOLEAN, clears : BOOLEAN, seen : SUBSET Templates]
                 \cup [op : {"delete"}, template : Templates]
    <3>1. CASE q = r
      BY <1>1, <2>0, <2>1, <3>1 DEF SetTemplate
    <3>2. CASE q # r /\ q \in Setting(k)
      BY <1>1, <3>2 DEF SetTemplate, Setting, ATypeOK
    <3>3. CASE q # r /\ q \notin Setting(k)
      BY <1>1, <3>3 DEF SetTemplate, ATypeOK
    <3> QED BY <3>1, <3>2, <3>3
  <2> QED BY <1>1, <2>2 DEF SetTemplate, ATypeOK
<1>2. ASSUME NEW t \in Templates, CheckUnused(r, t) PROVE ATypeOK'
  BY <1>2 DEF CheckUnused, ATypeOK
<1>3. ASSUME NEW rows \in SUBSET Permissions, CommitTemplate(r, rows) PROVE ATypeOK'
  <2>1. call[r] \in [op : {"set"}, template : Templates, company : Companies, alone : BOOLEAN,
                     default : BOOLEAN, clears : BOOLEAN, seen : SUBSET Templates]
    BY <1>3 DEF CommitTemplate, ATypeOK
  <2>2. template' \in [Templates -> {NoRow} \cup TemplateRow]
    BY <1>3, <2>1 DEF CommitTemplate, ATypeOK, Defaults, TemplateRow
  <2> QED BY <1>3, <2>1, <2>2 DEF CommitTemplate, ATypeOK
<1>4. CASE DeleteTemplate(r)
  <2>1. subadmin' \in [SubAdmins -> {NoRow} \cup
          [company : Companies, template : Templates \cup {NoTemplate}, custom : SUBSET Permissions,
           threshold : Thresholds \cup {NoThreshold}, agents : SUBSET UNION {StaffOf[k] : k \in Companies},
           categories : SUBSET UNION {CategoriesOf[k] : k \in Companies}, active : BOOLEAN]]
    BY <1>4 DEF DeleteTemplate, ATypeOK, Users
  <2> QED BY <1>4, <2>1 DEF DeleteTemplate, ATypeOK
<1>5. CASE Fail(r)
  BY <1>5 DEF Fail, ATypeOK
<1> QED BY <1>1, <1>2, <1>3, <1>4, <1>5

LEMMA StaffTypes == ATypeOK /\ StaffStep => ATypeOK'
<1> SUFFICES ASSUME ATypeOK, NEW u \in SubAdmins,
                    \/ \E k \in Companies, t \in Templates \cup {NoTemplate},
                          n \in Thresholds \cup {NoThreshold} : CreateSubAdmin(u, k, t, n)
                    \/ \E n \in Thresholds \cup {NoThreshold} : SetThreshold(u, n)
                    \/ \E rows \in SUBSET Permissions : SetCustom(u, rows)
                    \/ RestrictAgents(u) \/ RestrictCategories(u) \/ Deactivate(u)
             PROVE  ATypeOK'
  BY DEF StaffStep
<1>1. ASSUME NEW k \in Companies, NEW t \in Templates \cup {NoTemplate},
             NEW n \in Thresholds \cup {NoThreshold}, CreateSubAdmin(u, k, t, n)
      PROVE  ATypeOK'
  BY <1>1 DEF CreateSubAdmin, ATypeOK
<1>2. ASSUME NEW n \in Thresholds \cup {NoThreshold}, SetThreshold(u, n) PROVE ATypeOK'
  BY <1>2 DEF SetThreshold, Changes, ATypeOK
<1>3. ASSUME NEW rows \in SUBSET Permissions, SetCustom(u, rows) PROVE ATypeOK'
  BY <1>3 DEF SetCustom, Changes, ATypeOK
<1>4. CASE RestrictAgents(u)
  <2>1. subadmin[u].company \in Companies
    BY <1>4 DEF RestrictAgents, ATypeOK
  <2>2. ASSUME NEW agents \in SUBSET StaffOf[subadmin[u].company]
        PROVE  agents \in SUBSET UNION {StaffOf[k] : k \in Companies}
    BY <2>1, <2>2
  <2> QED BY <1>4, <2>2 DEF RestrictAgents, Changes, ATypeOK
<1>5. CASE RestrictCategories(u)
  <2>1. subadmin[u].company \in Companies
    BY <1>5 DEF RestrictCategories, ATypeOK
  <2>2. ASSUME NEW categories \in SUBSET CategoriesOf[subadmin[u].company]
        PROVE  categories \in SUBSET UNION {CategoriesOf[k] : k \in Companies}
    BY <2>1, <2>2
  <2> QED BY <1>5, <2>2 DEF RestrictCategories, Changes, ATypeOK
<1>6. CASE Deactivate(u)
  <2> DEFINE Profile == [company : Companies, template : Templates \cup {NoTemplate},
           custom : SUBSET Permissions, threshold : Thresholds \cup {NoThreshold},
           agents : SUBSET UNION {StaffOf[k] : k \in Companies},
           categories : SUBSET UNION {CategoriesOf[k] : k \in Companies}, active : BOOLEAN]
  <2>1. subadmin[u] \in Profile
    BY <1>6 DEF Deactivate, Changes, ATypeOK
  <2>2. [subadmin[u] EXCEPT !.active = FALSE] \in Profile
    BY <2>1
  <2>3. subadmin' \in [SubAdmins -> {NoRow} \cup Profile]
    <3> HIDE DEF Profile
    <3>1. subadmin \in [SubAdmins -> {NoRow} \cup Profile]
      BY DEF ATypeOK, Profile
    <3> QED BY <1>6, <2>2, <3>1 DEF Deactivate, Changes
  <2> QED BY <1>6, <2>3 DEF Deactivate, Changes, ATypeOK
<1> QED BY <1>1, <1>2, <1>3, <1>4, <1>5, <1>6

LEMMA TypeStep == ATypeOK /\ [ANext]_avars => ATypeOK'
<1>1. ATypeOK /\ UNCHANGED avars => ATypeOK'
  BY DEF ATypeOK, avars
<1> QED BY <1>1, NextSteps, PermissionTypes, TemplateTypes, StaffTypes

\* The tables hold the rows their columns declare.
THEOREM TypeCorrect == ASpec => []ATypeOK
<1>1. AInit => ATypeOK
  BY InitTypes
<1> QED BY <1>1, TypeStep, PTL DEF ASpec

-----------------------------------------------------------------------------
\* What a sub-admin may do

\* No step gives two rows the same module.
LEMMA UniqueStep == ATypeOK /\ ModulesUnique /\ [ANext]_avars => ModulesUnique'
<1> SUFFICES ASSUME ATypeOK, ModulesUnique, [ANext]_avars PROVE ModulesUnique'
  OBVIOUS
<1>1. ASSUME NEW p \in Permissions, NEW m \in Modules, NEW rights \in SUBSET Rights,
             \/ CreatePermission(p, m, rights)
             \/ UpdatePermission(p, m, rights)
      PROVE  ModulesUnique'
  <2>1. For(Kept, m) \subseteq {p}
    BY <1>1 DEF CreatePermission, UpdatePermission, ModuleFree
  <2>2. permission' = [permission EXCEPT ![p] = [module |-> m, rights |-> rights]]
    BY <1>1 DEF CreatePermission, UpdatePermission
  <2>3. ASSUME NEW q \in Permissions, q # p
        PROVE  permission'[q] = permission[q] /\ (q \in Kept => permission[q].module # m)
    BY <2>1, <2>2, <2>3 DEF ATypeOK, For
  <2>4. permission'[p].module = m
    BY <2>2 DEF ATypeOK
  <2> QED BY <2>3, <2>4 DEF ModulesUnique, Kept
<1>2. ASSUME NEW p \in Permissions, DeletePermission(p) PROVE ModulesUnique'
  BY <1>2 DEF DeletePermission, ModulesUnique, Kept, ATypeOK
<1>3. CASE UNCHANGED permission
  BY <1>3 DEF ModulesUnique, Kept
<1>4. TemplateStep => UNCHANGED permission
  BY DEF TemplateStep, SetTemplate, CheckUnused, CommitTemplate, DeleteTemplate, Fail
<1>5. StaffStep => UNCHANGED permission
  BY DEF StaffStep, CreateSubAdmin, SetThreshold, SetCustom, RestrictAgents, RestrictCategories,
         Deactivate, Changes
<1>6. CASE PermissionStep
  BY <1>1, <1>2, <1>6 DEF PermissionStep
<1> QED BY <1>3, <1>4, <1>5, <1>6, NextSteps DEF avars

LEMMA UniqueGrants == ModulesUnique => GrantsAgree
<1> SUFFICES ASSUME ModulesUnique, NEW u \in SubAdmins, NEW m \in Modules,
                    NEW f \in Orderings, NEW g \in Orderings
             PROVE  CanManage(u, m, f) <=> "view" \in EffectiveMap(u, g)[m]
  BY DEF GrantsAgree, Login
<1>1. ASSUME NEW S, For(S, m) # {} PROVE f[For(S, m)] = g[For(S, m)]
  <2>1. For(S, m) \in SUBSET Permissions
    BY DEF For, Kept
  <2>2. f[For(S, m)] \in For(S, m) /\ g[For(S, m)] \in For(S, m)
    BY <1>1, <2>1 DEF Orderings
  <2> QED BY <2>2 DEF For, ModulesUnique
<1>2. EffectiveMap(u, g)[m] =
        IF For(TemplateRows(u), m) # {} THEN permission[g[For(TemplateRows(u), m)]].rights
        ELSE IF For(CustomRows(u), m) # {} THEN permission[g[For(CustomRows(u), m)]].rights
        ELSE {"view"}
  BY DEF EffectiveMap
<1> QED BY <1>1, <1>2 DEF CanManage

\* What the login says a sub-admin may do is what each request then allows.
THEOREM LoginTellsGrants == ASpec => []GrantsAgree
<1>1. AInit => ATypeOK /\ ModulesUnique
  BY InitTypes
<1>2. ATypeOK /\ ModulesUnique /\ [ANext]_avars => (ATypeOK /\ ModulesUnique)'
  BY TypeStep, UniqueStep
<1>3. ATypeOK /\ ModulesUnique => GrantsAgree
  BY UniqueGrants
<1> QED BY <1>1, <1>2, <1>3, PTL DEF ASpec

-----------------------------------------------------------------------------
\* The default template

LEMMA DefaultsUnmoved ==
  ASSUME UNCHANGED <<template, call, overlapped>>, HandsApart, HandOwned, LoneSees, OneDefault
  PROVE  (HandsApart /\ HandOwned /\ LoneSees /\ OneDefault)'
BY DEF HandsApart, HandOwned, LoneSees, OneDefault, Defaults, Setting

\* Deleting a permission changes no template's company, nor its flag.
LEMMA DefaultsKept ==
  ASSUME ATypeOK, UNCHANGED call, UNCHANGED overlapped,
         \A t \in Templates :
           /\ template'[t] = NoRow <=> template[t] = NoRow
           /\ template[t] # NoRow => /\ template'[t].company = template[t].company
                                    /\ template'[t].default = template[t].default,
         HandsApart, HandOwned, LoneSees, OneDefault
  PROVE  (HandsApart /\ HandOwned /\ LoneSees /\ OneDefault)'
<1>1. \A k \in Companies : Defaults(k)' = Defaults(k) /\ Setting(k)' = Setting(k)
  BY DEF Defaults, Setting
<1>2. HandsApart'
  BY DEF HandsApart
<1>3. HandOwned'
  BY DEF HandOwned, ATypeOK
<1>4. LoneSees'
  BY <1>1 DEF LoneSees, ATypeOK
<1>5. OneDefault'
  BY <1>1 DEF OneDefault
<1> QED BY <1>2, <1>3, <1>4, <1>5

LEMMA SetDefaults ==
  ASSUME NEW r \in Slots, NEW t \in Templates, NEW k \in Companies, NEW named \in BOOLEAN,
         NEW default \in BOOLEAN, SetTemplate(r, t, k, named, default), DefaultInv
  PROVE  (HandsApart /\ HandOwned /\ LoneSees /\ OneDefault)'
<1> DEFINE flag == IF named THEN default ELSE t \in Defaults(k)
<1>1. /\ call[r] = NoCall
      /\ template[t] # NoRow => template[t].company = k
      /\ \A q \in Slots : call[q] # NoCall => call[q].template # t
      /\ UNCHANGED <<template, overlapped>>
  BY DEF SetTemplate
<1>2. call'[r] = [op |-> "set", template |-> t, company |-> k, alone |-> Setting(k) = {},
                  default |-> flag, clears |-> Clears(named, default), seen |-> Defaults(k)]
  BY DEF SetTemplate
<1>3. ASSUME NEW q \in Slots, q # r, q \in Setting(k)
      PROVE  call'[q] = [op |-> "set", template |-> call[q].template, company |-> k, alone |-> FALSE,
                         default |-> call[q].default, clears |-> call[q].clears, seen |-> call[q].seen]
  BY <1>3 DEF SetTemplate
<1>4. ASSUME NEW q \in Slots, q # r, q \notin Setting(k)
      PROVE  call'[q] = call[q]
  BY <1>4 DEF SetTemplate
<1>5. r \notin Setting(k) /\ \A q \in Setting(k) : call[q].company = k /\ call[q].op = "set"
                                                 /\ call[q] # NoCall
  BY <1>1 DEF Setting
<1>6. ASSUME NEW q \in Slots, q # r, call'[q] # NoCall
      PROVE  /\ call[q] # NoCall /\ call'[q].template = call[q].template
             /\ call'[q].op = call[q].op
             /\ call[q].op = "set" => call'[q].company = call[q].company
             /\ call[q].op = "set" /\ call'[q].alone => call'[q] = call[q] /\ q \notin Setting(k)
  <2>1. CASE q \in Setting(k)
    <3>0. call'[q] = [op |-> "set", template |-> call[q].template, company |-> k, alone |-> FALSE,
                      default |-> call[q].default, clears |-> call[q].clears, seen |-> call[q].seen]
      BY <1>3, <1>6, <2>1
    <3>1. /\ call'[q].template = call[q].template /\ call'[q].op = "set"
          /\ call'[q].company = k /\ call'[q].alone = FALSE
      BY <3>0
    <3> QED BY <1>5, <2>1, <3>1
  <2>2. CASE q \notin Setting(k)
    BY <1>4, <1>6, <2>2
  <2> QED BY <2>1, <2>2
<1>7. HandsApart'
  BY <1>1, <1>2, <1>6 DEF HandsApart, DefaultInv
<1>8. HandOwned'
  BY <1>1, <1>2, <1>6 DEF HandOwned, DefaultInv
<1>9. LoneSees'
  <2> SUFFICES ASSUME NEW q \in Slots, call'[q] # NoCall, call'[q].op = "set", call'[q].alone,
                      NEW c, c = call'[q].company
               PROVE  /\ Setting(c)' = {q}
                      /\ call'[q].clears => Defaults(c)' \subseteq call'[q].seen \cup {call'[q].template}
                      /\ ~call'[q].clears /\ call'[q].default => call'[q].template \in Defaults(c)'
    BY DEF LoneSees, Setting, Defaults
  <2>1. CASE q = r
    <3>1. Setting(k) = {} /\ c = k
      <4>1. call'[r].alone = (Setting(k) = {}) /\ call'[r].company = k
        BY <1>2
      <4> QED BY <2>1, <4>1
    <3>2. Setting(k)' = {r}
      <4>1. \A p \in Slots : p # r => call'[p] = call[p]
        BY <1>4, <3>1
      <4>2. \A p \in Setting(k)' : p = r
        BY <4>1, <3>1 DEF Setting
      <4>3. r \in Setting(k)'
        BY <1>2, <2>1 DEF Setting
      <4> QED BY <4>2, <4>3
    <3>3. Defaults(k)' = Defaults(k)
      BY <1>1 DEF Defaults
    <3>4. call'[r].seen = Defaults(k) /\ call'[r].template = t
      BY <1>2
    <3>5. ~call'[r].clears /\ call'[r].default => t \in Defaults(k)
      <4>1. call'[r].clears = (named /\ default) /\ call'[r].default = flag
        BY <1>2 DEF Clears
      <4> QED BY <4>1
    <3> QED BY <2>1, <3>1, <3>2, <3>3, <3>4, <3>5
  <2>2. CASE q # r
    <3>1. call'[q] = call[q] /\ q \notin Setting(k) /\ call[q] # NoCall
      BY <1>6, <2>2
    <3>2. c = call[q].company /\ c # k
      BY <3>1 DEF Setting
    <3>3. Setting(c)' = Setting(c)
      <4>1. ASSUME NEW p \in Slots
            PROVE  p \in Setting(c)' <=> p \in Setting(c)
        <5>1. CASE p = r
          BY <5>1, <1>1, <1>2, <3>2 DEF Setting
        <5>2. CASE p # r /\ p \in Setting(k)
          <6>1. call'[p].company = k /\ call[p].company = k
            <7>1. call'[p] = [op |-> "set", template |-> call[p].template, company |-> k, alone |-> FALSE,
                      default |-> call[p].default, clears |-> call[p].clears, seen |-> call[p].seen]
              BY <1>3, <5>2
            <7> QED BY <5>2, <1>5, <7>1
          <6> QED BY <6>1, <3>2 DEF Setting
        <5>3. CASE p # r /\ p \notin Setting(k)
          BY <5>3, <1>4 DEF Setting
        <5> QED BY <5>1, <5>2, <5>3
      <4> QED BY <4>1 DEF Setting
    <3>4. Defaults(c)' = Defaults(c)
      BY <1>1 DEF Defaults
    <3> QED BY <3>1, <3>2, <3>3, <3>4 DEF LoneSees, DefaultInv
  <2> QED BY <2>1, <2>2
<1>10. OneDefault'
  BY <1>1 DEF OneDefault, Defaults, DefaultInv
<1> QED BY <1>7, <1>8, <1>9, <1>10

\* The rows that a commit leaves behind.
LEMMA CommitRows ==
  ASSUME NEW r \in Slots, NEW rows \in SUBSET Permissions, CommitTemplate(r, rows), DefaultInv,
         NEW t \in Templates
  PROVE  /\ t = call[r].template =>
              /\ template'[t].company = call[r].company
              /\ template'[t].default <=> call[r].default
         /\ t # call[r].template =>
              /\ template'[t] # NoRow => template[t] # NoRow
              /\ template[t] # NoRow => template'[t].company = template[t].company
              /\ template[t] # NoRow /\ template'[t].default => template[t].default
              /\ call[r].clears /\ t \in call[r].seen /\ t \in Defaults(call[r].company) =>
                   ~template'[t].default
              /\ t \notin Defaults(call[r].company) => template'[t] = template[t]
<1>1. CASE t = call[r].template
  <2>1. template'[t] = [company |-> call[r].company, default |-> call[r].default, permissions |-> rows]
    BY <1>1 DEF CommitTemplate
  <2> QED BY <1>1, <2>1
<1>2. CASE t # call[r].template /\ call[r].clears /\ t \in call[r].seen /\ t \in Defaults(call[r].company)
  <2>1. template'[t] = [company |-> template[t].company, default |-> FALSE,
                        permissions |-> template[t].permissions]
    BY <1>2 DEF CommitTemplate
  <2> QED BY <1>2, <2>1 DEF Defaults
<1>3. CASE t # call[r].template /\ ~(call[r].clears /\ t \in call[r].seen /\ t \in Defaults(call[r].company))
  <2>1. template'[t] = template[t]
    BY <1>3 DEF CommitTemplate
  <2> QED BY <1>3, <2>1
<1> QED BY <1>1, <1>2, <1>3

LEMMA CommitDefaults ==
  ASSUME NEW r \in Slots, NEW rows \in SUBSET Permissions, CommitTemplate(r, rows), DefaultInv
  PROVE  (HandsApart /\ HandOwned /\ LoneSees /\ OneDefault)'
<1> DEFINE k == call[r].company
<1>1. /\ call[r] # NoCall /\ call[r].op = "set"
      /\ call' = [call EXCEPT ![r] = NoCall]
      /\ call[r].template \in Templates /\ k \in Companies
      /\ call[r].default \in BOOLEAN /\ call[r].clears \in BOOLEAN
  BY DEF CommitTemplate, DefaultInv, ATypeOK
<1>2. \A q \in Slots : call'[q] = IF q = r THEN NoCall ELSE call[q]
  BY <1>1 DEF DefaultInv, ATypeOK
<1>3. HandsApart'
  BY <1>2 DEF HandsApart, DefaultInv
<1>4. HandOwned'
  <2> SUFFICES ASSUME NEW q \in Slots, call'[q] # NoCall, call'[q].op = "set",
                      template'[call'[q].template] # NoRow
               PROVE  template'[call'[q].template].company = call'[q].company
    BY DEF HandOwned
  <2>1. call'[q] = call[q] /\ q # r
    BY <1>2
  <2>2. call[q].template # call[r].template /\ call[q].template \in Templates
    BY <1>1, <2>1 DEF HandsApart, DefaultInv, ATypeOK
  <2>3. /\ template[call[q].template] # NoRow
        /\ template'[call[q].template].company = template[call[q].template].company
    BY <2>1, <2>2, CommitRows
  <2> QED BY <2>1, <2>3 DEF HandOwned, DefaultInv
\* Another company's defaults do not move.
<1>5. ASSUME NEW c \in Companies, c # k
      PROVE  Defaults(c)' = Defaults(c)
  <2>1. ASSUME NEW t \in Templates PROVE t \in Defaults(c)' <=> t \in Defaults(c)
    <3>1. CASE t = call[r].template
      <4>1. template'[t].company = k
        BY <3>1, CommitRows
      <4>2. template[t] # NoRow => template[t].company = k
        BY <1>1, <3>1 DEF HandOwned, DefaultInv
      <4> QED BY <1>5, <4>1, <4>2 DEF Defaults
    <3>2. CASE t # call[r].template /\ t \in Defaults(k)
      <4>1. template[t] # NoRow /\ template[t].company = k
        BY <3>2 DEF Defaults
      <4>2. template'[t].company = k
        BY <3>2, <4>1, CommitRows
      <4> QED BY <1>5, <4>1, <4>2 DEF Defaults
    <3>3. CASE t # call[r].template /\ t \notin Defaults(k)
      <4>1. template'[t] = template[t]
        BY <3>3, CommitRows
      <4> QED BY <4>1 DEF Defaults
    <3> QED BY <3>1, <3>2, <3>3
  <2> QED BY <2>1 DEF Defaults
<1>6. LoneSees'
  <2> SUFFICES ASSUME NEW q \in Slots, call'[q] # NoCall, call'[q].op = "set", call'[q].alone,
                      NEW c, c = call'[q].company
               PROVE  /\ Setting(c)' = {q}
                      /\ call'[q].clears => Defaults(c)' \subseteq call'[q].seen \cup {call'[q].template}
                      /\ ~call'[q].clears /\ call'[q].default => call'[q].template \in Defaults(c)'
    BY DEF LoneSees, Setting, Defaults
  <2>1. call'[q] = call[q] /\ q # r
    BY <1>2
  <2>2. c \in Companies
    BY <2>1 DEF DefaultInv, ATypeOK
  <2>3. Setting(c) = {q}
    BY <2>1 DEF LoneSees, DefaultInv
  <2>4. c # k
    BY <1>1, <2>1, <2>3 DEF Setting
  <2>5. Setting(c)' = Setting(c)
    BY <1>1, <1>2, <2>4 DEF Setting
  <2>6. Defaults(c)' = Defaults(c)
    BY <1>5, <2>2, <2>4
  <2> QED BY <2>1, <2>3, <2>5, <2>6 DEF LoneSees, DefaultInv
<1>7. OneDefault'
  <2> SUFFICES ASSUME NEW c \in Companies, c \notin overlapped', NEW s \in Defaults(c)',
                      NEW t \in Defaults(c)'
               PROVE  s = t
    BY DEF OneDefault
  <2>1. overlapped' = IF ~call[r].alone THEN overlapped \cup {k}
                   ELSE IF call[r].clears THEN overlapped \ {k} ELSE overlapped
    BY DEF CommitTemplate
  <2>2. CASE c # k
    <3>1. c \notin overlapped
      BY <2>1, <2>2
    <3> QED BY <1>5, <2>2, <3>1 DEF OneDefault, DefaultInv
  <2>3. CASE c = k
    <3>1. call[r].alone
      BY <2>1, <2>3
    <3>2. CASE call[r].clears
      <4>1. Defaults(k) \subseteq call[r].seen \cup {call[r].template}
        BY <1>1, <3>1, <3>2 DEF LoneSees, DefaultInv
      <4>2. ASSUME NEW u \in Defaults(c)' PROVE u = call[r].template
        <5> SUFFICES ASSUME u # call[r].template PROVE FALSE
          OBVIOUS
        <5>1. u \in Templates /\ template'[u] # NoRow /\ template'[u].company = k /\ template'[u].default
          BY <2>3, <4>2 DEF Defaults
        <5>2. u \in Defaults(k)
          BY <5>1, CommitRows DEF Defaults
        <5>3. u \in call[r].seen
          BY <4>1, <5>2
        <5> QED BY <3>2, <5>1, <5>2, <5>3, CommitRows
      <4> QED BY <4>2
    <3>3. CASE ~call[r].clears
      <4>1. c \notin overlapped
        BY <2>1, <3>1, <3>3
      <4>2. ASSUME NEW u \in Defaults(c)' PROVE u \in Defaults(c)
        <5>1. u \in Templates /\ template'[u] # NoRow /\ template'[u].company = k /\ template'[u].default
          BY <2>3, <4>2 DEF Defaults
        <5>2. CASE u = call[r].template
          <6>1. call[r].default
            BY <5>1, <5>2, CommitRows
          <6> QED BY <1>1, <2>3, <3>1, <3>3, <5>2, <6>1 DEF LoneSees, DefaultInv
        <5>3. CASE u # call[r].template
          BY <2>3, <5>1, <5>3, CommitRows DEF Defaults
        <5> QED BY <5>2, <5>3
      <4> QED BY <4>1, <4>2 DEF OneDefault, DefaultInv
    <3> QED BY <3>2, <3>3
  <2> QED BY <2>2, <2>3
<1> QED BY <1>3, <1>4, <1>6, <1>7

\* Asking whether a template is used writes nothing.
LEMMA CheckDefaults ==
  ASSUME NEW r \in Slots, NEW t \in Templates, CheckUnused(r, t), DefaultInv
  PROVE  (HandsApart /\ HandOwned /\ LoneSees /\ OneDefault)'
<1>1. /\ call[r] = NoCall /\ UNCHANGED <<template, overlapped>>
      /\ \A q \in Slots : call[q] # NoCall => call[q].template # t
      /\ \A q \in Slots : call'[q] = IF q = r THEN [op |-> "delete", template |-> t] ELSE call[q]
  BY DEF CheckUnused, DefaultInv, ATypeOK
<1>2. HandsApart'
  BY <1>1 DEF HandsApart, DefaultInv
<1>3. HandOwned'
  BY <1>1 DEF HandOwned, DefaultInv
<1>4. \A c : Setting(c)' = Setting(c) /\ Defaults(c)' = Defaults(c)
  BY <1>1 DEF Setting, Defaults
<1>5. ASSUME NEW q \in Slots, call'[q] # NoCall, call'[q].op = "set"
      PROVE  call'[q] = call[q]
  BY <1>1, <1>5
<1>6. LoneSees'
  <2> SUFFICES ASSUME NEW q \in Slots, call'[q] # NoCall, call'[q].op = "set", call'[q].alone,
                      NEW c, c = call'[q].company
               PROVE  /\ Setting(c)' = {q}
                      /\ call'[q].clears => Defaults(c)' \subseteq call'[q].seen \cup {call'[q].template}
                      /\ ~call'[q].clears /\ call'[q].default => call'[q].template \in Defaults(c)'
    BY DEF LoneSees, Setting, Defaults
  <2> QED BY <1>4, <1>5 DEF LoneSees, DefaultInv
<1>7. OneDefault'
  BY <1>1, <1>4 DEF OneDefault, DefaultInv
<1> QED BY <1>2, <1>3, <1>6, <1>7

\* Only the deleted template leaves the table, and no change in flight is about it.
LEMMA DeleteDefaults ==
  ASSUME NEW r \in Slots, DeleteTemplate(r) \/ Fail(r), DefaultInv
  PROVE  (HandsApart /\ HandOwned /\ LoneSees /\ OneDefault)'
<1>1. /\ call[r] # NoCall /\ UNCHANGED overlapped
      /\ \A q \in Slots : call'[q] = IF q = r THEN NoCall ELSE call[q]
  BY DEF DeleteTemplate, Fail, DefaultInv, ATypeOK
<1>2. \A t \in Templates : template'[t] = template[t] \/ (template'[t] = NoRow /\ t = call[r].template)
  BY DEF DeleteTemplate, Fail, DefaultInv, ATypeOK
<1>3. HandsApart'
  BY <1>1 DEF HandsApart, DefaultInv
<1>4. ASSUME NEW q \in Slots, call'[q] # NoCall, call'[q].op = "set"
      PROVE  /\ call'[q] = call[q] /\ q # r /\ call[q].template # call[r].template
             /\ template'[call[q].template] = template[call[q].template]
             /\ call[q].template \in Templates
  <2>1. call'[q] = call[q] /\ q # r
    BY <1>1, <1>4
  <2>2. call[q].template # call[r].template
    BY <1>1, <1>4, <2>1 DEF HandsApart, DefaultInv
  <2>3. call[q].template \in Templates
    BY <1>4, <2>1 DEF DefaultInv, ATypeOK
  <2> QED BY <1>2, <2>1, <2>2, <2>3
<1>5. HandOwned'
  BY <1>4 DEF HandOwned, DefaultInv
<1>6. \A c : Defaults(c)' \subseteq Defaults(c)
  BY <1>2 DEF Defaults
<1>7. LoneSees'
  <2> SUFFICES ASSUME NEW q \in Slots, call'[q] # NoCall, call'[q].op = "set", call'[q].alone,
                      NEW c, c = call'[q].company
               PROVE  /\ Setting(c)' = {q}
                      /\ call'[q].clears => Defaults(c)' \subseteq call'[q].seen \cup {call'[q].template}
                      /\ ~call'[q].clears /\ call'[q].default => call'[q].template \in Defaults(c)'
    BY DEF LoneSees, Setting, Defaults
  <2>1. call'[q] = call[q] /\ Setting(c) = {q}
    BY <1>4 DEF LoneSees, DefaultInv
  <2>2. Setting(c)' = {q}
    BY <1>1, <1>4, <2>1 DEF Setting
  <2>3. call[q].clears => Defaults(c)' \subseteq call[q].seen \cup {call[q].template}
    BY <1>6, <2>1 DEF LoneSees, DefaultInv
  <2>4. ~call[q].clears /\ call[q].default => call[q].template \in Defaults(c)'
    BY <1>4, <2>1 DEF LoneSees, DefaultInv, Defaults
  <2> QED BY <2>1, <2>2, <2>3, <2>4
<1>8. OneDefault'
  BY <1>1, <1>6 DEF OneDefault, DefaultInv
<1> QED BY <1>3, <1>5, <1>7, <1>8

LEMMA DefaultStep == DefaultInv /\ [ANext]_avars => DefaultInv'
<1> SUFFICES ASSUME DefaultInv, [ANext]_avars PROVE DefaultInv'
  OBVIOUS
<1>1. ATypeOK'
  BY TypeStep DEF DefaultInv
<1>2. CASE TemplateStep
  <2>1. PICK r \in Slots :
           \/ \E t \in Templates :
                \/ \E k \in Companies, named, default \in BOOLEAN : SetTemplate(r, t, k, named, default)
                \/ CheckUnused(r, t)
           \/ \E rows \in SUBSET Permissions : CommitTemplate(r, rows)
           \/ DeleteTemplate(r) \/ Fail(r)
    BY <1>2 DEF TemplateStep
  <2> QED BY <1>1, <2>1, SetDefaults, CheckDefaults, CommitDefaults, DeleteDefaults DEF DefaultInv
<1>3. CASE StaffStep
  <2>1. UNCHANGED <<template, call, overlapped>>
    BY <1>3 DEF StaffStep, CreateSubAdmin, SetThreshold, SetCustom, RestrictAgents,
                RestrictCategories, Deactivate, Changes
  <2> QED BY <1>1, <2>1, DefaultsUnmoved DEF DefaultInv
<1>4. ASSUME NEW p \in Permissions, NEW m \in Modules, NEW rights \in SUBSET Rights,
             CreatePermission(p, m, rights) \/ UpdatePermission(p, m, rights)
      PROVE  DefaultInv'
  BY <1>1, <1>4, DefaultsUnmoved DEF CreatePermission, UpdatePermission, Others, DefaultInv
<1>5. ASSUME NEW p \in Permissions, DeletePermission(p) PROVE DefaultInv'
  <2>1. ASSUME NEW t \in Templates
        PROVE  /\ template'[t] = NoRow <=> template[t] = NoRow
               /\ template[t] # NoRow => /\ template'[t].company = template[t].company
                                        /\ template'[t].default = template[t].default
    <3>1. CASE template[t] = NoRow
      BY <1>5, <3>1 DEF DeletePermission
    <3>2. CASE template[t] # NoRow
      <4>1. template[t] \in TemplateRow
        BY <3>2 DEF DefaultInv, ATypeOK
      <4>2. template'[t] = [company |-> template[t].company, default |-> template[t].default,
                            permissions |-> template[t].permissions \ {p}]
        BY <1>5, <3>2 DEF DeletePermission
      <4>3. template'[t] \in TemplateRow
        BY <4>1, <4>2 DEF TemplateRow
      <4> QED BY <3>2, <4>2, <4>3, NoRowAssumption
    <3> QED BY <3>1, <3>2
  <2>2. UNCHANGED call /\ UNCHANGED overlapped
    BY <1>5 DEF DeletePermission
  <2> QED BY <1>1, <2>1, <2>2, DefaultsKept DEF DefaultInv
<1>6. CASE PermissionStep
  BY <1>4, <1>5, <1>6 DEF PermissionStep
<1>7. CASE UNCHANGED avars
  BY <1>1, <1>7, DefaultsUnmoved DEF avars, DefaultInv
<1> QED BY <1>2, <1>3, <1>6, <1>7, NextSteps

\* Changes of the default template that do not overlap leave a company with one.
THEOREM DefaultIsOne == ASpec => []OneDefault
<1>1. AInit => DefaultInv
  BY InitTypes DEF DefaultInv
<1>2. DefaultInv => OneDefault
  BY DEF DefaultInv
<1> QED BY <1>1, <1>2, DefaultStep, PTL DEF ASpec

-----------------------------------------------------------------------------
\* Scopes and thresholds

\* Rows scoped by the agent they belong to are those whose agent is in the scope
\* of agents itself: the order list and the agent list of a sub-admin agree.
THEOREM ScopesAgree ==
  ASSUME NEW rows, NEW keys, NEW keyOf \in [rows -> keys], NEW restricted \in SUBSET keys
  PROVE  \A x \in rows :
           x \in Scoped(rows, keyOf, restricted) <=>
             keyOf[x] \in Scoped(keys, [k \in keys |-> k], restricted)
BY DEF Scoped

\* The two thresholds agree on every amount of every sub-admin but one whose
\* threshold is zero: the service then sends every order to the administrator,
\* and the order flow none.
THEOREM ThresholdsAgree ==
  ASSUME NEW threshold \in Nat \cup {NoThreshold}, NEW amount \in Nat
  PROVE  (ExceedsThreshold(threshold, amount) /\ ~RequiresApproval(threshold, amount)) \/
           (RequiresApproval(threshold, amount) /\ ~ExceedsThreshold(threshold, amount))
         <=> threshold = 0 /\ threshold # NoThreshold /\ amount > 0
BY DEF ExceedsThreshold, RequiresApproval
================================================================================
