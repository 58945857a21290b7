----------------------------- MODULE Figures_proofs -----------------------------
(***************************************************************************)
(* Theorems about Figures for every finite set of customers, agents,       *)
(* orders and notes, any totals, limits, terms and days.                   *)
(*                                                                         *)
(* A page is an operator over the rows, so that two pages agree in every   *)
(* state whose rows are sound: that is the type invariant RowsOK, with     *)
(* what the handlers keep true of each row.  Then the pages agree because  *)
(* their queries select the same rows, or sort the same rows into groups;  *)
(* the lemmas on sums do the rest.  What is stored is a matter of steps:   *)
(* StoredUnlessMoved needs to know which rows each handler leaves alone.   *)
(***************************************************************************)
EXTENDS Figures, Sums_proofs, WellFoundedInduction

-----------------------------------------------------------------------------
\* Sums over some of the rows of X

Add(f, S) == SumOf(On(f, S))

LEMMA AddType ==
  ASSUME NEW X, IsFiniteSet(X), NEW f \in [X -> Nat], NEW S \in SUBSET X
  PROVE  /\ IsFiniteSet(S)
         /\ On(f, S) \in [S -> Nat]
         /\ Add(f, S) \in Nat
         /\ Cardinality(S) \in Nat
<1>1. IsFiniteSet(S)
  BY FS_Subset
<1>2. On(f, S) \in [S -> Nat]
  BY DEF On
<1> QED
  BY <1>1, <1>2, SumType, FS_CardinalityType DEF Add

LEMMA AddSplit ==
  ASSUME NEW X, IsFiniteSet(X), NEW f \in [X -> Nat], NEW S \in SUBSET X, NEW A \in SUBSET S
  PROVE  Add(f, S) = Add(f, A) + Add(f, S \ A)
<1>1. On(On(f, S), A) = On(f, A) /\ On(On(f, S), S \ A) = On(f, S \ A)
  BY DEF On
<1>2. SumOf(On(f, S)) = SumOf(On(On(f, S), A)) + SumOf(On(On(f, S), S \ A))
  <2>1. IsFiniteSet(S) /\ On(f, S) \in [S -> Nat]
    BY AddType
  <2> QED
    BY <2>1, SumSplit
<1> QED
  BY <1>1, <1>2 DEF Add

LEMMA AddDisjoint ==
  ASSUME NEW X, IsFiniteSet(X), NEW f \in [X -> Nat], NEW A \in SUBSET X, NEW B \in SUBSET X,
         A \cap B = {}
  PROVE  Add(f, A \cup B) = Add(f, A) + Add(f, B)
<1>1. (A \cup B) \ A = B
  OBVIOUS
<1> QED
  BY <1>1, AddSplit

\* Fewer rows have no larger sum, and are no more rows.
LEMMA AddFewer ==
  ASSUME NEW X, IsFiniteSet(X), NEW f \in [X -> Nat], NEW S \in SUBSET X, NEW A \in SUBSET S
  PROVE  Add(f, A) <= Add(f, S) /\ Cardinality(A) <= Cardinality(S)
<1>1. Add(f, S) = Add(f, A) + Add(f, S \ A)
  BY AddSplit
<1>2. Add(f, A) \in Nat /\ Add(f, S \ A) \in Nat /\ Add(f, S) \in Nat /\ IsFiniteSet(S)
  <2>1. A \in SUBSET X /\ S \ A \in SUBSET X
    OBVIOUS
  <2> QED
    BY <2>1, AddType
<1>3. Cardinality(A) <= Cardinality(S)
  BY <1>2, FS_Subset
<1> QED
  BY <1>1, <1>2, <1>3

LEMMA AddNone ==
  ASSUME NEW f
  PROVE  Add(f, {}) = 0
<1>1. On(f, {}) \in [{} -> {0}]
  BY DEF On
<1> QED
  BY <1>1, SumZero DEF Add

\* Rows that are sorted into the groups A by g: the sum of each group, and how
\* many rows it has.
SumsOf(f, S, A, g) == [a \in A |-> Add(f, Group(S, g, a))]
CountsOf(S, A, g) == [a \in A |-> Cardinality(Group(S, g, a))]

LEMMA AddGroups ==
  ASSUME NEW X, IsFiniteSet(X), NEW f \in [X -> Nat], NEW S \in SUBSET X,
         NEW A, IsFiniteSet(A), NEW g, \A x \in S : g[x] \in A
  PROVE  /\ Add(f, S) = SumOf(SumsOf(f, S, A, g))
         /\ SumsOf(f, S, A, g) \in [A -> Nat]
<1> DEFINE h == [x \in S |-> g[x]]
           n == [a \in A |-> SumOf(On(On(f, S), Group(S, h, a)))]
<1>1. IsFiniteSet(S) /\ On(f, S) \in [S -> Nat]
  BY AddType
<1>2. h \in [S -> A]
  OBVIOUS
<1>3. n \in [A -> Nat] /\ SumOf(On(f, S)) = SumOf(n)
  <2> HIDE DEF h
  <2> QED
    BY <1>1, <1>2, SumGroups
<1>4. ASSUME NEW a \in A
      PROVE  n[a] = Add(f, Group(S, g, a))
  <2>1. Group(S, h, a) = Group(S, g, a)
    BY DEF Group
  <2>2. On(On(f, S), Group(S, g, a)) = On(f, Group(S, g, a))
    BY DEF On, Group
  <2> QED
    BY <2>1, <2>2 DEF Add
<1>5. n = SumsOf(f, S, A, g)
  BY <1>4 DEF SumsOf
<1> QED
  BY <1>3, <1>5 DEF Add

LEMMA CountSorted ==
  ASSUME NEW S, IsFiniteSet(S), NEW A, IsFiniteSet(A), NEW g, \A x \in S : g[x] \in A
  PROVE  /\ Cardinality(S) = SumOf(CountsOf(S, A, g))
         /\ CountsOf(S, A, g) \in [A -> Nat]
<1> DEFINE one == [x \in S |-> 1]
<1>1. one \in [S -> Nat] /\ S \in SUBSET S
  OBVIOUS
<1>2. ASSUME NEW T \in SUBSET S
      PROVE  Add(one, T) = Cardinality(T)
  <2>1. On(one, T) \in [T -> {1}]
    BY DEF On
  <2>2. IsFiniteSet(T)
    BY FS_Subset
  <2> QED
    BY <2>1, <2>2, SumCount DEF Add
<1> HIDE DEF one
<1>3. Add(one, S) = SumOf(SumsOf(one, S, A, g)) /\ SumsOf(one, S, A, g) \in [A -> Nat]
  BY <1>1, AddGroups
<1>4. \A a \in A : Add(one, Group(S, g, a)) = Cardinality(Group(S, g, a))
  BY <1>2 DEF Group
<1>5. SumsOf(one, S, A, g) = CountsOf(S, A, g)
  BY <1>4 DEF SumsOf, CountsOf
<1>6. Add(one, S) = Cardinality(S)
  BY <1>2, <1>1
<1> QED
  BY <1>3, <1>5, <1>6

-----------------------------------------------------------------------------
\* The first and the last of numbers

LEMMA MinOf ==
  ASSUME NEW S \in SUBSET Nat, S # {}
  PROVE  Min(S) \in S /\ \A y \in S : Min(S) <= y
<1> DEFINE Less == OpToRel(<, Nat)
<1>1. \E x \in S : \A y \in S : ~ (<<y, x>> \in Less)
  <2>1. IsWellFoundedOn(Less, Nat)
    BY NatLessThanWellFounded
  <2> HIDE DEF Less
  <2> QED
    BY <2>1, WFMin
<1>2. \A x, y \in Nat : y < x => <<y, x>> \in Less
  BY DEF OpToRel
<1> HIDE DEF Less
<1>3. \E x \in S : \A y \in S : x <= y
  <2>1. PICK x \in S : \A y \in S : ~ (<<y, x>> \in Less)
    BY <1>1
  <2>2. \A y \in S : ~ (y < x)
    BY <1>2, <2>1
  <2> QED
    BY <2>2
<1> QED
  BY <1>3 DEF Min

\* A number is at most the sum of the set, and the least such bound is in it.
LEMMA MaxOf ==
  ASSUME NEW S \in SUBSET Nat, IsFiniteSet(S), S # {}
  PROVE  Max(S) \in S /\ \A y \in S : y <= Max(S)
<1> DEFINE f == [x \in S |-> x]
           B == {n \in Nat : \A y \in S : y <= n}
<1>1. f \in [S -> Nat] /\ \A x \in S : f[x] = x
  OBVIOUS
<1> HIDE DEF f
<1>2. Add(f, S) \in B
  <2>1. Add(f, S) \in Nat
    BY <1>1, AddType
  <2>2. ASSUME NEW y \in S
        PROVE  y <= Add(f, S)
    <3>1. Add(f, {y}) <= Add(f, S)
      BY <1>1, AddFewer
    <3>2. On(f, {y}) \in [{y} -> Nat] /\ On(f, {y})[y] = y
      BY <1>1 DEF On
    <3> QED
      BY <3>1, <3>2, SumOne DEF Add
  <2> QED
    BY <2>1, <2>2
<1>3. B \in SUBSET Nat /\ B # {}
  BY <1>2
<1>4. Min(B) \in B /\ \A n \in B : Min(B) <= n
  <2> HIDE DEF B
  <2> QED
    BY <1>3, MinOf
<1> DEFINE n == Min(B)
<1>5. n \in Nat /\ \A y \in S : y <= n
  BY <1>4
<1>6. n \in S
  <2>1. SUFFICES ASSUME n \notin S
                 PROVE  FALSE
    OBVIOUS
  <2>2. n - 1 \notin B
    <3> HIDE DEF B
    <3> QED
      BY <1>4, <1>5
  <2>3. PICK z \in S : TRUE
    OBVIOUS
  <2> HIDE DEF n
  <2>4. \A y \in S : y < n
    BY <1>5, <2>1
  <2>5. n - 1 \in Nat /\ \A y \in S : y <= n - 1
    BY <1>5, <2>3, <2>4
  <2> QED
    BY <2>2, <2>5
<1> HIDE DEF n
<1>7. \E x \in S : \A y \in S : x >= y
  BY <1>5, <1>6
<1> QED
  BY <1>7 DEF Max

LEMMA Ends ==
  ASSUME NEW m \in Int, NEW n \in Int, m <= n
  PROVE  Min(m..n) = m /\ Max(m..n) = n
<1>1. m \in m..n /\ n \in m..n /\ \A x \in m..n : x \in Int /\ m <= x /\ x <= n
  OBVIOUS
<1>2. Min(m..n) \in m..n /\ \A y \in m..n : Min(m..n) <= y
  BY <1>1 DEF Min
<1>3. Max(m..n) \in m..n /\ \A y \in m..n : Max(m..n) >= y
  BY <1>1 DEF Max
<1> QED
  BY <1>1, <1>2, <1>3


-----------------------------------------------------------------------------
\* The rows

RowsOK ==
  /\ order \in [Orders -> OrderRow \cup {NoRow}]
  /\ bill \in [Bills -> BillRow \cup {NoRow}]
  /\ today \in Days

\* A bill is not paid more than its total, nothing is partly paid without a
\* payment, the bills of an order are its customer's.
Sound(b) ==
  /\ bill[b].paid <= TotalOf[b[1]]
  /\ bill[b].status = "partial" => bill[b].paid > 0
  /\ bill[b].due # NoDate => bill[b].due <= Ever
  /\ b[1] \in Orders => order[b[1]] # NoRow /\ order[b[1]].customer = bill[b].customer

BillsSound == \A b \in Bills : bill[b] # NoRow => Sound(b)

RowsInv == RowsOK /\ BillsSound

LEMMA BillsFinite == IsFiniteSet(Bills) /\ IsFiniteSet(Orders)
<1>1. IsFiniteSet({"purchase_order", "sales_invoice"}) /\ IsFiniteSet({"debit_note"})
  <2>1. {"purchase_order", "sales_invoice"} = {"sales_invoice"} \cup {"purchase_order"}
    OBVIOUS
  <2>2. IsFiniteSet({"sales_invoice"}) /\ IsFiniteSet({"debit_note"})
    BY FS_Singleton
  <2>3. IsFiniteSet({"sales_invoice"} \cup {"purchase_order"})
    BY <2>2, FS_AddElement
  <2> QED
    BY <2>1, <2>2, <2>3
<1>2. /\ IsFiniteSet(Orders \X {"purchase_order", "sales_invoice"})
      /\ IsFiniteSet(Notes \X {"debit_note"})
  BY <1>1, SetsAssumption, FS_Product
<1> QED
  BY <1>2, SetsAssumption, FS_Union DEF Bills

LEMMA BillOf ==
  ASSUME NEW b \in Bills
  PROVE  /\ b[1] \in Orders \cup Notes
         /\ TotalOf[b[1]] \in Nat \ {0}
         /\ b[1] \in Orders <=> b[2] \in {"purchase_order", "sales_invoice"}
         /\ b[1] \in Notes <=> b[2] = "debit_note"
         /\ b = <<b[1], b[2]>>
BY TotalsAssumption, SetsAssumption DEF Bills

LEMMA DueBounds ==
  ASSUME NEW c \in Customers
  PROVE  /\ Ever \in Nat
         /\ \A d \in DueDates : d # NoDate => d \in Nat /\ d <= Ever
         /\ \A d \in Days : d + Terms[c] \in Nat /\ d + Terms[c] <= Ever
<1> DEFINE D == Days \cup (DueDates \ {NoDate})
           f == [x \in Customers |-> Terms[x]]
           T == {Terms[x] : x \in Customers}
<1>1. D \in SUBSET Nat /\ D # {} /\ IsFiniteSet(D)
  <2>1. IsFiniteSet(DueDates \ {NoDate})
    BY DueAssumption, FS_Subset
  <2> QED
    BY <2>1, DaysAssumption, DueAssumption, FS_Union
<1>2. T \in SUBSET Nat /\ T # {} /\ IsFiniteSet(T)
  <2>1. f \in Surjection(Customers, T)
    BY DEF Surjection
  <2>2. IsFiniteSet(T)
    BY <2>1, SetsAssumption, FS_Surjection
  <2> QED
    BY <2>2, DueAssumption
<1>3. Terms[c] \in T
  OBVIOUS
<1>4. Days \subseteq D /\ DueDates \ {NoDate} \subseteq D
  OBVIOUS
<1>5. Ever = Max(D) + Max(T)
  BY DEF Ever
<1> HIDE DEF D, T
<1>6. Max(D) \in D /\ \A y \in D : y <= Max(D)
  BY <1>1, MaxOf
<1>7. Max(T) \in T /\ \A y \in T : y <= Max(T)
  BY <1>2, MaxOf
<1>8. Max(D) \in Nat /\ Max(T) \in Nat /\ Terms[c] \in Nat /\ Terms[c] <= Max(T)
  BY <1>1, <1>2, <1>3, <1>6, <1>7
<1>9. \A d \in D : d \in Nat /\ d <= Max(D)
  BY <1>1, <1>6
<1>10. Ever \in Nat /\ \A d \in D : d <= Ever /\ d + Terms[c] \in Nat /\ d + Terms[c] <= Ever
  BY <1>5, <1>8, <1>9
<1> QED
  BY <1>4, <1>9, <1>10

\* What is due on a bill, and what is owed on some of them.
Made == {b \in Bills : bill[b] # NoRow}
Dues == [b \in Bills |-> IF b \in Made THEN AmountDue(b) ELSE 0]

LEMMA DuesType ==
  ASSUME RowsInv
  PROVE  /\ Dues \in [Bills -> Nat]
         /\ \A S \in SUBSET Made : /\ S \in SUBSET Bills /\ IsFiniteSet(S)
                                   /\ Cardinality(S) \in Nat
                                   /\ Owed(S) = Add(Dues, S) /\ Owed(S) \in Nat
<1>1. ASSUME NEW b \in Made
      PROVE  AmountDue(b) \in Nat
  <2>1. bill[b] \in BillRow /\ bill[b].paid <= TotalOf[b[1]] /\ TotalOf[b[1]] \in Nat
    BY BillOf DEF RowsInv, RowsOK, BillsSound, Sound, Made
  <2> QED
    BY <2>1 DEF AmountDue, BillRow
<1>2. Dues \in [Bills -> Nat]
  BY <1>1 DEF Dues
<1>3. ASSUME NEW S \in SUBSET Made
      PROVE  Owed(S) = Add(Dues, S)
  <2>1. On(Dues, S) = [b \in S |-> AmountDue(b)]
    BY DEF On, Dues, Made
  <2> QED
    BY <2>1 DEF Owed, Sum, Add
<1>4. \A S \in SUBSET Made : S \in SUBSET Bills
  BY DEF Made
<1> QED
  BY <1>2, <1>3, <1>4, BillsFinite, AddType

Worth == [o \in Orders |-> TotalOf[o]]

LEMMA WorthType ==
  /\ Worth \in [Orders -> Nat]
  /\ \A S \in SUBSET Orders : Sales(S) = Add(Worth, S) /\ Sales(S) \in Nat
                              /\ IsFiniteSet(S) /\ Cardinality(S) \in Nat
<1>1. Worth \in [Orders -> Nat]
  BY TotalsAssumption DEF Worth
<1>2. ASSUME NEW S \in SUBSET Orders
      PROVE  Sales(S) = Add(Worth, S)
  <2>1. On(Worth, S) = [o \in S |-> TotalOf[o]]
    BY DEF On, Worth
  <2> QED
    BY <2>1 DEF Sales, Sum, Total, Add
<1> QED
  BY <1>1, <1>2, BillsFinite, AddType

-----------------------------------------------------------------------------
\* What the handlers do to the rows

\* A bill that was made stays as it is, a new one owes all of its total.
LEMMA NewBill ==
  ASSUME RowsOK, NEW b \in Bills, NEW c \in Customers, NEW s \in {"draft", "issued"},
         NEW d \in Nat \cup {NoDate}
  PROVE  /\ Bill(b, c, s, d) \in BillRow
         /\ bill[b] # NoRow => Bill(b, c, s, d) = bill[b]
         /\ bill[b] = NoRow => Bill(b, c, s, d) = [customer |-> c, status |-> s, paid |-> 0, due |-> d]
BY DEF Bill, RowsOK, BillRow

LEMMA OpenDraftRows ==
  ASSUME RowsInv, NEW o \in Orders, NEW c \in Customers, NEW a \in Agents \cup {NoAgent},
         OpenDraft(o, c, a)
  PROVE  /\ order' \in [Orders -> OrderRow \cup {NoRow}]
         /\ order[o] = NoRow /\ order'[o] # NoRow /\ order'[o].status = "draft"
         /\ order'[o].submitted = NoDate
         /\ \A x \in Orders \ {o} : order'[x] = order[x]
<1>1. order' = [order EXCEPT ![o] = [customer |-> c, agent |-> a, status |-> "draft",
                                     created |-> today, submitted |-> NoDate]]
  BY DEF OpenDraft
<1>2. [customer |-> c, agent |-> a, status |-> "draft", created |-> today,
       submitted |-> NoDate] \in OrderRow
  BY DEF OrderRow, OrderStatus, RowsInv, RowsOK
<1> QED
  BY <1>1, <1>2, NullsAssumption DEF OpenDraft, Placed, RowsInv, RowsOK

LEMMA SubmitRows ==
  ASSUME RowsInv, NEW o \in Orders, NEW s \in {"submitted", "confirmed"}, Submit(o, s)
  PROVE  LET p == <<o, "purchase_order">>
         IN /\ order' \in [Orders -> OrderRow \cup {NoRow}]
            /\ order[o] \in OrderRow /\ order'[o] \in OrderRow /\ order[o].status = "draft"
            /\ order'[o] = [order[o] EXCEPT !.status = s, !.submitted = today]
            /\ \A x \in Orders \ {o} : order'[x] = order[x]
            /\ p \in Bills
            /\ bill' \in [Bills -> BillRow \cup {NoRow}]
            /\ \A b \in Bills : b # p \/ bill[b] # NoRow => bill'[b] = bill[b]
            /\ bill[p] = NoRow => bill'[p] = [customer |-> order[o].customer, status |-> "issued",
                                              paid |-> 0, due |-> NoDate]
<1> DEFINE p == <<o, "purchase_order">>
           c == order[o].customer
<1>1. order[o] \in OrderRow /\ order[o].status = "draft"
  BY DEF Submit, Placed, RowsInv, RowsOK
<1>2. c \in Customers /\ p \in Bills
  BY <1>1 DEF OrderRow, Bills
<1>3. /\ order' = [order EXCEPT ![o].status = s, ![o].submitted = today]
      /\ bill' = [bill EXCEPT ![p] = Bill(p, c, "issued", NoDate)]
  BY DEF Submit
<1>4. [order[o] EXCEPT !.status = s, !.submitted = today] \in OrderRow
  BY <1>1 DEF OrderRow, OrderStatus, RowsInv, RowsOK
<1>5. order'[o] = [order[o] EXCEPT !.status = s, !.submitted = today]
  BY <1>3 DEF RowsInv, RowsOK
<1>6. /\ order' \in [Orders -> OrderRow \cup {NoRow}]
      /\ \A x \in Orders \ {o} : order'[x] = order[x]
  BY <1>3, <1>4 DEF RowsInv, RowsOK
<1>7. /\ Bill(p, c, "issued", NoDate) \in BillRow
      /\ bill[p] # NoRow => Bill(p, c, "issued", NoDate) = bill[p]
      /\ bill[p] = NoRow => Bill(p, c, "issued", NoDate)
                              = [customer |-> c, status |-> "issued", paid |-> 0, due |-> NoDate]
  BY <1>2, NewBill DEF RowsInv
<1> HIDE DEF p, c
<1>8. /\ bill' \in [Bills -> BillRow \cup {NoRow}]
      /\ bill'[p] = Bill(p, c, "issued", NoDate)
      /\ \A b \in Bills \ {p} : bill'[b] = bill[b]
  BY <1>2, <1>3, <1>7 DEF RowsInv, RowsOK
<1>9. /\ \A b \in Bills : b # p \/ bill[b] # NoRow => bill'[b] = bill[b]
      /\ bill[p] = NoRow => bill'[p] = [customer |-> c, status |-> "issued", paid |-> 0, due |-> NoDate]
  BY <1>7, <1>8
<1> QED
  BY <1>1, <1>2, <1>4, <1>5, <1>6, <1>8, <1>9 DEF p, c

LEMMA SetStatusRows ==
  ASSUME RowsInv, NEW o \in Orders, NEW s \in Written, SetStatus(o, s)
  PROVE  LET p == <<o, "sales_invoice">>
             c == order[o].customer
         IN /\ order' \in [Orders -> OrderRow \cup {NoRow}]
            /\ order[o] \in OrderRow /\ order'[o] \in OrderRow /\ c \in Customers
            /\ order'[o] = [order[o] EXCEPT !.status = s]
            /\ \A x \in Orders \ {o} : order'[x] = order[x]
            /\ p \in Bills
            /\ bill' \in [Bills -> BillRow \cup {NoRow}]
            /\ \A b \in Bills : b # p \/ bill[b] # NoRow \/ s # "dispatched" => bill'[b] = bill[b]
            /\ DueDate(c) # NoDate => DueDate(c) \in Nat /\ DueDate(c) <= Ever
            /\ bill[p] = NoRow /\ s = "dispatched" =>
                 bill'[p] = [customer |-> c, status |-> "issued", paid |-> 0, due |-> DueDate(c)]
<1> DEFINE p == <<o, "sales_invoice">>
           c == order[o].customer
           d == DueDate(c)
<1>1. order[o] \in OrderRow /\ s \in OrderStatus
  BY WrittenAssumption DEF SetStatus, Placed, RowsInv, RowsOK
<1>2. c \in Customers /\ p \in Bills
  BY <1>1 DEF OrderRow, Bills
<1>3. d # NoDate => d \in Nat /\ d <= Ever
  <2>1. d = NoDate \/ d = today + Terms[c]
    BY DEF DueDate
  <2>2. today \in Days
    BY DEF RowsInv, RowsOK
  <2> HIDE DEF d, c
  <2> QED
    BY <1>2, <2>1, <2>2, DueBounds
<1>4. /\ order' = [order EXCEPT ![o].status = s]
      /\ bill' = IF s = "dispatched" THEN [bill EXCEPT ![p] = Bill(p, c, "issued", d)] ELSE bill
  BY DEF SetStatus
<1>5. [order[o] EXCEPT !.status = s] \in OrderRow
  BY <1>1 DEF OrderRow
<1>6. /\ order' \in [Orders -> OrderRow \cup {NoRow}]
      /\ order'[o] = [order[o] EXCEPT !.status = s]
      /\ \A x \in Orders \ {o} : order'[x] = order[x]
  BY <1>4, <1>5 DEF RowsInv, RowsOK
<1> HIDE DEF p, c, d
<1>7. /\ Bill(p, c, "issued", d) \in BillRow
      /\ bill[p] # NoRow => Bill(p, c, "issued", d) = bill[p]
      /\ bill[p] = NoRow => Bill(p, c, "issued", d)
                              = [customer |-> c, status |-> "issued", paid |-> 0, due |-> d]
  <2>1. d \in Nat \cup {NoDate}
    BY <1>3
  <2> QED
    BY <1>2, <2>1, NewBill DEF RowsInv
<1>8. /\ bill' \in [Bills -> BillRow \cup {NoRow}]
      /\ s = "dispatched" => bill'[p] = Bill(p, c, "issued", d)
      /\ \A b \in Bills : b # p \/ s # "dispatched" => bill'[b] = bill[b]
  BY <1>2, <1>4, <1>7 DEF RowsInv, RowsOK
<1>9. /\ \A b \in Bills : b # p \/ bill[b] # NoRow \/ s # "dispatched" => bill'[b] = bill[b]
      /\ bill[p] = NoRow /\ s = "dispatched" =>
           bill'[p] = [customer |-> c, status |-> "issued", paid |-> 0, due |-> d]
  BY <1>7, <1>8
<1> QED
  BY <1>1, <1>2, <1>3, <1>5, <1>6, <1>8, <1>9 DEF p, c, d

LEMMA NoteRows ==
  ASSUME RowsInv, NEW n \in Notes, NEW c \in Customers, NEW d \in DueDates, Note(n, c, d)
  PROVE  LET b == <<n, "debit_note">>
         IN /\ b \in Bills /\ bill[b] = NoRow
            /\ bill' \in [Bills -> BillRow \cup {NoRow}]
            /\ bill'[b] = [customer |-> c, status |-> "draft", paid |-> 0, due |-> d]
            /\ d # NoDate => d \in Nat /\ d <= Ever
            /\ \A x \in Bills \ {b} : bill'[x] = bill[x]
<1> DEFINE b == <<n, "debit_note">>
<1>1. b \in Bills /\ bill[b] = NoRow
  BY DEF Note, Bills
<1>2. d # NoDate => d \in Nat /\ d <= Ever
  BY DueBounds
<1>3. bill' = [bill EXCEPT ![b] = Bill(b, c, "draft", d)]
  BY DEF Note
<1> HIDE DEF b
<1>4. /\ Bill(b, c, "draft", d) \in BillRow
      /\ Bill(b, c, "draft", d) = [customer |-> c, status |-> "draft", paid |-> 0, due |-> d]
  <2>1. d \in Nat \cup {NoDate}
    BY <1>2
  <2> QED
    BY <1>1, <2>1, NewBill DEF RowsInv
<1>5. /\ bill' \in [Bills -> BillRow \cup {NoRow}]
      /\ bill'[b] = Bill(b, c, "draft", d)
      /\ \A x \in Bills \ {b} : bill'[x] = bill[x]
  BY <1>1, <1>3, <1>4 DEF RowsInv, RowsOK
<1> QED
  BY <1>1, <1>2, <1>4, <1>5 DEF b

\* A payment and its deletion, and voiding.
LEMMA PaidRows ==
  ASSUME RowsInv, NEW b \in Bills, Pay(b) \/ DeletePayment(b) \/ Void(b)
  PROVE  /\ bill[b] \in BillRow /\ bill'[b] \in BillRow
         /\ bill' \in [Bills -> BillRow \cup {NoRow}]
         /\ \A x \in Bills \ {b} : bill'[x] = bill[x]
         /\ bill'[b].customer = bill[b].customer /\ bill'[b].due = bill[b].due
         /\ bill'[b].paid <= TotalOf[b[1]]
         /\ bill'[b].status = "partial" => bill'[b].paid > 0
<1>1. bill[b] \in BillRow /\ bill[b].paid <= TotalOf[b[1]] /\ bill[b].paid \in Nat
  BY DEF Pay, DeletePayment, Void, RowsInv, RowsOK, BillsSound, Sound, BillRow
<1>2. TotalOf[b[1]] \in Nat
  BY BillOf
<1> DEFINE Row(paid, status) == [bill[b] EXCEPT !.paid = paid, !.status = status]
<1>3. ASSUME NEW paid \in Nat, paid <= TotalOf[b[1]], NEW status,
             status = PaidStatus(b, paid),
             bill' = [bill EXCEPT ![b].paid = paid, ![b].status = status]
      PROVE  /\ bill'[b] \in BillRow
             /\ bill' \in [Bills -> BillRow \cup {NoRow}]
             /\ \A x \in Bills \ {b} : bill'[x] = bill[x]
             /\ bill'[b].customer = bill[b].customer /\ bill'[b].due = bill[b].due
             /\ bill'[b].paid = paid /\ bill'[b].status = status
             /\ status = "partial" => paid > 0
  <2>1. status \in {"paid", "partial", "issued"} /\ (status = "partial" => paid > 0)
    BY <1>3 DEF PaidStatus
  <2>2. Row(paid, status) \in BillRow
    BY <1>1, <2>1 DEF BillRow
  <2>3. bill'[b] = Row(paid, status)
    BY <1>3 DEF RowsInv, RowsOK
  <2>4. /\ Row(paid, status).customer = bill[b].customer /\ Row(paid, status).due = bill[b].due
        /\ Row(paid, status).paid = paid /\ Row(paid, status).status = status
    BY <1>1 DEF BillRow
  <2>5. \A x \in Bills \ {b} : bill'[x] = bill[x]
    BY <1>3 DEF RowsInv, RowsOK
  <2>6. bill' \in [Bills -> BillRow \cup {NoRow}]
    BY <1>3, <2>2, <2>3, <2>5 DEF RowsInv, RowsOK
  <2> QED
    BY <2>1, <2>2, <2>3, <2>4, <2>5, <2>6
<1>4. CASE Pay(b)
  <2>1. /\ AmountDue(b) > 0
        /\ bill' = [bill EXCEPT ![b].paid = bill[b].paid + 1,
                                ![b].status = PaidStatus(b, bill[b].paid + 1)]
    BY <1>4 DEF Pay
  <2>2. bill[b].paid + 1 \in Nat /\ bill[b].paid + 1 <= TotalOf[b[1]]
    BY <1>1, <1>2, <2>1 DEF AmountDue
  <2> QED
    BY <1>1, <1>3, <2>1, <2>2
<1>5. CASE DeletePayment(b)
  <2>1. /\ bill[b].paid > 0
        /\ bill' = [bill EXCEPT ![b].paid = bill[b].paid - 1,
                                ![b].status = PaidStatus(b, bill[b].paid - 1)]
    BY <1>5 DEF DeletePayment
  <2>2. bill[b].paid - 1 \in Nat /\ bill[b].paid - 1 <= TotalOf[b[1]]
    BY <1>1, <1>2, <2>1
  <2> QED
    BY <1>1, <1>3, <2>1, <2>2
<1>6. CASE Void(b)
  <2>1. bill[b].paid = 0 /\ bill' = [bill EXCEPT ![b].status = "void"]
    BY <1>6 DEF Void
  <2>2. [bill[b] EXCEPT !.status = "void"] \in BillRow
    BY <1>1 DEF BillRow
  <2>3. bill'[b] = [bill[b] EXCEPT !.status = "void"] /\ \A x \in Bills \ {b} : bill'[x] = bill[x]
    BY <2>1 DEF RowsInv, RowsOK
  <2>4. /\ bill'[b].customer = bill[b].customer /\ bill'[b].due = bill[b].due
        /\ bill'[b].paid = bill[b].paid /\ bill'[b].status = "void"
    BY <1>1, <2>3 DEF BillRow
  <2>5. bill' \in [Bills -> BillRow \cup {NoRow}]
    BY <2>1, <2>2, <2>3 DEF RowsInv, RowsOK
  <2> QED
    BY <1>1, <2>2, <2>3, <2>4, <2>5
<1> QED
  BY <1>4, <1>5, <1>6

\* The rows that a step leaves as they are stay sound.
LEMMA StaysSound ==
  ASSUME RowsInv, NEW b \in Bills, bill[b] # NoRow, bill'[b] = bill[b],
         b[1] \in Orders => order'[b[1]] # NoRow
                            /\ order'[b[1]].customer = order[b[1]].customer
  PROVE  Sound(b)'
<1>1. Sound(b)
  BY DEF RowsInv, BillsSound
<1>2. Ever' = Ever /\ TotalOf[b[1]]' = TotalOf[b[1]]
  BY DEF Ever
<1> QED
  BY <1>1, <1>2 DEF Sound

LEMMA RowsInit == Init => RowsInv
<1> SUFFICES ASSUME Init
             PROVE  RowsInv
  OBVIOUS
<1>1. RowsOK
  BY DEF Init, RowsOK
<1>2. BillsSound
  BY DEF Init, BillsSound
<1> QED
  BY <1>1, <1>2 DEF RowsInv

LEMMA RowsStep == RowsInv /\ [Next]_vars => RowsInv'
<1> SUFFICES ASSUME RowsInv, [Next]_vars
             PROVE  RowsInv'
  OBVIOUS
<1>1. ASSUME NEW o \in Orders, NEW c \in Customers, NEW a \in Agents \cup {NoAgent},
             OpenDraft(o, c, a)
      PROVE  RowsInv'
  <2>1. /\ order' \in [Orders -> OrderRow \cup {NoRow}]
        /\ order[o] = NoRow
        /\ \A x \in Orders \ {o} : order'[x] = order[x]
    BY <1>1, OpenDraftRows
  <2>2. UNCHANGED <<bill, today>>
    BY <1>1 DEF OpenDraft
  <2>3. RowsOK'
    BY <2>1, <2>2 DEF RowsInv, RowsOK
  <2>4. ASSUME NEW b \in Bills, bill'[b] # NoRow
        PROVE  Sound(b)'
    <3>1. bill[b] # NoRow /\ bill'[b] = bill[b]
      BY <2>2, <2>4
    <3>2. b[1] \in Orders => order[b[1]] # NoRow
      BY <3>1 DEF RowsInv, BillsSound, Sound
    <3>3. b[1] \in Orders => order'[b[1]] = order[b[1]]
      BY <2>1, <3>2
    <3> QED
      BY <3>1, <3>2, <3>3, StaysSound
  <2> QED
    BY <2>3, <2>4 DEF RowsInv, BillsSound
<1>2. ASSUME NEW o \in Orders, NEW s \in {"submitted", "confirmed"}, Submit(o, s)
      PROVE  RowsInv'
  <2> DEFINE p == <<o, "purchase_order">>
  <2>1. /\ order' \in [Orders -> OrderRow \cup {NoRow}]
        /\ order[o] \in OrderRow /\ order'[o] \in OrderRow
        /\ order'[o] = [order[o] EXCEPT !.status = s, !.submitted = today]
        /\ \A x \in Orders \ {o} : order'[x] = order[x]
        /\ p \in Bills
        /\ bill' \in [Bills -> BillRow \cup {NoRow}]
        /\ \A b \in Bills : b # p \/ bill[b] # NoRow => bill'[b] = bill[b]
        /\ bill[p] = NoRow => bill'[p] = [customer |-> order[o].customer, status |-> "issued",
                                          paid |-> 0, due |-> NoDate]
    BY <1>2, SubmitRows
  <2>2. today' = today
    BY <1>2 DEF Submit
  <2>3. order'[o] # NoRow /\ order'[o].customer = order[o].customer
    BY <2>1, NullsAssumption DEF OrderRow
  <2>4. RowsOK'
    BY <2>1, <2>2 DEF RowsInv, RowsOK
  <2>5. p[1] = o
    OBVIOUS
  <2> HIDE DEF p
  <2>6. ASSUME NEW b \in Bills, bill'[b] # NoRow
        PROVE  Sound(b)'
    <3>1. CASE bill[b] # NoRow
      <4>1. bill'[b] = bill[b]
        BY <2>1, <3>1
      <4>2. b[1] \in Orders => order[b[1]] # NoRow
        BY <3>1 DEF RowsInv, BillsSound, Sound
      <4>3. b[1] \in Orders => /\ order'[b[1]] # NoRow
                               /\ order'[b[1]].customer = order[b[1]].customer
        BY <2>1, <2>3, <4>2
      <4> QED
        BY <3>1, <4>1, <4>3, StaysSound
    <3>2. CASE bill[b] = NoRow
      <4>1. b = p
        BY <2>1, <2>6, <3>2
      <4>2. bill'[b].paid = 0 /\ bill'[b].status = "issued" /\ bill'[b].due = NoDate
            /\ bill'[b].customer = order[o].customer
        BY <2>1, <3>2, <4>1
      <4>3. TotalOf[b[1]] \in Nat
        BY BillOf
      <4> QED
        BY <2>3, <2>5, <4>1, <4>2, <4>3 DEF Sound
    <3> QED
      BY <3>1, <3>2
  <2> QED
    BY <2>4, <2>6 DEF RowsInv, BillsSound
<1>3. ASSUME NEW o \in Orders, NEW s \in Written, SetStatus(o, s)
      PROVE  RowsInv'
  <2> DEFINE p == <<o, "sales_invoice">>
             c == order[o].customer
  <2>1. /\ order' \in [Orders -> OrderRow \cup {NoRow}]
        /\ order[o] \in OrderRow /\ order'[o] \in OrderRow /\ c \in Customers
        /\ order'[o] = [order[o] EXCEPT !.status = s]
        /\ \A x \in Orders \ {o} : order'[x] = order[x]
        /\ p \in Bills
        /\ bill' \in [Bills -> BillRow \cup {NoRow}]
        /\ \A b \in Bills : b # p \/ bill[b] # NoRow \/ s # "dispatched" => bill'[b] = bill[b]
        /\ DueDate(c) # NoDate => DueDate(c) \in Nat /\ DueDate(c) <= Ever
        /\ bill[p] = NoRow /\ s = "dispatched" =>
             bill'[p] = [customer |-> c, status |-> "issued", paid |-> 0, due |-> DueDate(c)]
    BY <1>3, SetStatusRows
  <2>2. today' = today
    BY <1>3 DEF SetStatus
  <2>3. order'[o] # NoRow /\ order'[o].customer = order[o].customer
    BY <2>1, NullsAssumption DEF OrderRow
  <2>4. RowsOK'
    BY <2>1, <2>2 DEF RowsInv, RowsOK
  <2>5. p[1] = o
    OBVIOUS
  <2> DEFINE d == DueDate(c)
  <2> HIDE DEF p, d
  <2>6. ASSUME NEW b \in Bills, bill'[b] # NoRow
        PROVE  Sound(b)'
    <3>1. CASE bill[b] # NoRow
      <4>1. bill'[b] = bill[b]
        BY <2>1, <3>1
      <4>2. b[1] \in Orders => order[b[1]] # NoRow
        BY <3>1 DEF RowsInv, BillsSound, Sound
      <4>3. b[1] \in Orders => /\ order'[b[1]] # NoRow
                               /\ order'[b[1]].customer = order[b[1]].customer
        BY <2>1, <2>3, <4>2
      <4> QED
        BY <3>1, <4>1, <4>3, StaysSound
    <3>2. CASE bill[b] = NoRow
      <4>1. b = p
        BY <2>1, <2>6, <3>2
      <4>2. bill'[b] = [customer |-> c, status |-> "issued", paid |-> 0, due |-> d]
        BY <2>1, <2>6, <3>2, <4>1 DEF d
      <4>3. bill'[b].paid = 0 /\ bill'[b].status = "issued" /\ bill'[b].due = d
            /\ bill'[b].customer = order[o].customer
        BY <4>2
      <4>4. TotalOf[b[1]] \in Nat
        BY BillOf
      <4>5. d # NoDate => d <= Ever
        BY <2>1 DEF d
      <4>6. Ever' = Ever
        BY DEF Ever
      <4> QED
        BY <2>3, <2>5, <4>1, <4>3, <4>4, <4>5, <4>6 DEF Sound
    <3> QED
      BY <3>1, <3>2
  <2> QED
    BY <2>4, <2>6 DEF RowsInv, BillsSound
<1>4. ASSUME NEW n \in Notes, NEW c \in Customers, NEW d \in DueDates, Note(n, c, d)
      PROVE  RowsInv'
  <2> DEFINE p == <<n, "debit_note">>
  <2>1. /\ p \in Bills
        /\ bill' \in [Bills -> BillRow \cup {NoRow}]
        /\ bill'[p] = [customer |-> c, status |-> "draft", paid |-> 0, due |-> d]
        /\ d # NoDate => d \in Nat /\ d <= Ever
        /\ \A x \in Bills \ {p} : bill'[x] = bill[x]
    BY <1>4, NoteRows
  <2>2. UNCHANGED <<order, today>>
    BY <1>4 DEF Note
  <2>3. RowsOK'
    BY <2>1, <2>2 DEF RowsInv, RowsOK
  <2>4. p[1] = n /\ n \notin Orders
    BY SetsAssumption
  <2> HIDE DEF p
  <2>5. ASSUME NEW b \in Bills, bill'[b] # NoRow
        PROVE  Sound(b)'
    <3>1. CASE b # p
      <4>1. bill'[b] = bill[b] /\ bill[b] # NoRow
        BY <2>1, <2>5, <3>1
      <4>2. b[1] \in Orders => order[b[1]] # NoRow
        BY <4>1 DEF RowsInv, BillsSound, Sound
      <4> QED
        BY <2>2, <4>1, <4>2, StaysSound
    <3>2. CASE b = p
      <4>1. bill'[b].paid = 0 /\ bill'[b].status = "draft" /\ bill'[b].due = d
        BY <2>1, <3>2
      <4>2. TotalOf[b[1]] \in Nat /\ Ever' = Ever
        BY BillOf DEF Ever
      <4> QED
        BY <2>1, <2>4, <3>2, <4>1, <4>2 DEF Sound
    <3> QED
      BY <3>1, <3>2
  <2> QED
    BY <2>3, <2>5 DEF RowsInv, BillsSound
<1>5. ASSUME NEW p \in Bills, Pay(p) \/ DeletePayment(p) \/ Void(p)
      PROVE  RowsInv'
  <2>1. /\ bill[p] \in BillRow
        /\ bill' \in [Bills -> BillRow \cup {NoRow}]
        /\ \A x \in Bills \ {p} : bill'[x] = bill[x]
        /\ bill'[p].customer = bill[p].customer /\ bill'[p].due = bill[p].due
        /\ bill'[p].paid <= TotalOf[p[1]]
        /\ bill'[p].status = "partial" => bill'[p].paid > 0
    BY <1>5, PaidRows
  <2>2. UNCHANGED <<order, today>>
    BY <1>5 DEF Pay, DeletePayment, Void
  <2>3. RowsOK'
    BY <2>1, <2>2 DEF RowsInv, RowsOK
  <2>4. ASSUME NEW b \in Bills, bill'[b] # NoRow
        PROVE  Sound(b)'
    <3>1. CASE b # p
      <4>1. bill'[b] = bill[b] /\ bill[b] # NoRow
        BY <2>1, <2>4, <3>1
      <4>2. b[1] \in Orders => order[b[1]] # NoRow
        BY <4>1 DEF RowsInv, BillsSound, Sound
      <4> QED
        BY <2>2, <4>1, <4>2, StaysSound
    <3>2. CASE b = p
      <4>1. bill[p] # NoRow
        BY <2>1, NullsAssumption
      <4>2. Sound(p)
        BY <4>1 DEF RowsInv, BillsSound
      <4>3. Ever' = Ever
        BY DEF Ever
      <4> QED
        BY <2>1, <2>2, <3>2, <4>2, <4>3 DEF Sound
    <3> QED
      BY <3>1, <3>2
  <2> QED
    BY <2>3, <2>4 DEF RowsInv, BillsSound
<1>6. ASSUME UNCHANGED <<order, bill>>, today' \in Days
      PROVE  RowsInv'
  <2>1. RowsOK'
    BY <1>6 DEF RowsInv, RowsOK
  <2>2. ASSUME NEW b \in Bills, bill'[b] # NoRow
        PROVE  Sound(b)'
    <3>1. bill[b] # NoRow /\ Sound(b) /\ Ever' = Ever
      BY <1>6, <2>2 DEF RowsInv, BillsSound, Ever
    <3> QED
      BY <1>6, <3>1 DEF Sound
  <2> QED
    BY <2>1, <2>2 DEF RowsInv, BillsSound
<1>7. CASE Midnight
  <2> DEFINE later == {d \in Days : d > today}
  <2>1. later \in SUBSET Nat /\ later # {}
    BY <1>7, DaysAssumption DEF Midnight
  <2>2. today' = Min(later) /\ UNCHANGED <<order, bill>>
    BY <1>7 DEF Midnight
  <2>3. later \subseteq Days
    OBVIOUS
  <2> HIDE DEF later
  <2>4. today' \in Days
    BY <2>1, <2>2, <2>3, MinOf
  <2> QED
    BY <1>6, <2>2, <2>4
<1>8. CASE UNCHANGED vars
  BY <1>6, <1>8 DEF vars, RowsInv, RowsOK
<1> QED
  BY <1>1, <1>2, <1>3, <1>4, <1>5, <1>7, <1>8 DEF Next

-----------------------------------------------------------------------------
\* What is owed

CustomersOf(k) == {c \in Customers : HomeOf[c] = k}

LEMMA UnpaidRows ==
  ASSUME RowsInv, NEW k
  PROVE  /\ Unpaid(k) \in SUBSET Made
         /\ \A b \in Unpaid(k) : /\ b \in Bills /\ bill[b] \in BillRow /\ Sound(b)
                                 /\ bill[b].customer \in CustomersOf(k)
                                 /\ bill[b].status \in {"issued", "partial"}
                                 /\ bill[b].due \in Nat \cup {NoDate}
                                 /\ bill[b].due # NoDate => bill[b].due \in 0..Ever
<1> SUFFICES ASSUME NEW b \in Unpaid(k)
             PROVE  /\ b \in Made /\ b \in Bills /\ bill[b] \in BillRow /\ Sound(b)
                    /\ bill[b].customer \in CustomersOf(k)
                    /\ bill[b].status \in {"issued", "partial"}
                    /\ bill[b].due \in Nat \cup {NoDate}
                    /\ bill[b].due # NoDate => bill[b].due \in 0..Ever
  OBVIOUS
<1>1. /\ b \in Bills /\ bill[b] # NoRow /\ HomeOf[bill[b].customer] = k
      /\ bill[b].status \in {"issued", "partial"}
  BY DEF Unpaid
<1>2. bill[b] \in BillRow /\ Sound(b)
  BY <1>1 DEF RowsInv, RowsOK, BillsSound
<1>3. bill[b].customer \in CustomersOf(k) /\ bill[b].due \in Nat \cup {NoDate}
  BY <1>1, <1>2 DEF BillRow, CustomersOf
<1>4. bill[b].due # NoDate => bill[b].due \in 0..Ever
  <2>1. Ever \in Nat
    BY <1>3, DueBounds DEF CustomersOf
  <2> QED
    BY <1>2, <1>3, <2>1 DEF Sound
<1> QED
  BY <1>1, <1>2, <1>3, <1>4 DEF Made

\* Made rows in two parts.
LEMMA OwedParts ==
  ASSUME RowsInv, NEW A \in SUBSET Made, NEW B \in SUBSET Made, A \cap B = {}
  PROVE  /\ Owed(A \cup B) = Owed(A) + Owed(B)
         /\ Owed(A) \in Nat /\ Owed(B) \in Nat /\ Owed(A \cup B) \in Nat
<1>1. A \cup B \in SUBSET Made
  OBVIOUS
<1>2. /\ Dues \in [Bills -> Nat]
      /\ Owed(A) = Add(Dues, A) /\ Owed(A) \in Nat /\ A \in SUBSET Bills
      /\ Owed(B) = Add(Dues, B) /\ Owed(B) \in Nat /\ B \in SUBSET Bills
      /\ Owed(A \cup B) = Add(Dues, A \cup B) /\ Owed(A \cup B) \in Nat
  BY <1>1, DuesType
<1>3. Add(Dues, A \cup B) = Add(Dues, A) + Add(Dues, B)
  BY <1>2, BillsFinite, AddDisjoint
<1> QED
  BY <1>2, <1>3

\* What a company is owed, customer by customer.
LEMMA OwedByCustomer ==
  ASSUME RowsInv, NEW k, NEW S \in SUBSET Unpaid(k), NEW h,
         h = [c \in CustomersOf(k) |-> h[c]],
         \A c \in CustomersOf(k) : h[c] = Owed(Billed(S, c))
  PROVE  Owed(S) = SumOf(h)
<1> DEFINE C == CustomersOf(k)
           g == [b \in S |-> bill[b].customer]
<1>1. IsFiniteSet(C)
  BY SetsAssumption, FS_Subset DEF CustomersOf
<1>2. \A b \in S : g[b] \in C
  BY UnpaidRows
<1>3. S \in SUBSET Made /\ \A c : Billed(S, c) \in SUBSET Made
  BY UnpaidRows DEF Billed
<1>4. Dues \in [Bills -> Nat] /\ S \in SUBSET Bills
  BY <1>3, DuesType
<1>5. \A c : Group(S, g, c) = Billed(S, c)
  BY DEF Group, Billed
<1> HIDE DEF g, C
<1>6. Add(Dues, S) = SumOf(SumsOf(Dues, S, C, g))
  BY <1>1, <1>2, <1>4, BillsFinite, AddGroups
<1>7. \A c \in C : Add(Dues, Group(S, g, c)) = h[c]
  BY <1>3, <1>5, DuesType DEF C
<1>8. SumsOf(Dues, S, C, g) = h
  BY <1>7 DEF SumsOf, C
<1>9. Owed(S) = Add(Dues, S)
  BY <1>3, DuesType
<1> QED
  BY <1>6, <1>8, <1>9

\* The rows a query selects by the customer and by the date, in either order.
LEMMA BilledDue ==
  ASSUME NEW S, NEW c, NEW m, NEW n
  PROVE  /\ Billed(Due(S, m, n), c) = Due(Billed(S, c), m, n)
         /\ Billed(Before(S, m), c) = Before(Billed(S, c), m)
         /\ Due(S, m, n) \subseteq S /\ Billed(S, c) \subseteq S /\ Before(S, m) \subseteq S
BY DEF Billed, Due, Before

\* The buckets of a customer's page are the customer's part of the company's.
LEMMA AgingRows ==
  ASSUME RowsInv, NEW k, NEW c \in CustomersOf(k)
  PROVE  LET U == Unpaid(k)
         IN CustomerSummary(c).outstanding =
              [days_0_30         |-> Owed(Billed(Due(U, today - 30, today), c)),
               days_31_60        |-> Owed(Billed(Due(U, today - 60, today - 31), c)),
               days_60_plus      |-> Owed(Billed(Before(U, today - 60), c)),
               total_outstanding |-> Owed(Billed(Due(U, 0, today), c))]
<1> DEFINE U == Unpaid(k)
           mine == {b \in Billed(Unpaid(HomeOf[c]), c) : bill[b].due # NoDate}
           days(b) == today - bill[b].due
           b0  == {b \in mine : days(b) \in 0..30}
           b31 == {b \in mine : days(b) \in 31..60}
           b61 == {b \in mine : days(b) > 60}
<1>1. HomeOf[c] = k
  BY DEF CustomersOf
<1>2. \A b \in mine : bill[b].due \in Nat
  BY <1>1, UnpaidRows DEF Billed
<1>3. \A b : b \in mine <=> b \in U /\ bill[b].customer = c /\ bill[b].due # NoDate
  BY <1>1 DEF Billed
<1>4. today \in Nat
  BY DaysAssumption DEF RowsInv, RowsOK
<1> HIDE DEF mine, U
<1>5. b0 = Billed(Due(U, today - 30, today), c)
  BY <1>2, <1>3, <1>4 DEF Billed, Due
<1>6. b31 = Billed(Due(U, today - 60, today - 31), c)
  BY <1>2, <1>3, <1>4 DEF Billed, Due
<1>7. b61 = Billed(Before(U, today - 60), c)
  BY <1>2, <1>3, <1>4 DEF Billed, Due, Before
<1>8. b0 \cup b31 \cup b61 = Billed(Due(U, 0, today), c)
  BY <1>2, <1>3, <1>4 DEF Billed, Due
<1>9. CustomerSummary(c).outstanding =
        [days_0_30 |-> Owed(b0), days_31_60 |-> Owed(b31), days_60_plus |-> Owed(b61),
         total_outstanding |-> Owed(b0 \cup b31 \cup b61)]
  BY DEF CustomerSummary, AgingBuckets, mine
<1> HIDE DEF b0, b31, b61
<1> QED
  BY <1>5, <1>6, <1>7, <1>8, <1>9 DEF U

\* The ages of what is owed: the pages cut the same rows at the same days.
LEMMA AgesAddUp ==
  ASSUME RowsInv, NEW k
  PROVE  LET U == Unpaid(k)
             current == Due(U, today - 30, Ever) \cup {b \in U : bill[b].due = NoDate}
         IN /\ Owed(U) = Owed(current) + Owed(Due(U, today - 60, today - 31))
                         + Owed(Due(U, today - 90, today - 61)) + Owed(Before(U, today - 90))
            /\ Owed(Before(U, today - 60))
                 = Owed(Due(U, today - 90, today - 61)) + Owed(Before(U, today - 90))
            /\ Owed(U) = Owed(Due(U, 0, today)) + Owed(U \ Due(U, 0, today))
<1> DEFINE U == Unpaid(k)
           current == Due(U, today - 30, Ever) \cup {b \in U : bill[b].due = NoDate}
           d31 == Due(U, today - 60, today - 31)
           d61 == Due(U, today - 90, today - 61)
           d90 == Before(U, today - 90)
           b60 == Before(U, today - 60)
           now == Due(U, 0, today)
<1>1. U \in SUBSET Made
  BY UnpaidRows
<1>2. \A b \in U : /\ bill[b].due \in Nat \cup {NoDate}
                   /\ bill[b].due # NoDate => bill[b].due \in 0..Ever
  BY UnpaidRows
<1>3. today \in Nat
  BY DaysAssumption DEF RowsInv, RowsOK
<1>4. /\ current \subseteq U /\ d31 \subseteq U /\ d61 \subseteq U /\ d90 \subseteq U
      /\ now \subseteq U
  BY DEF Due, Before
<1> HIDE DEF U
<1>5. /\ \A b \in U : b \in current <=> (bill[b].due # NoDate => bill[b].due >= today - 30)
      /\ \A b \in U : b \in d31 <=> bill[b].due # NoDate /\ bill[b].due \in today - 60..today - 31
      /\ \A b \in U : b \in d61 <=> bill[b].due # NoDate /\ bill[b].due \in today - 90..today - 61
      /\ \A b \in U : b \in d90 <=> bill[b].due # NoDate /\ bill[b].due <= today - 91
      /\ \A b \in U : b \in b60 <=> bill[b].due # NoDate /\ bill[b].due <= today - 61
  <2>1. SUFFICES ASSUME NEW b \in U
                 PROVE  /\ b \in current <=> (bill[b].due # NoDate => bill[b].due >= today - 30)
                        /\ b \in d31 <=> bill[b].due # NoDate /\ bill[b].due \in today - 60..today - 31
                        /\ b \in d61 <=> bill[b].due # NoDate /\ bill[b].due \in today - 90..today - 61
                        /\ b \in d90 <=> bill[b].due # NoDate /\ bill[b].due <= today - 91
                        /\ b \in b60 <=> bill[b].due # NoDate /\ bill[b].due <= today - 61
    OBVIOUS
  <2>2. bill[b].due = NoDate \/ (bill[b].due \in Nat /\ bill[b].due \in 0..Ever)
    BY <1>2
  <2> QED
    BY <1>3, <2>2 DEF Due, Before
<1>6. b60 \subseteq U
  BY DEF Due, Before
<1> HIDE DEF current, d31, d61, d90, b60, now
<1>7. /\ d61 \cap d90 = {} /\ b60 = d61 \cup d90
      /\ d31 \cap b60 = {}
      /\ current \cap (d31 \cup b60) = {}
      /\ U = current \cup (d31 \cup b60)
  <2>1. \A b \in U : bill[b].due = NoDate \/ bill[b].due \in Nat
    BY <1>2
  <2>2. \A b \in U : /\ ~ (b \in d61 /\ b \in d90)
                     /\ b \in b60 <=> b \in d61 \/ b \in d90
                     /\ ~ (b \in d31 /\ b \in b60)
                     /\ b \in current <=> ~ (b \in d31 \/ b \in b60)
    <3>1. SUFFICES ASSUME NEW b \in U
                   PROVE  /\ ~ (b \in d61 /\ b \in d90)
                          /\ b \in b60 <=> b \in d61 \/ b \in d90
                          /\ ~ (b \in d31 /\ b \in b60)
                          /\ b \in current <=> ~ (b \in d31 \/ b \in b60)
      OBVIOUS
    <3>2. CASE bill[b].due = NoDate
      BY <1>5, <3>2
    <3>3. CASE bill[b].due # NoDate
      <4> DEFINE x == bill[b].due
      <4>1. x \in Nat /\ x # NoDate
        BY <2>1, <3>3
      <4>2. /\ b \in current <=> x >= today - 30
            /\ b \in d31 <=> x \in today - 60..today - 31
            /\ b \in d61 <=> x \in today - 90..today - 61
            /\ b \in d90 <=> x <= today - 91
            /\ b \in b60 <=> x <= today - 61
        BY <1>5, <3>3
      <4> HIDE DEF x
      <4> QED
        BY <1>3, <4>1, <4>2
    <3> QED
      BY <3>2, <3>3
  <2> QED
    BY <1>4, <1>6, <2>2
<1>8. Owed(b60) = Owed(d61) + Owed(d90)
  BY <1>1, <1>4, <1>7, OwedParts
<1>9. Owed(d31 \cup b60) = Owed(d31) + Owed(b60)
  BY <1>1, <1>4, <1>6, <1>7, OwedParts
<1>10. Owed(U) = Owed(current) + Owed(d31 \cup b60)
  <2>1. d31 \cup b60 \in SUBSET Made /\ current \in SUBSET Made
    BY <1>1, <1>4, <1>6
  <2> QED
    BY <1>7, <2>1, OwedParts
<1>11. Owed(U) = Owed(now) + Owed(U \ now)
  <2>1. now \in SUBSET Made /\ U \ now \in SUBSET Made /\ now \cup (U \ now) = U
    BY <1>1, <1>4
  <2> QED
    BY <2>1, OwedParts
<1>12. Owed(current) \in Nat /\ Owed(d31) \in Nat /\ Owed(d61) \in Nat /\ Owed(d90) \in Nat
  BY <1>1, <1>4, DuesType
<1>13. Owed(U) = Owed(current) + Owed(d31) + Owed(d61) + Owed(d90)
  BY <1>8, <1>9, <1>10, <1>12
<1> QED
  BY <1>8, <1>11, <1>13 DEF U, current, d31, d61, d90, b60, now

\* A company's overdue customers are those whose page counts a day.
LEMMA OverdueCustomers ==
  ASSUME RowsInv, NEW k
  PROVE  {bill[b].customer : b \in Before(Unpaid(k), today)}
           = {c \in Customers : HomeOf[c] = k /\ CustomerPayments(c).days_overdue > 0}
<1> DEFINE U == Unpaid(k)
<1>1. today \in Nat
  BY DaysAssumption DEF RowsInv, RowsOK
<1>2. \A b \in Before(U, today) : b \in U /\ bill[b].customer \in CustomersOf(k)
  BY UnpaidRows, BilledDue
<1>3. \A b \in U : b \in Before(U, today) <=> bill[b].due # NoDate /\ bill[b].due < today
  <2>1. SUFFICES ASSUME NEW b \in U
                 PROVE  b \in Before(U, today) <=> bill[b].due # NoDate /\ bill[b].due < today
    OBVIOUS
  <2>2. bill[b].due = NoDate \/ bill[b].due \in Nat
    BY UnpaidRows
  <2> HIDE DEF U
  <2> QED
    BY <1>1, <2>2 DEF Before, Due
<1>4. ASSUME NEW c \in CustomersOf(k)
      PROVE  CustomerPayments(c).days_overdue > 0
               <=> \E b \in Before(U, today) : bill[b].customer = c
  <2> DEFINE mine == Billed(Unpaid(HomeOf[c]), c)
             dates == {bill[b].due : b \in mine} \ {NoDate}
             days == IF dates = {} THEN -1
                     ELSE IF Min(dates) < today THEN today - Min(dates) ELSE 0
  <2>1. CustomerPayments(c).days_overdue = days
    BY DEF CustomerPayments
  <2>2. \A b : b \in mine <=> b \in U /\ bill[b].customer = c
    BY DEF CustomersOf, Billed
  <2>3. dates \in SUBSET Nat
    BY <2>2, UnpaidRows
  <2>4. \A x : x \in dates <=> \E b \in U : bill[b].customer = c /\ bill[b].due = x /\ x # NoDate
    BY <2>2
  <2> HIDE DEF mine, dates, U
  <2>5. dates # {} => Min(dates) \in dates /\ \A x \in dates : Min(dates) <= x
    BY <2>3, MinOf
  <2>6. days > 0 <=> \E x \in dates : x < today
    <3>1. CASE dates = {}
      BY <3>1
    <3>2. CASE dates # {}
      <4>1. Min(dates) \in Nat
        BY <2>3, <2>5, <3>2
      <4>2. days > 0 <=> Min(dates) < today
        BY <1>1, <3>2, <4>1
      <4>3. Min(dates) < today <=> \E x \in dates : x < today
        <5>1. ASSUME NEW x \in dates, x < today
              PROVE  Min(dates) < today
          <6>1. Min(dates) <= x /\ x \in Nat
            BY <2>3, <2>5, <3>2
          <6> QED
            BY <1>1, <4>1, <5>1, <6>1
        <5>2. Min(dates) \in dates
          BY <2>5, <3>2
        <5> QED
          BY <5>1, <5>2
      <4> QED
        BY <4>2, <4>3
    <3> QED
      BY <3>1, <3>2
  <2>7. (\E x \in dates : x < today) <=> \E b \in Before(U, today) : bill[b].customer = c
    BY <1>2, <1>3, <2>4 DEF U
  <2> QED
    BY <2>1, <2>6, <2>7
<1> HIDE DEF U
<1>5. \A c : c \in {bill[b].customer : b \in Before(U, today)}
               <=> \E b \in Before(U, today) : bill[b].customer = c
  OBVIOUS
<1>6. \A c : (\E b \in Before(U, today) : bill[b].customer = c) => c \in CustomersOf(k)
  BY <1>2
<1>7. \A c : c \in CustomersOf(k) <=> c \in Customers /\ HomeOf[c] = k
  BY DEF CustomersOf
<1> QED
  BY <1>4, <1>5, <1>6, <1>7 DEF U

\* What the agents' customers owe on their orders is part of what is owed.
AgentBills(a, k) ==
  {b \in Unpaid(k) : b[1] \in Orders /\ Placed(b[1]) /\ order[b[1]].agent = a}

LEMMA AgentsOwe ==
  ASSUME RowsInv, NEW k
  PROVE  /\ SumOf([a \in Agents |-> AgentCredit(a, k)]) <= Owed(Unpaid(k))
         /\ \A a \in Agents : AgentCredit(a, k) \in Nat
<1> DEFINE U == Unpaid(k)
           T == {b \in U : b[1] \in Orders /\ Placed(b[1]) /\ order[b[1]].agent \in Agents}
           g == [b \in T |-> order[b[1]].agent]
           h == [a \in Agents |-> AgentCredit(a, k)]
<1>1. U \in SUBSET Made /\ T \subseteq U /\ T \in SUBSET Made
  BY UnpaidRows
<1>2. \A b \in T : g[b] \in Agents
  OBVIOUS
<1>3. \A a \in Agents : Group(T, g, a) = AgentBills(a, k)
  BY DEF Group, AgentBills
<1>4. \A a : AgentBills(a, k) \in SUBSET Made
  BY <1>1 DEF AgentBills
<1>5. \A a : AgentCredit(a, k) = Owed(AgentBills(a, k))
  BY DEF AgentCredit, AgentBills
<1>6. /\ Dues \in [Bills -> Nat] /\ T \in SUBSET Bills /\ U \in SUBSET Bills
      /\ Owed(T) = Add(Dues, T) /\ Owed(U) = Add(Dues, U)
      /\ Owed(T) \in Nat /\ Owed(U) \in Nat
  <2> HIDE DEF U, T
  <2> QED
    BY <1>1, DuesType
<1> HIDE DEF U, T, g
<1>7. Add(Dues, T) = SumOf(SumsOf(Dues, T, Agents, g))
  BY <1>2, <1>6, BillsFinite, SetsAssumption, AddGroups
<1>8. \A a \in Agents : Add(Dues, Group(T, g, a)) = h[a] /\ h[a] \in Nat
  BY <1>3, <1>4, <1>5, DuesType
<1>9. SumsOf(Dues, T, Agents, g) = h
  BY <1>8 DEF SumsOf
<1>10. Add(Dues, T) <= Add(Dues, U)
  BY <1>1, <1>6, BillsFinite, AddFewer
<1> QED
  BY <1>6, <1>7, <1>8, <1>9, <1>10 DEF U

\* An agent with something owed has an invoice that is not settled, in the company.
LEMMA AgentPending ==
  ASSUME RowsInv, NEW k, NEW a \in Agents, AgentOverview(a, k).credit_utilized > 0
  PROVE  AgentOverview(a, k).pending_invoices > 0
<1> DEFINE P == {b \in Bills :
                   /\ bill[b] # NoRow /\ b[1] \in Orders /\ bill[b].status \notin {"paid", "void"}
                   /\ b[1] \in By(OrdersOf(k), a)}
<1>1. /\ AgentOverview(a, k).credit_utilized = Owed(AgentBills(a, k))
      /\ AgentOverview(a, k).pending_invoices = Cardinality(P)
  BY DEF AgentOverview, AgentCredit, AgentBills
<1>2. AgentBills(a, k) # {}
  <2>1. SUFFICES ASSUME AgentBills(a, k) = {}
                 PROVE  FALSE
    OBVIOUS
  <2>2. Owed({}) = Add(Dues, {})
    BY DuesType
  <2> QED
    BY <1>1, <2>1, <2>2, AddNone
<1>3. PICK b \in AgentBills(a, k) : TRUE
  BY <1>2
<1>4. b \in Unpaid(k) /\ b[1] \in Orders /\ Placed(b[1]) /\ order[b[1]].agent = a
  BY <1>3 DEF AgentBills
<1>5. /\ b \in Bills /\ b \in Made /\ Sound(b) /\ bill[b].customer \in CustomersOf(k)
      /\ bill[b].status \in {"issued", "partial"}
  BY <1>4, UnpaidRows
<1>6. b \in P
  BY <1>4, <1>5 DEF Made, Sound, CustomersOf, OrdersOf, By
<1>7. P \subseteq Bills
  OBVIOUS
<1> HIDE DEF P
<1>8. IsFiniteSet(P) /\ P # {}
  BY <1>6, <1>7, BillsFinite, FS_Subset
<1>9. Cardinality(P) \in Nat /\ Cardinality(P) # 0
  BY <1>8, FS_EmptySet, FS_CardinalityType
<1> QED
  BY <1>1, <1>9

-----------------------------------------------------------------------------
\* The tax register

LEMMA SumNear ==
  ASSUME NEW S, IsFiniteSet(S), NEW f \in [S -> Nat], NEW h \in [S -> Nat], NEW t \in [S -> Nat],
         \A x \in S : f[x] + h[x] - t[x] \in -1..1
  PROVE  SumOf(f) + SumOf(h) - SumOf(t) \in -Cardinality(S)..Cardinality(S)
<1> DEFINE one == [x \in S |-> 1]
           both == [x \in S |-> f[x] + h[x]]
           over == [x \in S |-> t[x] + one[x]]
           above == [x \in S |-> both[x] + one[x]]
<1>1. /\ one \in [S -> {1}] /\ one \in [S -> Nat] /\ both \in [S -> Nat]
      /\ over \in [S -> Nat] /\ above \in [S -> Nat]
  OBVIOUS
<1>2. /\ \A x \in S : both[x] = f[x] + h[x]
      /\ \A x \in S : over[x] = t[x] + one[x]
      /\ \A x \in S : above[x] = both[x] + one[x]
  OBVIOUS
<1>3. \A x \in S : both[x] <= over[x] /\ t[x] <= above[x]
  OBVIOUS
<1> HIDE DEF one, both, over, above
<1>4. /\ SumOf(one) = Cardinality(S)
      /\ SumOf(both) = SumOf(f) + SumOf(h)
      /\ SumOf(over) = SumOf(t) + SumOf(one)
      /\ SumOf(above) = SumOf(both) + SumOf(one)
  <2>1. SumOf(one) = Cardinality(S)
    BY <1>1, SumCount
  <2>2. SumOf(both) = SumOf(f) + SumOf(h)
    <3>1. \A x \in S : both[x] = f[x] + h[x]
      BY <1>2
    <3>2. both \in [S -> Nat]
      BY <1>1
    <3> QED
      BY ONLY IsFiniteSet(S), <3>1, <3>2, f \in [S -> Nat], h \in [S -> Nat], SumAdd
  <2>3. SumOf(over) = SumOf(t) + SumOf(one)
    <3>1. \A x \in S : over[x] = t[x] + one[x]
      BY <1>2
    <3>2. one \in [S -> Nat] /\ over \in [S -> Nat]
      BY <1>1
    <3> QED
      BY ONLY IsFiniteSet(S), <3>1, <3>2, t \in [S -> Nat], SumAdd
  <2>4. SumOf(above) = SumOf(both) + SumOf(one)
    <3>1. \A x \in S : above[x] = both[x] + one[x]
      BY <1>2
    <3>2. one \in [S -> Nat] /\ both \in [S -> Nat] /\ above \in [S -> Nat]
      BY <1>1
    <3> QED
      BY ONLY IsFiniteSet(S), <3>1, <3>2, SumAdd
  <2> QED
    BY <2>1, <2>2, <2>3, <2>4
<1>5. SumOf(both) <= SumOf(over) /\ SumOf(t) <= SumOf(above)
  <2>1. S \in SUBSET S
    OBVIOUS
  <2>2. SumOf(both) <= SumOf(over)
    BY <1>1, <1>3, <2>1, SumMonotone
  <2>3. SumOf(t) <= SumOf(above)
    BY <1>1, <1>3, <2>1, SumMonotone
  <2> QED
    BY <2>2, <2>3
<1>6. SumOf(f) \in Nat /\ SumOf(h) \in Nat /\ SumOf(t) \in Nat /\ SumOf(one) \in Nat
  BY <1>1, SumType
<1> QED
  BY <1>4, <1>5, <1>6

LEMMA GSTRows ==
  ASSUME RowsInv, NEW k, NEW b \in GSTInvoices(k)
  PROVE  /\ GSTRow(b).taxable \in Nat /\ GSTRow(b).tax \in Nat /\ GSTRow(b).total \in Nat
         /\ GSTRow(b).taxable + GSTRow(b).tax - GSTRow(b).total \in -1..1
<1> DEFINE tax == IF b[1] \in Orders THEN TaxOf[b[1]] ELSE 0
           away == bill[b].customer \in Away
           shown == TaxShown(Split(tax, away))
<1>1. b \in Bills
  BY DEF GSTInvoices
<1>2. TotalOf[b[1]] \in Nat
  BY <1>1, BillOf
<1>3. tax \in Nat /\ tax <= TotalOf[b[1]]
  BY <1>2, TaxAssumption
<1>4. /\ GSTRow(b).taxable = TotalOf[b[1]] - tax /\ GSTRow(b).tax = shown
      /\ GSTRow(b).total = TotalOf[b[1]]
  BY DEF GSTRow
<1>5. away \in BOOLEAN
  OBVIOUS
<1> HIDE DEF tax, away
<1>6. shown - tax \in -1..1
  BY <1>3, <1>5, TaxSplit
<1>7. shown \in Nat
  <2>1. HalfEven(tax, 2) \in Nat
    BY <1>3, HalfNear
  <2> QED
    BY <1>3, <2>1 DEF Split, TaxShown
<1> HIDE DEF shown
<1> QED
  BY <1>2, <1>3, <1>4, <1>6, <1>7

LEMMA GSTAgrees ==
  ASSUME RowsInv, NEW k
  PROVE  /\ Unpaid(k) \subseteq GSTInvoices(k)
         /\ GSTSummary(k).interstate_total + GSTSummary(k).intrastate_total
              = GSTSummary(k).total_taxable
         /\ GSTSummary(k).total_taxable + GSTSummary(k).total_tax - GSTSummary(k).total_amount
              \in -GSTSummary(k).total_invoices..GSTSummary(k).total_invoices
<1> DEFINE S == GSTInvoices(k)
           f == [b \in S |-> GSTRow(b).taxable]
           h == [b \in S |-> GSTRow(b).tax]
           t == [b \in S |-> GSTRow(b).total]
           A == {b \in S : GSTRow(b).is_interstate}
           B == {b \in S : ~GSTRow(b).is_interstate}
<1>1. Unpaid(k) \subseteq S
  BY DEF Unpaid, GSTInvoices
<1>2. IsFiniteSet(S)
  BY BillsFinite, FS_Subset DEF GSTInvoices
<1>3. A \in SUBSET S /\ B \in SUBSET S /\ A \cap B = {} /\ A \cup B = S
  OBVIOUS
<1>4. /\ GSTSummary(k).total_invoices = Cardinality(S)
      /\ GSTSummary(k).total_taxable = SumOf(f)
      /\ GSTSummary(k).total_tax = SumOf(h)
      /\ GSTSummary(k).total_amount = SumOf(t)
      /\ GSTSummary(k).interstate_total = SumOf([b \in A |-> GSTRow(b).taxable])
      /\ GSTSummary(k).intrastate_total = SumOf([b \in B |-> GSTRow(b).taxable])
  BY DEF GSTSummary, Sum
<1>5. /\ [b \in A |-> GSTRow(b).taxable] = On(f, A)
      /\ [b \in B |-> GSTRow(b).taxable] = On(f, B)
      /\ f = On(f, S)
  BY DEF On
<1>6. f \in [S -> Nat] /\ h \in [S -> Nat] /\ t \in [S -> Nat]
  BY GSTRows
<1>7. \A b \in S : f[b] + h[b] - t[b] \in -1..1
  BY GSTRows
<1> HIDE DEF S, f, h, t, A, B
<1>8. SumOf(f) + SumOf(h) - SumOf(t) \in -Cardinality(S)..Cardinality(S)
  BY <1>2, <1>6, <1>7, SumNear
<1>9. Add(f, A \cup B) = Add(f, A) + Add(f, B)
  BY <1>2, <1>3, <1>6, AddDisjoint
<1>10. SumOf(On(f, A)) + SumOf(On(f, B)) = SumOf(f)
  BY <1>3, <1>5, <1>9 DEF Add
<1> QED
  BY <1>1, <1>4, <1>5, <1>8, <1>10 DEF S

-----------------------------------------------------------------------------
\* The company's pages and those of its customers

LEMMA CustomersAddUp ==
  ASSUME RowsInv, NEW k
  PROVE  /\ Owed(Unpaid(k)) = SumOf([c \in CustomersOf(k) |-> ComputedOutstanding(c)])
         /\ Owed(Unpaid(k)) = SumOf([c \in CustomersOf(k) |-> CustomerPayments(c).outstanding])
         /\ Owed(Before(Unpaid(k), today))
              = SumOf([c \in CustomersOf(k) |-> Owed(CriticalInvoices(c))])
<1> DEFINE C == CustomersOf(k)
           U == Unpaid(k)
           h1 == [c \in C |-> ComputedOutstanding(c)]
           h2 == [c \in C |-> CustomerPayments(c).outstanding]
           h3 == [c \in C |-> Owed(CriticalInvoices(c))]
<1>1. \A c \in C : HomeOf[c] = k
  BY DEF CustomersOf
<1>2. U \in SUBSET U /\ Before(U, today) \in SUBSET U
  BY BilledDue
<1>3. \A c \in C : h1[c] = Owed(Billed(U, c))
  BY <1>1 DEF ComputedOutstanding
<1>4. \A c \in C : h2[c] = Owed(Billed(U, c))
  BY <1>1 DEF CustomerPayments
<1>5. \A c \in C : h3[c] = Owed(Billed(Before(U, today), c))
  <2> SUFFICES ASSUME NEW c \in C
               PROVE  h3[c] = Owed(Billed(Before(U, today), c))
    OBVIOUS
  <2>1. CriticalInvoices(c) = Before(Billed(U, c), today)
    BY <1>1 DEF CriticalInvoices
  <2>2. Before(Billed(U, c), today) = Billed(Before(U, today), c)
    BY DEF Billed, Before, Due
  <2> QED
    BY <2>1, <2>2
<1>6. /\ h1 = [c \in C |-> h1[c]] /\ h2 = [c \in C |-> h2[c]] /\ h3 = [c \in C |-> h3[c]]
  OBVIOUS
<1> HIDE DEF h1, h2, h3
<1>7. Owed(U) = SumOf(h1)
  BY <1>2, <1>3, <1>6, OwedByCustomer
<1>8. Owed(U) = SumOf(h2)
  BY <1>2, <1>4, <1>6, OwedByCustomer
<1>9. Owed(Before(U, today)) = SumOf(h3)
  BY <1>2, <1>5, <1>6, OwedByCustomer
<1> QED
  BY <1>7, <1>8, <1>9 DEF h1, h2, h3

LEMMA BucketsAddUp ==
  ASSUME RowsInv, NEW k
  PROVE  LET bucket(f) == SumOf([c \in CustomersOf(k) |-> CustomerSummary(c).outstanding[f]])
         IN /\ bucket("days_0_30") = Owed(Due(Unpaid(k), today - 30, today))
            /\ bucket("days_31_60") = Owed(Due(Unpaid(k), today - 60, today - 31))
            /\ bucket("days_60_plus") = Owed(Before(Unpaid(k), today - 60))
            /\ bucket("total_outstanding") = Owed(Due(Unpaid(k), 0, today))
<1> DEFINE C == CustomersOf(k)
           U == Unpaid(k)
           h(f) == [c \in C |-> CustomerSummary(c).outstanding[f]]
<1>1. ASSUME NEW S \in SUBSET U, NEW f,
             \A c \in C : CustomerSummary(c).outstanding[f] = Owed(Billed(S, c))
      PROVE  SumOf(h(f)) = Owed(S)
  <2>1. \A c \in C : h(f)[c] = Owed(Billed(S, c))
    BY <1>1
  <2>2. h(f) = [c \in C |-> h(f)[c]]
    OBVIOUS
  <2> HIDE DEF h
  <2> QED
    BY <2>1, <2>2, OwedByCustomer
<1>2. /\ Due(U, today - 30, today) \in SUBSET U
      /\ Due(U, today - 60, today - 31) \in SUBSET U
      /\ Before(U, today - 60) \in SUBSET U
      /\ Due(U, 0, today) \in SUBSET U
  BY DEF Due, Before
<1>3. \A c \in C :
        CustomerSummary(c).outstanding =
          [days_0_30         |-> Owed(Billed(Due(U, today - 30, today), c)),
           days_31_60        |-> Owed(Billed(Due(U, today - 60, today - 31), c)),
           days_60_plus      |-> Owed(Billed(Before(U, today - 60), c)),
           total_outstanding |-> Owed(Billed(Due(U, 0, today), c))]
  BY AgingRows
<1> HIDE DEF C, U
<1>4. \A c \in C :
        /\ CustomerSummary(c).outstanding["days_0_30"] = Owed(Billed(Due(U, today - 30, today), c))
        /\ CustomerSummary(c).outstanding["days_31_60"]
             = Owed(Billed(Due(U, today - 60, today - 31), c))
        /\ CustomerSummary(c).outstanding["days_60_plus"] = Owed(Billed(Before(U, today - 60), c))
        /\ CustomerSummary(c).outstanding["total_outstanding"] = Owed(Billed(Due(U, 0, today), c))
  <2> SUFFICES ASSUME NEW c \in C
               PROVE  LET r == CustomerSummary(c).outstanding
                      IN /\ r["days_0_30"] = Owed(Billed(Due(U, today - 30, today), c))
                         /\ r["days_31_60"] = Owed(Billed(Due(U, today - 60, today - 31), c))
                         /\ r["days_60_plus"] = Owed(Billed(Before(U, today - 60), c))
                         /\ r["total_outstanding"] = Owed(Billed(Due(U, 0, today), c))
    OBVIOUS
  <2> DEFINE r == CustomerSummary(c).outstanding
  <2>1. r = [days_0_30         |-> Owed(Billed(Due(U, today - 30, today), c)),
             days_31_60        |-> Owed(Billed(Due(U, today - 60, today - 31), c)),
             days_60_plus      |-> Owed(Billed(Before(U, today - 60), c)),
             total_outstanding |-> Owed(Billed(Due(U, 0, today), c))]
    BY <1>3
  <2> HIDE DEF r
  <2>2. /\ r["days_0_30"] = Owed(Billed(Due(U, today - 30, today), c))
        /\ r["days_31_60"] = Owed(Billed(Due(U, today - 60, today - 31), c))
        /\ r["days_60_plus"] = Owed(Billed(Before(U, today - 60), c))
        /\ r["total_outstanding"] = Owed(Billed(Due(U, 0, today), c))
    BY <2>1
  <2> QED
    BY <2>2 DEF r
<1>5. /\ SumOf(h("days_0_30")) = Owed(Due(U, today - 30, today))
      /\ SumOf(h("days_31_60")) = Owed(Due(U, today - 60, today - 31))
      /\ SumOf(h("days_60_plus")) = Owed(Before(U, today - 60))
      /\ SumOf(h("total_outstanding")) = Owed(Due(U, 0, today))
  <2> HIDE DEF h
  <2> QED
    BY <1>1, <1>2, <1>4
<1> QED
  BY <1>5 DEF h, C, U

\* Overdue invoices that their list leaves out are paid in part.
LEMMA OverdueLeftOut ==
  ASSUME RowsInv, NEW k
  PROVE  /\ OverdueList(k) \subseteq Before(Unpaid(k), today)
         /\ \A b \in Before(Unpaid(k), today) \ OverdueList(k) : bill[b].paid > 0
<1>1. OverdueList(k) \subseteq Before(Unpaid(k), today)
  BY DEF OverdueList, Before, Due
<1>2. ASSUME NEW b \in Before(Unpaid(k), today), b \notin OverdueList(k)
      PROVE  bill[b].paid > 0
  <2>1. b \in Unpaid(k)
    BY BilledDue
  <2>2. bill[b].status = "partial"
    BY <1>2, <2>1, UnpaidRows DEF OverdueList, Before, Due
  <2> QED
    BY <2>1, <2>2, UnpaidRows DEF Sound
<1> QED
  BY <1>1, <1>2

LEMMA DebtsFollow == RowsInv => DebtsAgree
<1> SUFFICES ASSUME RowsInv, NEW k \in Companies
             PROVE  LET d == Dashboard(k)
                        an == Analytics(k)
                        bucket(f) == OfCustomers(k, LAMBDA c : CustomerSummary(c).outstanding[f])
                        outstanding(c) == CustomerPayments(c).outstanding
                        critical(c) == Owed(CriticalInvoices(c))
                        notDue == Owed(Unpaid(k) \ Due(Unpaid(k), 0, today))
                        gst == GSTSummary(k)
                    IN /\ d.outstanding_total = BusinessStats(k).outstanding_total
                       /\ d.outstanding_total = OverviewOutstanding(k)
                       /\ d.outstanding_total = OfCustomers(k, ComputedOutstanding)
                       /\ d.outstanding_total = OfCustomers(k, outstanding)
                       /\ d.outstanding_total
                            = an.current + an.days_31_60 + an.days_61_90 + an.days_90_plus
                       /\ d.outstanding_total = bucket("total_outstanding") + notDue
                       /\ d.overdue_total = BusinessStats(k).overdue_total
                       /\ d.overdue_total = OfCustomers(k, critical)
                       /\ \A f \in {"days_0_30", "days_31_60", "days_60_plus"} : d[f] = bucket(f)
                       /\ d.days_31_60 = an.days_31_60
                       /\ d.days_60_plus = an.days_61_90 + an.days_90_plus
                       /\ BusinessStats(k).overdue_customers =
                            Cardinality({c \in Customers :
                              HomeOf[c] = k /\ CustomerPayments(c).days_overdue > 0})
                       /\ Sum(Agents, LAMBDA a : AgentCredit(a, k)) <= d.outstanding_total
                       /\ \A a \in Agents :
                            AgentOverview(a, k).credit_utilized > 0 => AgentOverview(a, k).pending_invoices > 0
                       /\ OverdueList(k) \subseteq Before(Unpaid(k), today)
                       /\ \A b \in Before(Unpaid(k), today) \ OverdueList(k) : bill[b].paid > 0
                       /\ Unpaid(k) \subseteq GSTInvoices(k)
                       /\ gst.interstate_total + gst.intrastate_total = gst.total_taxable
                       /\ gst.total_taxable + gst.total_tax - gst.total_amount
                            \in -gst.total_invoices..gst.total_invoices
  BY DEF DebtsAgree
<1> DEFINE U == Unpaid(k)
           C == CustomersOf(k)
           current == Due(U, today - 30, Ever) \cup {b \in U : bill[b].due = NoDate}
<1>1. /\ Dashboard(k).outstanding_total = Owed(U)
      /\ Dashboard(k).overdue_total = Owed(Before(U, today))
      /\ Dashboard(k).days_0_30 = Owed(Due(U, today - 30, today))
      /\ Dashboard(k).days_31_60 = Owed(Due(U, today - 60, today - 31))
      /\ Dashboard(k).days_60_plus = Owed(Before(U, today - 60))
      /\ Dashboard(k)["days_0_30"] = Owed(Due(U, today - 30, today))
      /\ Dashboard(k)["days_31_60"] = Owed(Due(U, today - 60, today - 31))
      /\ Dashboard(k)["days_60_plus"] = Owed(Before(U, today - 60))
  BY DEF Dashboard
<1>2. /\ BusinessStats(k).outstanding_total = Owed(U)
      /\ BusinessStats(k).overdue_total = Owed(Before(U, today))
      /\ BusinessStats(k).overdue_customers
           = Cardinality({bill[b].customer : b \in Before(U, today)})
  BY DEF BusinessStats
<1>3. /\ Analytics(k).current = Owed(current)
      /\ Analytics(k).days_31_60 = Owed(Due(U, today - 60, today - 31))
      /\ Analytics(k).days_61_90 = Owed(Due(U, today - 90, today - 61))
      /\ Analytics(k).days_90_plus = Owed(Before(U, today - 90))
  BY DEF Analytics
<1>4. OverviewOutstanding(k) = Owed(U)
  BY DEF OverviewOutstanding
<1>5. /\ OfCustomers(k, ComputedOutstanding) = SumOf([c \in C |-> ComputedOutstanding(c)])
      /\ OfCustomers(k, LAMBDA c : CustomerPayments(c).outstanding)
           = SumOf([c \in C |-> CustomerPayments(c).outstanding])
      /\ OfCustomers(k, LAMBDA c : Owed(CriticalInvoices(c)))
           = SumOf([c \in C |-> Owed(CriticalInvoices(c))])
      /\ Sum(Agents, LAMBDA a : AgentCredit(a, k)) = SumOf([a \in Agents |-> AgentCredit(a, k)])
  BY DEF OfCustomers, Sum, CustomersOf
<1>6. \A f : OfCustomers(k, LAMBDA c : CustomerSummary(c).outstanding[f])
               = SumOf([c \in C |-> CustomerSummary(c).outstanding[f]])
  BY DEF OfCustomers, Sum, CustomersOf
<1>7. /\ Owed(U) = SumOf([c \in C |-> ComputedOutstanding(c)])
      /\ Owed(U) = SumOf([c \in C |-> CustomerPayments(c).outstanding])
      /\ Owed(Before(U, today)) = SumOf([c \in C |-> Owed(CriticalInvoices(c))])
  BY CustomersAddUp
<1>8. LET bucket(f) == SumOf([c \in C |-> CustomerSummary(c).outstanding[f]])
      IN /\ bucket("days_0_30") = Owed(Due(U, today - 30, today))
         /\ bucket("days_31_60") = Owed(Due(U, today - 60, today - 31))
         /\ bucket("days_60_plus") = Owed(Before(U, today - 60))
         /\ bucket("total_outstanding") = Owed(Due(U, 0, today))
  BY BucketsAddUp
<1>9. /\ Owed(U) = Owed(current) + Owed(Due(U, today - 60, today - 31))
                     + Owed(Due(U, today - 90, today - 61)) + Owed(Before(U, today - 90))
      /\ Owed(Before(U, today - 60))
           = Owed(Due(U, today - 90, today - 61)) + Owed(Before(U, today - 90))
      /\ Owed(U) = Owed(Due(U, 0, today)) + Owed(U \ Due(U, 0, today))
  BY AgesAddUp
<1>10. {bill[b].customer : b \in Before(U, today)}
         = {c \in Customers : HomeOf[c] = k /\ CustomerPayments(c).days_overdue > 0}
  BY OverdueCustomers
<1>11. SumOf([a \in Agents |-> AgentCredit(a, k)]) <= Owed(U)
  BY AgentsOwe
<1> HIDE DEF U, C, current
<1> DEFINE bucket(f) == OfCustomers(k, LAMBDA c : CustomerSummary(c).outstanding[f])
           outstanding(c) == CustomerPayments(c).outstanding
           critical(c) == Owed(CriticalInvoices(c))
           owing(a) == AgentCredit(a, k)
<1>12. /\ OfCustomers(k, ComputedOutstanding) = Owed(U)
       /\ OfCustomers(k, outstanding) = Owed(U)
       /\ OfCustomers(k, critical) = Owed(Before(U, today))
       /\ Sum(Agents, owing) <= Owed(U)
  BY <1>5, <1>7, <1>11
<1>13. /\ bucket("days_0_30") = Owed(Due(U, today - 30, today))
       /\ bucket("days_31_60") = Owed(Due(U, today - 60, today - 31))
       /\ bucket("days_60_plus") = Owed(Before(U, today - 60))
       /\ bucket("total_outstanding") = Owed(Due(U, 0, today))
  BY <1>6, <1>8
<1>14. \A f \in {"days_0_30", "days_31_60", "days_60_plus"} : Dashboard(k)[f] = bucket(f)
  <2> HIDE DEF bucket
  <2> QED
    BY <1>1, <1>13
<1>15. /\ Dashboard(k).outstanding_total = OfCustomers(k, ComputedOutstanding)
       /\ Dashboard(k).outstanding_total = OfCustomers(k, outstanding)
       /\ Dashboard(k).overdue_total = OfCustomers(k, critical)
       /\ Sum(Agents, owing) <= Dashboard(k).outstanding_total
       /\ Dashboard(k).outstanding_total
            = bucket("total_outstanding") + Owed(U \ Due(U, 0, today))
  BY <1>1, <1>9, <1>12, <1>13
<1>16. /\ Dashboard(k).outstanding_total = BusinessStats(k).outstanding_total
       /\ Dashboard(k).outstanding_total = OverviewOutstanding(k)
       /\ Dashboard(k).outstanding_total
            = Analytics(k).current + Analytics(k).days_31_60 + Analytics(k).days_61_90
              + Analytics(k).days_90_plus
       /\ Dashboard(k).overdue_total = BusinessStats(k).overdue_total
       /\ Dashboard(k).days_31_60 = Analytics(k).days_31_60
       /\ Dashboard(k).days_60_plus = Analytics(k).days_61_90 + Analytics(k).days_90_plus
       /\ BusinessStats(k).overdue_customers =
            Cardinality({c \in Customers : HomeOf[c] = k /\ CustomerPayments(c).days_overdue > 0})
  BY <1>1, <1>2, <1>3, <1>4, <1>9, <1>10
<1> QED
  BY <1>14, <1>15, <1>16, AgentPending, OverdueLeftOut, GSTAgrees DEF U

-----------------------------------------------------------------------------
\* What is sold

LEMMA OrderRows ==
  ASSUME RowsInv, NEW k
  PROVE  /\ OrdersOf(k) \in SUBSET Orders
         /\ \A o \in OrdersOf(k) : /\ order[o] \in OrderRow /\ order[o].status \in OrderStatus
                                   /\ order[o].customer \in CustomersOf(k)
                                   /\ order[o].agent \in Agents \cup {NoAgent}
                                   /\ order[o].submitted \in Days \cup {NoDate}
                                   /\ order[o].created \in Days
<1> SUFFICES ASSUME NEW o \in OrdersOf(k)
             PROVE  /\ o \in Orders /\ order[o] \in OrderRow /\ order[o].status \in OrderStatus
                    /\ order[o].customer \in CustomersOf(k)
                    /\ order[o].agent \in Agents \cup {NoAgent}
                    /\ order[o].submitted \in Days \cup {NoDate}
                    /\ order[o].created \in Days
  OBVIOUS
<1>1. o \in Orders /\ order[o] # NoRow /\ HomeOf[order[o].customer] = k
  BY DEF OrdersOf, Placed
<1>2. order[o] \in OrderRow
  BY <1>1 DEF RowsInv, RowsOK
<1> QED
  BY <1>1, <1>2 DEF OrderRow, CustomersOf

LEMMA StatusesFinite ==
  /\ IsFiniteSet(OrderStatus)
  /\ IsFiniteSet({"submitted", "confirmed", "processing", "packed"})
<1> DEFINE open == ((({"submitted"} \cup {"confirmed"}) \cup {"processing"}) \cup {"packed"})
           all == (((open \cup {"draft"}) \cup {"dispatched"}) \cup {"delivered"}) \cup {"cancelled"}
<1>1. open = {"submitted", "confirmed", "processing", "packed"} /\ all = OrderStatus
  BY DEF OrderStatus
<1>2. IsFiniteSet({"submitted"})
  BY FS_Singleton
<1>3. IsFiniteSet(open)
  BY <1>2, FS_AddElement
<1> HIDE DEF open
<1>4. IsFiniteSet(all)
  BY <1>3, FS_AddElement
<1> QED
  BY <1>1, <1>3, <1>4

LEMMA SalesParts ==
  ASSUME NEW A \in SUBSET Orders, NEW B \in SUBSET Orders, A \cap B = {}
  PROVE  /\ Sales(A \cup B) = Sales(A) + Sales(B)
         /\ Cardinality(A \cup B) = Cardinality(A) + Cardinality(B)
<1>1. A \cup B \in SUBSET Orders
  OBVIOUS
<1>2. Sales(A \cup B) = Sales(A) + Sales(B)
  BY <1>1, WorthType, BillsFinite, AddDisjoint
<1>3. /\ IsFiniteSet(A) /\ IsFiniteSet(B)
      /\ Cardinality(A) \in Nat /\ Cardinality(B) \in Nat
  BY WorthType
<1>4. Cardinality(A \cup B) = Cardinality(A) + Cardinality(B) - Cardinality(A \cap B)
  BY <1>3, FS_Union
<1>5. Cardinality(A \cap B) = 0
  BY FS_EmptySet
<1> QED
  BY <1>2, <1>3, <1>4, <1>5

LEMMA SalesFewer ==
  ASSUME NEW B \in SUBSET Orders, NEW A \in SUBSET B
  PROVE  /\ Sales(A) <= Sales(B) /\ Cardinality(A) <= Cardinality(B)
         /\ Sales(A) \in Nat /\ Sales(B) \in Nat
<1>1. A \in SUBSET Orders
  OBVIOUS
<1> QED
  BY <1>1, WorthType, BillsFinite, AddFewer

\* Orders sorted into the groups A by g.
LEMMA SalesGroups ==
  ASSUME NEW S \in SUBSET Orders, NEW A, IsFiniteSet(A), NEW g, \A o \in S : g[o] \in A,
         NEW h, h = [a \in A |-> h[a]], \A a \in A : h[a] = Sales(Group(S, g, a))
  PROVE  Sales(S) = SumOf(h)
<1>1. Add(Worth, S) = SumOf(SumsOf(Worth, S, A, g))
  BY WorthType, BillsFinite, AddGroups
<1>2. \A a : Group(S, g, a) \in SUBSET Orders
  BY DEF Group
<1>3. \A a \in A : h[a] = Add(Worth, Group(S, g, a))
  BY <1>2, WorthType
<1>4. SumsOf(Worth, S, A, g) = h
  BY <1>3 DEF SumsOf
<1> QED
  BY <1>1, <1>4, WorthType

LEMMA OrderGroups ==
  ASSUME NEW S \in SUBSET Orders, NEW A, IsFiniteSet(A), NEW g, \A o \in S : g[o] \in A,
         NEW h, h = [a \in A |-> h[a]], \A a \in A : h[a] = Cardinality(Group(S, g, a))
  PROVE  Cardinality(S) = SumOf(h)
<1>1. IsFiniteSet(S)
  BY WorthType
<1>2. Cardinality(S) = SumOf(CountsOf(S, A, g))
  BY <1>1, CountSorted
<1>3. CountsOf(S, A, g) = h
  BY DEF CountsOf
<1> QED
  BY <1>2, <1>3

\* By customer, by agent and by status.
LEMMA SortedOrders ==
  ASSUME RowsInv, NEW k, NEW S \in SUBSET OrdersOf(k)
  PROVE  /\ \A h : h = [c \in CustomersOf(k) |-> h[c]]
                   /\ (\A c \in CustomersOf(k) : h[c] = Sales(From(S, c))) => Sales(S) = SumOf(h)
         /\ \A h : h = [c \in CustomersOf(k) |-> h[c]]
                   /\ (\A c \in CustomersOf(k) : h[c] = Cardinality(From(S, c)))
                     => Cardinality(S) = SumOf(h)
         /\ \A h : h = [a \in Agents \cup {NoAgent} |-> h[a]]
                   /\ (\A a \in Agents \cup {NoAgent} : h[a] = Sales(By(S, a))) => Sales(S) = SumOf(h)
<1> DEFINE C == CustomersOf(k)
           A == Agents \cup {NoAgent}
           customer == [o \in S |-> order[o].customer]
           agent == [o \in S |-> order[o].agent]
<1>1. S \in SUBSET Orders
  BY OrderRows
<1>2. IsFiniteSet(C) /\ IsFiniteSet(A)
  <2>1. IsFiniteSet(C)
    BY SetsAssumption, FS_Subset DEF CustomersOf
  <2>2. IsFiniteSet(A)
    BY SetsAssumption, FS_AddElement
  <2> QED
    BY <2>1, <2>2
<1>3. /\ \A o \in S : customer[o] \in C
      /\ \A o \in S : agent[o] \in A
  BY OrderRows
<1>4. /\ \A c : Group(S, customer, c) = From(S, c)
      /\ \A a : Group(S, agent, a) = By(S, a)
  BY DEF Group, From, By
<1> HIDE DEF customer, agent, C, A
<1>5. ASSUME NEW h, h = [c \in C |-> h[c]], \A c \in C : h[c] = Sales(From(S, c))
      PROVE  Sales(S) = SumOf(h)
  <2>1. \A c \in C : h[c] = Sales(Group(S, customer, c))
    BY <1>4, <1>5
  <2> QED
    BY <1>1, <1>2, <1>3, <1>5, <2>1, SalesGroups
<1>6. ASSUME NEW h, h = [c \in C |-> h[c]], \A c \in C : h[c] = Cardinality(From(S, c))
      PROVE  Cardinality(S) = SumOf(h)
  <2>1. \A c \in C : h[c] = Cardinality(Group(S, customer, c))
    BY <1>4, <1>6
  <2> QED
    BY <1>1, <1>2, <1>3, <1>6, <2>1, OrderGroups
<1>7. ASSUME NEW h, h = [a \in A |-> h[a]], \A a \in A : h[a] = Sales(By(S, a))
      PROVE  Sales(S) = SumOf(h)
  <2>1. \A a \in A : h[a] = Sales(Group(S, agent, a))
    BY <1>4, <1>7
  <2> QED
    BY <1>1, <1>2, <1>3, <1>7, <2>1, SalesGroups
<1> QED
  BY <1>5, <1>6, <1>7 DEF C, A

\* Orders of the statuses A, status by status.
LEMMA StatusGroups ==
  ASSUME RowsInv, NEW k, NEW S \in SUBSET OrdersOf(k), NEW A, IsFiniteSet(A),
         \A o \in S : order[o].status \in A,
         NEW h, h = [s \in A |-> h[s]], \A s \in A : h[s] = Cardinality(With(S, {s}))
  PROVE  Cardinality(S) = SumOf(h)
<1> DEFINE g == [o \in S |-> order[o].status]
<1>1. S \in SUBSET Orders /\ \A o \in S : g[o] \in A
  BY OrderRows
<1>2. \A s \in A : Group(S, g, s) = With(S, {s})
  BY DEF Group, With
<1> HIDE DEF g
<1>3. \A s \in A : h[s] = Cardinality(Group(S, g, s))
  BY <1>2
<1> QED
  BY <1>1, <1>3, OrderGroups

\* What the sales report selects: without bounds, and of a day.
LEMMA ReportRows ==
  ASSUME RowsInv, NEW k
  PROVE  LET R == SalesReport(k, NoDate, NoDate)
         IN /\ R = With(OrdersOf(k), SalesStatuses)
            /\ R \in SUBSET OrdersOf(k)
            /\ \A d \in Days : SalesReport(k, d, d) = {o \in R : order[o].submitted = d}
            /\ \A d, e \in Days : SalesReport(k, d, e)
                 = {o \in Submitted(R) : d <= order[o].submitted /\ order[o].submitted <= e}
<1> DEFINE R == SalesReport(k, NoDate, NoDate)
<1>1. R = With(OrdersOf(k), SalesStatuses)
  BY DEF SalesReport
<1>2. R \in SUBSET OrdersOf(k)
  BY <1>1 DEF With
<1>3. \A o \in R : order[o].submitted # NoDate => order[o].submitted \in Nat
  BY <1>2, OrderRows, DaysAssumption
<1>4. \A d \in Days : d \in Nat /\ d # NoDate
  BY DaysAssumption, NullsAssumption
<1>5. \A d, e \in Days : SalesReport(k, d, e) = Until(Since(R, d), e)
  BY <1>1, <1>4 DEF SalesReport
<1> HIDE DEF R
<1>6. \A d, e \in Days : Until(Since(R, d), e)
        = {o \in Submitted(R) : d <= order[o].submitted /\ order[o].submitted <= e}
  BY <1>3, <1>4 DEF Until, Since, Submitted
<1>7. \A d \in Days : SalesReport(k, d, d) = {o \in R : order[o].submitted = d}
  <2> SUFFICES ASSUME NEW d \in Days
               PROVE  SalesReport(k, d, d) = {o \in R : order[o].submitted = d}
    OBVIOUS
  <2>1. \A o \in R : order[o].submitted # NoDate /\ d <= order[o].submitted
                       /\ order[o].submitted <= d <=> order[o].submitted = d
    BY <1>3, <1>4
  <2> QED
    BY <1>5, <1>6, <2>1 DEF Submitted
<1> QED
  BY <1>1, <1>2, <1>5, <1>6, <1>7 DEF R

\* Day by day, and what was never submitted.
LEMMA ReportDays ==
  ASSUME RowsInv, NEW k
  PROVE  LET R == SalesReport(k, NoDate, NoDate)
         IN Sales(R) = SumOf([d \in Days |-> Sales(SalesReport(k, d, d))])
                         + Sales(R \ Submitted(R))
<1> DEFINE R == SalesReport(k, NoDate, NoDate)
           S == Submitted(R)
           g == [o \in S |-> order[o].submitted]
           h == [d \in Days |-> Sales(SalesReport(k, d, d))]
<1>1. S \in SUBSET R /\ R \in SUBSET Orders
  BY ReportRows, OrderRows DEF Submitted
<1>2. \A o \in S : g[o] \in Days
  BY ReportRows, OrderRows DEF Submitted
<1>3. ASSUME NEW d \in Days
      PROVE  SalesReport(k, d, d) = Group(S, g, d)
  <2>1. SalesReport(k, d, d) = {o \in R : order[o].submitted = d}
    BY ReportRows
  <2>2. d # NoDate
    BY DaysAssumption, NullsAssumption
  <2> QED
    BY <2>1, <2>2 DEF Group, Submitted
<1>4. h = [d \in Days |-> h[d]]
  OBVIOUS
<1>5. \A d \in Days : h[d] = Sales(Group(S, g, d))
  BY <1>3
<1> HIDE DEF h, g, S
<1>6. Sales(S) = SumOf(h)
  BY <1>1, <1>2, <1>4, <1>5, DaysAssumption, SalesGroups
<1>7. Sales(S \cup (R \ S)) = Sales(S) + Sales(R \ S)
  <2>1. S \in SUBSET Orders /\ R \ S \in SUBSET Orders /\ S \cap (R \ S) = {}
    BY <1>1
  <2> QED
    BY ONLY <2>1, SalesParts
<1>8. S \cup (R \ S) = R
  BY <1>1
<1> QED
  BY <1>6, <1>7, <1>8 DEF S, h

\* Counted sales: what the report has and what is only submitted; with cancelled
\* orders, all but drafts; the open orders with the dispatched ones, all but the
\* delivered ones.
LEMMA LiveParts ==
  ASSUME RowsInv, NEW k
  PROVE  LET O == OrdersOf(k)
             open == {"submitted", "confirmed", "processing", "packed"}
         IN /\ Live(O) \in SUBSET O
            /\ Sales(Live(O)) = Sales(SalesReport(k, NoDate, NoDate)) + Sales(With(O, {"submitted"}))
            /\ Sales(With(O, OrderStatus \ {"draft"})) = Sales(Live(O)) + Sales(With(O, {"cancelled"}))
            /\ With(Live(O), open) = With(O, open)
            /\ Cardinality(With(O, open \cup {"dispatched"}))
                 = Cardinality(With(O, open)) + Cardinality(With(O, {"dispatched"}))
            /\ \A c : From(Live(O), c) \ With(From(Live(O), c), {"delivered"})
                        = From(With(O, open \cup {"dispatched"}), c)
<1> DEFINE O == OrdersOf(k)
           open == {"submitted", "confirmed", "processing", "packed"}
           R == SalesReport(k, NoDate, NoDate)
<1>1. \A s : With(O, s) \in SUBSET Orders
  BY OrderRows DEF With
<1>2. Live(O) = R \cup With(O, {"submitted"}) /\ R \cap With(O, {"submitted"}) = {}
  <2>1. R = With(O, SalesStatuses)
    BY ReportRows
  <2> QED
    BY <2>1 DEF Live, With, SalesStatuses, OrderStatus
<1>3. R \in SUBSET Orders
  BY ReportRows, OrderRows
<1>4. /\ With(O, OrderStatus \ {"draft"}) = Live(O) \cup With(O, {"cancelled"})
      /\ Live(O) \cap With(O, {"cancelled"}) = {}
      /\ Live(O) \in SUBSET O /\ Live(O) \in SUBSET Orders
  BY <1>1 DEF Live, With, OrderStatus
<1>5. With(Live(O), open) = With(O, open)
  BY DEF Live, With, OrderStatus
<1>6. /\ With(O, open \cup {"dispatched"}) = With(O, open) \cup With(O, {"dispatched"})
      /\ With(O, open) \cap With(O, {"dispatched"}) = {}
  BY DEF With
<1>7. \A c : From(Live(O), c) \ With(From(Live(O), c), {"delivered"})
               = From(With(O, open \cup {"dispatched"}), c)
  BY DEF From, Live, With, OrderStatus
<1> HIDE DEF O, open, R
<1>8. Sales(Live(O)) = Sales(R) + Sales(With(O, {"submitted"}))
  BY <1>1, <1>2, <1>3, SalesParts
<1>9. Sales(With(O, OrderStatus \ {"draft"})) = Sales(Live(O)) + Sales(With(O, {"cancelled"}))
  BY <1>1, <1>4, SalesParts
<1>10. Cardinality(With(O, open \cup {"dispatched"}))
         = Cardinality(With(O, open)) + Cardinality(With(O, {"dispatched"}))
  BY <1>1, <1>6, SalesParts
<1> QED
  BY <1>4, <1>5, <1>7, <1>8, <1>9, <1>10 DEF O, open, R


\* An agent's orders of today, on two pages.
LEMMA HomeRows ==
  ASSUME RowsInv, NEW k, NEW e \in TopAgents(k), CarriedOver(k, e.agent) = {}
  PROVE  /\ HomeSummary(e.agent, k).sales_today >= e.payment
         /\ HomeSummary(e.agent, k).orders_today >= e.orders
<1> DEFINE O == OrdersOf(k)
           day == {o \in Submitted(O) : order[o].submitted = today}
<1>1. PICK a \in Agents : e = [agent |-> a, orders |-> Cardinality(By(day, a)), payment |-> Sales(By(day, a))]
  BY DEF TopAgents
<1> DEFINE counted == {o \in By(Live(O), a) : order[o].created = today}
<1>2. /\ HomeSummary(a, k).sales_today = Sales(counted)
      /\ HomeSummary(a, k).orders_today = Cardinality(counted)
  BY DEF HomeSummary
<1>3. e.agent = a /\ e.orders = Cardinality(By(day, a)) /\ e.payment = Sales(By(day, a))
  BY <1>1
<1>4. counted \in SUBSET Orders
  BY OrderRows DEF By, Live, With
<1>5. By(day, a) \in SUBSET counted
  <2> SUFFICES ASSUME NEW o \in By(day, a)
               PROVE  o \in counted
    OBVIOUS
  <2>1. o \in O /\ order[o].agent = a /\ order[o].submitted = today /\ o \in Submitted(O)
    BY DEF By, Submitted
  <2>2. o \notin CarriedOver(k, a) /\ o \in By(Submitted(O), a)
    BY <1>3, <2>1 DEF By
  <2>3. order[o].created = today /\ order[o].status \notin {"draft", "cancelled"}
    BY <2>1, <2>2 DEF CarriedOver
  <2>4. order[o].status \in OrderStatus
    BY <2>1, OrderRows
  <2> QED
    BY <2>1, <2>3, <2>4 DEF By, Live, With
<1> HIDE DEF counted, day
<1>6. /\ Sales(By(day, a)) <= Sales(counted) /\ Cardinality(By(day, a)) <= Cardinality(counted)
      /\ Sales(By(day, a)) \in Nat /\ Sales(counted) \in Nat
      /\ Cardinality(By(day, a)) \in Nat /\ Cardinality(counted) \in Nat
  <2>1. By(day, a) \in SUBSET Orders
    BY <1>4, <1>5
  <2> QED
    BY <1>4, <1>5, <2>1, SalesFewer, WorthType
<1> QED
  BY <1>2, <1>3, <1>6

\* The agents that a page for the month has, and what it shows of each.
LEMMA LeaderRows ==
  ASSUME NEW k, NEW e \in Leaderboard(k)
  PROVE  LET month == Since(OrdersOf(k), MonthStart(today))
         IN /\ e.agent \in Members[k] /\ By(month, e.agent) # {}
            /\ e.ranks = Places(month, e.agent)
            /\ e.sales = Sales(By(month, e.agent))
            /\ e.orders = Cardinality(By(month, e.agent))
<1> DEFINE month == Since(OrdersOf(k), MonthStart(today))
<1>1. PICK a \in Members[k] :
        /\ By(month, a) # {}
        /\ e = [agent |-> a, ranks |-> Places(month, a), sales |-> Sales(By(month, a)),
                orders |-> Cardinality(By(month, a))]
  BY DEF Leaderboard
<1> HIDE DEF month
<1> QED
  BY <1>1 DEF month

\* A sales report of the month has no more of an agent than the leaderboard.
LEMMA LeadersSell ==
  ASSUME RowsInv, NEW k, NEW e \in Leaderboard(k)
  PROVE  e.sales >= AgentRow(k, e.agent, MonthStart(today), today)
<1> DEFINE month == Since(OrdersOf(k), MonthStart(today))
           report == SalesReport(k, MonthStart(today), today)
<1>1. e.sales = Sales(By(month, e.agent))
  BY LeaderRows
<1>2. MonthStart(today) \in Nat /\ MonthStart(today) # NoDate
  BY DaysAssumption, NullsAssumption DEF RowsInv, RowsOK
<1>3. report \in SUBSET month
  BY <1>2 DEF SalesReport, Since, Until, Submitted, With
<1>4. By(report, e.agent) \in SUBSET By(month, e.agent) /\ By(month, e.agent) \in SUBSET Orders
  BY <1>3, OrderRows DEF By, Since, Submitted
<1> HIDE DEF month, report
<1>5. /\ Sales(By(report, e.agent)) <= Sales(By(month, e.agent))
      /\ Sales(By(report, e.agent)) \in Nat /\ Sales(By(month, e.agent)) \in Nat
  BY <1>4, SalesFewer
<1> QED
  BY <1>1, <1>5 DEF AgentRow, report

\* What the pages show of orders, added up over customers, agents and statuses.
LEMMA SalesAddUp ==
  ASSUME RowsInv, NEW k
  PROVE  LET O == OrdersOf(k)
             open == {"submitted", "confirmed", "processing", "packed"}
             R == SalesReport(k, NoDate, NoDate)
             A == Agents \cup {NoAgent}
         IN /\ Sales(Live(O)) = SumOf([c \in CustomersOf(k) |-> CustomerOrders(c).lifetime_value])
            /\ Cardinality(With(O, open \cup {"dispatched"}))
                 = SumOf([c \in CustomersOf(k) |-> CustomerOrders(c).pending_orders])
            /\ Sales(Live(O)) = SumOf([a \in A |-> Sales(By(Live(OrdersOf(k)), a))])
            /\ Sales(R) = SumOf([a \in A |-> AgentRow(k, a, NoDate, NoDate)])
            /\ Cardinality(With(O, open)) = SumOf([s \in open |-> Cardinality(With(O, {s}))])
            /\ Cardinality(OrderList(k))
                 = SumOf([s \in OrderStatus |-> Cardinality(With(OrderList(k), {s}))])
<1> DEFINE O == OrdersOf(k)
           C == CustomersOf(k)
           open == {"submitted", "confirmed", "processing", "packed"}
           R == SalesReport(k, NoDate, NoDate)
           A == Agents \cup {NoAgent}
           P == With(O, open \cup {"dispatched"})
           h1 == [c \in C |-> CustomerOrders(c).lifetime_value]
           h2 == [c \in C |-> CustomerOrders(c).pending_orders]
           h3 == [a \in A |-> Sales(By(Live(OrdersOf(k)), a))]
           h4 == [a \in A |-> AgentRow(k, a, NoDate, NoDate)]
           h5 == [s \in open |-> Cardinality(With(O, {s}))]
           L == OrderList(k)
           h6 == [s \in OrderStatus |-> Cardinality(With(L, {s}))]
<1>1. Live(O) \in SUBSET O /\ R \in SUBSET O /\ P \in SUBSET O
  BY LiveParts, ReportRows DEF With
<1>2. /\ h1 = [c \in C |-> h1[c]] /\ h2 = [c \in C |-> h2[c]]
      /\ h3 = [a \in A |-> h3[a]] /\ h4 = [a \in A |-> h4[a]]
      /\ h5 = [s \in open |-> h5[s]] /\ h6 = [s \in OrderStatus |-> h6[s]]
  OBVIOUS
<1>3. \A c \in C : HomeOf[c] = k
  BY DEF CustomersOf
<1>4. \A c \in C : h1[c] = Sales(From(Live(O), c))
  BY <1>3 DEF CustomerOrders
<1>5. \A c \in C : h2[c] = Cardinality(From(P, c))
  <2> SUFFICES ASSUME NEW c \in C
               PROVE  h2[c] = Cardinality(From(P, c))
    OBVIOUS
  <2>1. h2[c] = Cardinality(From(Live(O), c) \ With(From(Live(O), c), {"delivered"}))
    BY <1>3 DEF CustomerOrders
  <2>2. From(Live(O), c) \ With(From(Live(O), c), {"delivered"}) = From(P, c)
    BY LiveParts
  <2> QED
    BY <2>1, <2>2
<1>6. \A a \in A : h3[a] = Sales(By(Live(O), a)) /\ h4[a] = Sales(By(R, a))
  BY DEF AgentRow
<1>7. /\ \A s \in open : h5[s] = Cardinality(With(With(O, open), {s}))
      /\ \A s \in OrderStatus : h6[s] = Cardinality(With(L, {s}))
  <2>1. \A s \in open : With(With(O, open), {s}) = With(O, {s})
    BY DEF With
  <2> HIDE DEF open
  <2> QED
    BY <2>1
<1>8. /\ With(O, open) \in SUBSET O /\ \A o \in With(O, open) : order[o].status \in open
      /\ L \in SUBSET O /\ \A o \in L : order[o].status \in OrderStatus
      /\ IsFiniteSet(open) /\ IsFiniteSet(OrderStatus)
  BY StatusesFinite DEF With, OrderList
<1> HIDE DEF h1, h2, h3, h4, h5, h6, P, R, C, A, open, O, L
<1>9. Sales(Live(O)) = SumOf(h1)
  <2>1. \A h : h = [c \in C |-> h[c]] /\ (\A c \in C : h[c] = Sales(From(Live(O), c)))
                 => Sales(Live(O)) = SumOf(h)
    BY <1>1, SortedOrders DEF C, O
  <2> QED
    BY <1>2, <1>4, <2>1
<1>10. Cardinality(P) = SumOf(h2)
  <2>1. \A h : h = [c \in C |-> h[c]] /\ (\A c \in C : h[c] = Cardinality(From(P, c)))
                 => Cardinality(P) = SumOf(h)
    BY <1>1, SortedOrders DEF C, O
  <2> QED
    BY <1>2, <1>5, <2>1
<1>11. Sales(Live(O)) = SumOf(h3) /\ Sales(R) = SumOf(h4)
  <2>1. \A S \in SUBSET O : \A h :
          h = [a \in A |-> h[a]] /\ (\A a \in A : h[a] = Sales(By(S, a))) => Sales(S) = SumOf(h)
    BY SortedOrders DEF A, O
  <2> QED
    BY <1>1, <1>2, <1>6, <2>1
<1>12. Cardinality(With(O, open)) = SumOf(h5)
  BY <1>2, <1>7, <1>8, StatusGroups DEF O
<1>13. Cardinality(L) = SumOf(h6)
  BY <1>2, <1>7, <1>8, StatusGroups DEF O
<1> QED
  BY <1>9, <1>10, <1>11, <1>12, <1>13 DEF h1, h2, h3, h4, h5, h6, P, R, C, A, open, O, L

LEMMA SalesFollow == RowsInv => SalesAgree
<1> SUFFICES ASSUME RowsInv, NEW k \in Companies
             PROVE  LET d == Dashboard(k)
                        summary == OrderSummary(k)
                        kanban == Kanban(k)
                        report == SalesReport(k, NoDate, NoDate)
                        lifetime(c) == CustomerOrders(c).lifetime_value
                        pending(c) == CustomerOrders(c).pending_orders
                        ofDay(day) == Sales(SalesReport(k, day, day))
                        row(a) == AgentRow(k, a, NoDate, NoDate)
                        live(a) == Sales(By(Live(OrdersOf(k)), a))
                    IN /\ d.sales_total = OfCustomers(k, lifetime)
                       /\ d.sales_total = OfAgents(live)
                       /\ d.sales_total = Sales(report) + Sales(With(OrdersOf(k), {"submitted"}))
                       /\ d.orders_pending + summary.status_breakdown["dispatched"]
                            = OfCustomers(k, pending)
                       /\ d.orders_pending
                            = Sum(DOMAIN kanban, LAMBDA s : Cardinality(kanban[s]))
                       /\ summary.total_orders
                            = Sum(OrderStatus, LAMBDA s : summary.status_breakdown[s])
                       /\ summary.total_orders = Cardinality(OrderList(k))
                       /\ summary.total_order_value
                            = d.sales_total + Sales(With(OrdersOf(k), {"cancelled"}))
                       /\ AgentSummary(k, NoDate, NoDate).total_sales = OfAgents(row)
                       /\ Sales(report) = Sum(Days, ofDay) + Sales(report \ Submitted(report))
                       /\ \A e \in Leaderboard(k) :
                            e.sales >= AgentRow(k, e.agent, MonthStart(today), today)
                       /\ \A e \in TopAgents(k) : CarriedOver(k, e.agent) = {} =>
                            /\ HomeSummary(e.agent, k).sales_today >= e.payment
                            /\ HomeSummary(e.agent, k).orders_today >= e.orders
  BY DEF SalesAgree
<1> DEFINE O == OrdersOf(k)
           C == CustomersOf(k)
           open == {"submitted", "confirmed", "processing", "packed"}
           L == OrderList(k)
           R == SalesReport(k, NoDate, NoDate)
           A == Agents \cup {NoAgent}
           lifetime(c) == CustomerOrders(c).lifetime_value
           pending(c) == CustomerOrders(c).pending_orders
           ofDay(day) == Sales(SalesReport(k, day, day))
           row(a) == AgentRow(k, a, NoDate, NoDate)
           live(a) == Sales(By(Live(OrdersOf(k)), a))
           shown(s) == Cardinality(Kanban(k)[s])
           counted(s) == OrderSummary(k).status_breakdown[s]
<1>1. /\ OfCustomers(k, lifetime) = SumOf([c \in C |-> CustomerOrders(c).lifetime_value])
      /\ OfCustomers(k, pending) = SumOf([c \in C |-> CustomerOrders(c).pending_orders])
      /\ OfAgents(live) = SumOf([a \in A |-> Sales(By(Live(OrdersOf(k)), a))])
      /\ OfAgents(row) = SumOf([a \in A |-> AgentRow(k, a, NoDate, NoDate)])
      /\ Sum(Days, ofDay) = SumOf([d \in Days |-> Sales(SalesReport(k, d, d))])
  BY DEF OfCustomers, OfAgents, Sum, CustomersOf
<1>2. Sum(DOMAIN Kanban(k), shown) = SumOf([s \in open |-> Cardinality(With(O, {s}))])
  <2>1. DOMAIN Kanban(k) = open /\ \A s \in open : Kanban(k)[s] = With(O, {s})
    BY DEF Kanban
  <2>2. [s \in DOMAIN Kanban(k) |-> shown(s)] = [s \in open |-> Cardinality(With(O, {s}))]
    BY <2>1
  <2> QED
    BY <2>2 DEF Sum
<1>3. Sum(OrderStatus, counted) = SumOf([s \in OrderStatus |-> Cardinality(With(L, {s}))])
  <2>1. \A s \in OrderStatus : counted(s) = Cardinality(With(L, {s}))
    BY DEF OrderSummary, OrderList
  <2>2. [s \in OrderStatus |-> counted(s)] = [s \in OrderStatus |-> Cardinality(With(L, {s}))]
    BY <2>1
  <2> QED
    BY <2>2 DEF Sum
<1>4. /\ Dashboard(k).sales_total = Sales(Live(O))
      /\ Dashboard(k).orders_pending = Cardinality(With(Live(O), open))
      /\ OrderSummary(k).total_orders = Cardinality(L)
      /\ OrderSummary(k).total_order_value = Sales(L)
      /\ counted("dispatched") = Cardinality(With(O, {"dispatched"}))
      /\ AgentSummary(k, NoDate, NoDate).total_sales = Sales(R)
  <2>1. counted("dispatched") = Cardinality(With(L, {"dispatched"}))
    BY DEF OrderSummary, OrderList, OrderStatus
  <2>2. With(L, {"dispatched"}) = With(O, {"dispatched"})
    BY DEF With, OrderList, OrderStatus
  <2>3. /\ Dashboard(k).sales_total = Sales(Live(O))
        /\ Dashboard(k).orders_pending = Cardinality(With(Live(O), open))
    BY DEF Dashboard
  <2>4. /\ OrderSummary(k).total_orders = Cardinality(L)
        /\ OrderSummary(k).total_order_value = Sales(L)
        /\ AgentSummary(k, NoDate, NoDate).total_sales = Sales(R)
    BY DEF OrderSummary, OrderList, AgentSummary
  <2> QED
    BY <2>1, <2>2, <2>3, <2>4
<1>5. /\ Sales(Live(O)) = SumOf([c \in C |-> CustomerOrders(c).lifetime_value])
      /\ Cardinality(With(O, open \cup {"dispatched"}))
           = SumOf([c \in C |-> CustomerOrders(c).pending_orders])
      /\ Sales(Live(O)) = SumOf([a \in A |-> Sales(By(Live(OrdersOf(k)), a))])
      /\ Sales(R) = SumOf([a \in A |-> AgentRow(k, a, NoDate, NoDate)])
      /\ Cardinality(With(O, open)) = SumOf([s \in open |-> Cardinality(With(O, {s}))])
      /\ Cardinality(L) = SumOf([s \in OrderStatus |-> Cardinality(With(L, {s}))])
  BY SalesAddUp
<1>6. /\ Sales(Live(O)) = Sales(R) + Sales(With(O, {"submitted"}))
      /\ Sales(L) = Sales(Live(O)) + Sales(With(O, {"cancelled"}))
      /\ With(Live(O), open) = With(O, open)
      /\ Cardinality(With(O, open \cup {"dispatched"}))
           = Cardinality(With(O, open)) + Cardinality(With(O, {"dispatched"}))
  BY LiveParts DEF OrderList
<1>7. Sales(R) = SumOf([d \in Days |-> Sales(SalesReport(k, d, d))]) + Sales(R \ Submitted(R))
  BY ReportDays
<1> HIDE DEF O, C, open, L, R, A, lifetime, pending, ofDay, row, live, shown, counted
<1>8. /\ Dashboard(k).sales_total = OfCustomers(k, lifetime)
      /\ Dashboard(k).sales_total = OfAgents(live)
      /\ Dashboard(k).sales_total = Sales(R) + Sales(With(O, {"submitted"}))
      /\ AgentSummary(k, NoDate, NoDate).total_sales = OfAgents(row)
      /\ Sales(R) = Sum(Days, ofDay) + Sales(R \ Submitted(R))
  BY <1>1, <1>4, <1>5, <1>6, <1>7
<1>9. /\ Dashboard(k).orders_pending + counted("dispatched") = OfCustomers(k, pending)
      /\ Dashboard(k).orders_pending = Sum(DOMAIN Kanban(k), shown)
      /\ OrderSummary(k).total_orders = Sum(OrderStatus, counted)
      /\ OrderSummary(k).total_orders = Cardinality(L)
      /\ OrderSummary(k).total_order_value
           = Dashboard(k).sales_total + Sales(With(O, {"cancelled"}))
  BY <1>1, <1>2, <1>3, <1>4, <1>5, <1>6
<1>10. \A e \in Leaderboard(k) : e.sales >= AgentRow(k, e.agent, MonthStart(today), today)
  BY LeadersSell
<1>11. \A e \in TopAgents(k) : CarriedOver(k, e.agent) = {} =>
         /\ HomeSummary(e.agent, k).sales_today >= e.payment
         /\ HomeSummary(e.agent, k).orders_today >= e.orders
  BY HomeRows
<1> USE DEF O, L, R, lifetime, pending, ofDay, row, live, shown, counted
<1> QED
  BY <1>8, <1>9, <1>10, <1>11

-----------------------------------------------------------------------------
\* Who is ranked where

Ranked(S) == {order[o].agent : o \in S} \ {NoAgent}
Better(S, a) == {x \in Ranked(S) : Sales(By(S, x)) > Sales(By(S, a))}
Even(S, a)   == {x \in Ranked(S) : Sales(By(S, x)) >= Sales(By(S, a))}

\* The places of an agent with orders are those after who sold more, and there
\* is one; who has no orders has no place, and sold nothing.
LEMMA PlaceRange ==
  ASSUME RowsInv, NEW k, NEW S \in SUBSET OrdersOf(k), NEW a \in Agents
  PROVE  LET m == Cardinality(Better(S, a)) + 1
             n == Cardinality(Even(S, a))
         IN /\ m \in Nat /\ n \in Nat /\ m >= 1
            /\ IsFiniteSet(Ranked(S)) /\ Ranked(S) \subseteq Agents
            /\ a \in Ranked(S) => Places(S, a) = m..n /\ m <= n
            /\ a \notin Ranked(S) => Places(S, a) = {} /\ By(S, a) = {}
<1> DEFINE m == Cardinality(Better(S, a)) + 1
           n == Cardinality(Even(S, a))
<1>1. S \in SUBSET Orders
  BY OrderRows
<1>2. Ranked(S) \subseteq Agents
  BY OrderRows DEF Ranked
<1>3. IsFiniteSet(Ranked(S))
  BY <1>2, SetsAssumption, FS_Subset
<1>4. \A x : Sales(By(S, x)) \in Nat
  BY <1>1, WorthType DEF By
<1>5. Better(S, a) \subseteq Even(S, a) /\ Even(S, a) \subseteq Ranked(S) /\ a \notin Better(S, a)
  BY <1>4 DEF Better, Even
<1>6. IsFiniteSet(Better(S, a)) /\ IsFiniteSet(Even(S, a))
  BY <1>3, <1>5, FS_Subset
<1>7. m \in Nat /\ n \in Nat /\ m >= 1
  BY <1>6, FS_CardinalityType
<1>8. ASSUME a \in Ranked(S)
      PROVE  Places(S, a) = m..n /\ m <= n
  <2>1. Places(S, a) = m..n
    BY <1>8 DEF Places, Ranked, Better, Even
  <2>2. a \in Even(S, a)
    BY <1>4, <1>8 DEF Even
  <2>3. Cardinality(Better(S, a) \cup {a}) = m
    BY <1>5, <1>6, FS_AddElement
  <2>4. Better(S, a) \cup {a} \subseteq Even(S, a)
    BY <1>5, <2>2
  <2>5. Cardinality(Better(S, a) \cup {a}) <= Cardinality(Even(S, a))
    BY <1>6, <2>4, FS_Subset
  <2> QED
    BY <2>1, <2>3, <2>5
<1>9. ASSUME a \notin Ranked(S)
      PROVE  Places(S, a) = {} /\ By(S, a) = {}
  <2>1. Places(S, a) = {}
    BY <1>9 DEF Places, Ranked
  <2>2. a # NoAgent
    BY NullsAssumption
  <2> QED
    BY <1>9, <2>1, <2>2 DEF Ranked, By
<1> QED
  BY <1>2, <1>3, <1>7, <1>8, <1>9

LEMMA BetterPlace ==
  ASSUME RowsInv, NEW k, NEW S \in SUBSET OrdersOf(k), NEW a \in Agents, NEW b \in Agents,
         Sales(By(S, a)) > Sales(By(S, b)), Places(S, a) # {}, Places(S, b) # {}
  PROVE  Max(Places(S, a)) < Min(Places(S, b))
<1> DEFINE m(x) == Cardinality(Better(S, x)) + 1
           n(x) == Cardinality(Even(S, x))
<1>1. \A x \in {a, b} : /\ m(x) \in Nat /\ n(x) \in Nat /\ m(x) <= n(x)
                        /\ Places(S, x) = m(x)..n(x)
  BY PlaceRange
<1>2. IsFiniteSet(Ranked(S))
  BY PlaceRange
<1>3. \A x : Sales(By(S, x)) \in Nat
  BY OrderRows, WorthType DEF By
<1>4. Even(S, a) \subseteq Better(S, b) /\ Better(S, b) \subseteq Ranked(S)
  BY <1>3 DEF Even, Better
<1>5. n(a) <= Cardinality(Better(S, b))
  BY <1>2, <1>4, FS_Subset
<1> HIDE DEF m, n
<1>6. Max(m(a)..n(a)) = n(a) /\ Min(m(b)..n(b)) = m(b)
  BY <1>1, Ends
<1>7. n(a) < m(b)
  <2>1. Cardinality(Better(S, b)) \in Int
    BY <1>2, <1>4, FS_Subset, FS_CardinalityType
  <2> QED
    BY <1>1, <1>5, <2>1 DEF m
<1> QED
  BY <1>1, <1>6, <1>7

\* The first place is that of who sold most.
LEMMA FirstPlace ==
  ASSUME RowsInv, NEW k, NEW S \in SUBSET OrdersOf(k), NEW a \in Agents, NEW b \in Agents,
         1 \in Places(S, a)
  PROVE  Sales(By(S, a)) >= Sales(By(S, b))
<1>1. \A x : Sales(By(S, x)) \in Nat
  BY OrderRows, WorthType DEF By
<1>2. /\ Cardinality(Better(S, a)) + 1 \in Nat /\ Cardinality(Even(S, a)) \in Nat
      /\ Places(S, a) = (Cardinality(Better(S, a)) + 1)..Cardinality(Even(S, a))
      /\ IsFiniteSet(Ranked(S))
  BY PlaceRange
<1>3. Better(S, a) = {}
  <2>1. IsFiniteSet(Better(S, a))
    BY <1>2, FS_Subset DEF Better
  <2>2. Cardinality(Better(S, a)) = 0
    <3>1. Cardinality(Better(S, a)) \in Nat
      BY <2>1, FS_CardinalityType
    <3> QED
      BY <1>2, <3>1
  <2> QED
    BY <2>1, <2>2, FS_EmptySet
<1>4. CASE b \in Ranked(S)
  BY <1>1, <1>3, <1>4 DEF Better
<1>5. CASE b \notin Ranked(S)
  <2>1. By(S, b) = {}
    BY <1>5, PlaceRange
  <2>2. Sales(By(S, b)) = 0
    BY <2>1, WorthType, AddNone
  <2> QED
    BY <1>1, <2>2
<1> QED
  BY <1>4, <1>5

LEMMA MonthRows ==
  ASSUME RowsInv, NEW k
  PROVE  LET month == Since(OrdersOf(k), MonthStart(today))
             day == {o \in Submitted(OrdersOf(k)) : order[o].submitted = today}
         IN /\ month \in SUBSET OrdersOf(k) /\ month \in SUBSET Orders
            /\ day \in SUBSET month
            /\ Since(Submitted(OrdersOf(k)), MonthStart(today)) = month
<1>1. MonthStart(today) \in Nat /\ today \in Nat /\ MonthStart(today) <= today
  BY DaysAssumption DEF RowsInv, RowsOK
<1> QED
  BY <1>1, OrderRows DEF Since, Submitted

\* The day's best agents have no more of today than of the month.
LEMMA TopRows ==
  ASSUME RowsInv, NEW k, NEW e \in TopAgents(k)
  PROVE  e.orders <= OrderCount(e.agent, k) /\ e.payment <= Performance(e.agent, k).sales
<1> DEFINE month == Since(OrdersOf(k), MonthStart(today))
           day == {o \in Submitted(OrdersOf(k)) : order[o].submitted = today}
<1>1. PICK a \in Agents : e = [agent |-> a, orders |-> Cardinality(By(day, a)),
                               payment |-> Sales(By(day, a))]
  BY DEF TopAgents
<1>2. OrderCount(a, k) = Cardinality(By(month, a)) /\ Performance(a, k).sales = Sales(By(month, a))
  BY DEF OrderCount, Performance
<1>3. By(month, a) \in SUBSET Orders /\ By(day, a) \in SUBSET By(month, a)
  BY MonthRows DEF By
<1> HIDE DEF month, day
<1> QED
  BY <1>1, <1>2, <1>3, SalesFewer

\* The leaderboard goes by the sums that the analytics show, and by the places of
\* the agents' own pages; whoever is on it has a place.
LEMMA LeadersRanked ==
  ASSUME RowsInv, NEW k \in Companies, NEW e \in Leaderboard(k)
  PROVE  LET month == Since(OrdersOf(k), MonthStart(today))
         IN /\ e.agent \in Agents
            /\ e.ranks = Performance(e.agent, k).ranks
            /\ e.sales = Analytics(k).agents[e.agent]
            /\ e.ranks = Places(month, e.agent) /\ e.ranks # {}
            /\ e.sales = Sales(By(month, e.agent))
<1> DEFINE month == Since(OrdersOf(k), MonthStart(today))
<1>1. /\ e.agent \in Agents /\ By(month, e.agent) # {}
      /\ e.ranks = Places(month, e.agent) /\ e.sales = Sales(By(month, e.agent))
  BY LeaderRows, MembersAssumption
<1>2. Performance(e.agent, k).ranks = Places(month, e.agent)
  BY DEF Performance
<1>3. Analytics(k).agents[e.agent] = Sales(By(month, e.agent))
  <2>1. Since(Submitted(OrdersOf(k)), MonthStart(today)) = month
    BY MonthRows
  <2>2. Analytics(k).agents
          = [a \in Agents |-> Sales(By(Since(Submitted(OrdersOf(k)), MonthStart(today)), a))]
    BY DEF Analytics
  <2> HIDE DEF month
  <2> QED
    BY <1>1, <2>1, <2>2
<1>4. Places(month, e.agent) # {}
  <2> DEFINE m == Cardinality(Better(month, e.agent)) + 1
             n == Cardinality(Even(month, e.agent))
  <2>1. month \in SUBSET OrdersOf(k)
    BY MonthRows
  <2> HIDE DEF month
  <2>2. m \in Nat /\ n \in Nat /\ m <= n /\ Places(month, e.agent) = m..n
    BY <1>1, <2>1, PlaceRange
  <2> HIDE DEF m, n
  <2> QED
    BY <2>2
<1> QED
  BY <1>1, <1>2, <1>3, <1>4

LEMMA RanksFollow == RowsInv => RanksAgree
<1> SUFFICES ASSUME RowsInv, NEW k \in Companies
             PROVE  /\ \A a, b \in Agents :
                         LET live(x) == Sales(By(Live(OrdersOf(k)), x))
                             month(x) == Performance(x, k).sales
                             ranked(ra, rb) == ra # {} /\ rb # {} => Max(ra) < Min(rb)
                         IN /\ live(a) > live(b) => ranked(ProfileRank(a, k), ProfileRank(b, k))
                            /\ month(a) > month(b) =>
                                 ranked(Performance(a, k).ranks, Performance(b, k).ranks)
                    /\ \A a \in Agents : OrderCount(a, k) = Performance(a, k).orders
                    /\ \A e \in TopAgents(k) :
                         e.orders <= OrderCount(e.agent, k) /\ e.payment <= Performance(e.agent, k).sales
                    /\ \A e \in Leaderboard(k) :
                         /\ e.ranks = Performance(e.agent, k).ranks
                         /\ e.sales = Analytics(k).agents[e.agent]
                    /\ \A e, f \in Leaderboard(k) : e.sales > f.sales => Max(e.ranks) < Min(f.ranks)
                    /\ \A a \in AgentSummary(k, NoDate, NoDate).top_agent : \A b \in Agents :
                         AgentRow(k, a, NoDate, NoDate) >= AgentRow(k, b, NoDate, NoDate)
  BY DEF RanksAgree
<1> DEFINE month == Since(OrdersOf(k), MonthStart(today))
           R == SalesReport(k, NoDate, NoDate)
<1>1. Live(OrdersOf(k)) \in SUBSET OrdersOf(k) /\ month \in SUBSET OrdersOf(k)
      /\ R \in SUBSET OrdersOf(k)
  BY LiveParts, MonthRows, ReportRows
<1>2. \A a \in Agents : /\ ProfileRank(a, k) = Places(Live(OrdersOf(k)), a)
                        /\ Performance(a, k).ranks = Places(month, a)
                        /\ Performance(a, k).sales = Sales(By(month, a))
                        /\ Performance(a, k).orders = Cardinality(By(month, a))
                        /\ OrderCount(a, k) = Cardinality(By(month, a))
                        /\ AgentRow(k, a, NoDate, NoDate) = Sales(By(R, a))
  BY DEF ProfileRank, Performance, OrderCount, AgentRow
<1>3. AgentSummary(k, NoDate, NoDate).top_agent = {a \in Agents : 1 \in Places(R, a)}
  BY DEF AgentSummary
<1> HIDE DEF month, R
<1>4. ASSUME NEW a \in Agents, NEW b \in Agents
      PROVE  /\ Sales(By(Live(OrdersOf(k)), a)) > Sales(By(Live(OrdersOf(k)), b)) =>
                  (ProfileRank(a, k) # {} /\ ProfileRank(b, k) # {} =>
                     Max(ProfileRank(a, k)) < Min(ProfileRank(b, k)))
             /\ Performance(a, k).sales > Performance(b, k).sales =>
                  (Performance(a, k).ranks # {} /\ Performance(b, k).ranks # {} =>
                     Max(Performance(a, k).ranks) < Min(Performance(b, k).ranks))
  BY <1>1, <1>2, BetterPlace
<1>5. ASSUME NEW e \in Leaderboard(k), NEW f \in Leaderboard(k), e.sales > f.sales
      PROVE  Max(e.ranks) < Min(f.ranks)
  <2>1. \A x \in {e, f} : /\ x.agent \in Agents
                          /\ x.ranks = Places(month, x.agent) /\ x.ranks # {}
                          /\ x.sales = Sales(By(month, x.agent))
    BY LeadersRanked DEF month
  <2> QED
    BY <1>1, <1>5, <2>1, BetterPlace
<1>6. \A a \in AgentSummary(k, NoDate, NoDate).top_agent : \A b \in Agents :
        AgentRow(k, a, NoDate, NoDate) >= AgentRow(k, b, NoDate, NoDate)
  BY <1>1, <1>2, <1>3, FirstPlace
<1>7. \A e \in Leaderboard(k) : /\ e.ranks = Performance(e.agent, k).ranks
                                /\ e.sales = Analytics(k).agents[e.agent]
  BY LeadersRanked
<1>8. \A e \in TopAgents(k) :
        e.orders <= OrderCount(e.agent, k) /\ e.payment <= Performance(e.agent, k).sales
  BY TopRows
<1>9. \A a \in Agents : OrderCount(a, k) = Performance(a, k).orders
  BY <1>2
<1> QED
  BY <1>4, <1>5, <1>6, <1>7, <1>8, <1>9

-----------------------------------------------------------------------------
\* What is stored: the columns, and the rows that each is computed from

ColumnsOK ==
  /\ metric \in [Agents -> [sales : Nat, orders : Nat]]
  /\ credit \in [Customers -> Nat]
  /\ moved \in SUBSET (Agents \cup Customers)

StoredInv == RowsInv /\ ColumnsOK /\ StoredUnlessMoved

Counted(o, a) ==
  order[o] # NoRow /\ order[o].status \in OrderStatus \ {"cancelled", "draft"} /\ order[o].agent = a
CountedOf(a) == {o \in Orders : Counted(o, a)}

Owing(b, c) ==
  /\ bill[b] # NoRow /\ bill[b].customer = c
  /\ bill[b].status \in {"issued", "partial"} /\ b[2] # "purchase_order"
OwingOf(c) == {b \in Bills : Owing(b, c)}

LEMMA ProfileRows ==
  ASSUME NEW a
  PROVE  /\ ProfileSales(a) = Sales(CountedOf(a))
         /\ ProfileOrders(a) = Cardinality(CountedOf(a))
<1>1. By(Live({x \in Orders : Placed(x)}), a) = CountedOf(a)
  BY DEF By, Live, With, Placed, CountedOf, Counted
<1> QED
  BY <1>1 DEF ProfileSales, ProfileOrders

LEMMA OutstandingRows ==
  ASSUME NEW c
  PROVE  ComputedOutstanding(c) = Owed(OwingOf(c))
<1>1. Billed(Unpaid(HomeOf[c]), c) = OwingOf(c)
  BY DEF Billed, Unpaid, OwingOf, Owing
<1> QED
  BY <1>1 DEF ComputedOutstanding

FiguresTyped ==
  /\ \A a \in Agents : ProfileSales(a) \in Nat /\ ProfileOrders(a) \in Nat
  /\ \A c \in Customers : ComputedOutstanding(c) \in Nat

LEMMA ColumnTypes == RowsInv => FiguresTyped
<1> SUFFICES ASSUME RowsInv
             PROVE  FiguresTyped
  OBVIOUS
<1>1. \A a : CountedOf(a) \in SUBSET Orders
  BY DEF CountedOf
<1>2. \A c : OwingOf(c) \in SUBSET Made
  BY DEF OwingOf, Owing, Made
<1> QED
  BY <1>1, <1>2, ProfileRows, OutstandingRows, WorthType, DuesType DEF FiguresTyped

\* A step that leaves the counted orders of an agent counted leaves what the
\* agent's page shows.
LEMMA SameProfile ==
  ASSUME NEW a, \A o \in Orders : Counted(o, a)' <=> Counted(o, a)
  PROVE  ProfileSales(a)' = ProfileSales(a) /\ ProfileOrders(a)' = ProfileOrders(a)
<1>1. CountedOf(a)' = CountedOf(a)
  BY DEF CountedOf
<1>2. /\ ProfileSales(a)' = Sales(CountedOf(a)')
      /\ ProfileOrders(a)' = Cardinality(CountedOf(a)')
  <2>1. (By(Live({x \in Orders : Placed(x)}), a))' = CountedOf(a)'
    BY DEF By, Live, With, Placed, CountedOf, Counted
  <2> QED
    BY <2>1 DEF ProfileSales, ProfileOrders, Sales, Sum, Total
<1> QED
  BY <1>1, <1>2, ProfileRows

\* And one that leaves the unpaid invoices of a customer.
LEMMA SameOutstanding ==
  ASSUME NEW c,
         \A b \in Bills : /\ Owing(b, c)' <=> Owing(b, c)
                          /\ Owing(b, c) => bill'[b] = bill[b]
  PROVE  ComputedOutstanding(c)' = ComputedOutstanding(c)
<1>1. OwingOf(c)' = OwingOf(c)
  BY DEF OwingOf
<1>2. \A b \in OwingOf(c) : bill'[b] = bill[b]
  BY DEF OwingOf
<1>3. ComputedOutstanding(c)' = SumOf([b \in OwingOf(c)' |-> TotalOf[b[1]] - bill'[b].paid])
  <2>1. (Billed(Unpaid(HomeOf[c]), c))' = OwingOf(c)'
    BY DEF Billed, Unpaid, OwingOf, Owing
  <2> QED
    BY <2>1 DEF ComputedOutstanding, Owed, Sum, AmountDue
<1>4. ComputedOutstanding(c) = SumOf([b \in OwingOf(c) |-> TotalOf[b[1]] - bill[b].paid])
  BY OutstandingRows DEF Owed, Sum, AmountDue
<1>5. [b \in OwingOf(c) |-> TotalOf[b[1]] - bill'[b].paid]
        = [b \in OwingOf(c) |-> TotalOf[b[1]] - bill[b].paid]
  BY <1>2
<1> QED
  BY <1>1, <1>3, <1>4, <1>5

\* The stored columns stay right for those of whom nothing was changed.
LEMMA StoredKept ==
  ASSUME StoredInv, moved' \in SUBSET (Agents \cup Customers),
         \A a \in Agents \ moved' :
           \/ metric'[a] = [sales |-> ProfileSales(a)', orders |-> ProfileOrders(a)']
           \/ /\ a \notin moved /\ metric'[a] = metric[a]
              /\ \A o \in Orders : Counted(o, a)' <=> Counted(o, a),
         \A c \in Customers \ moved' :
           \/ credit'[c] = ComputedOutstanding(c)'
           \/ /\ c \notin moved /\ credit'[c] = credit[c]
              /\ \A b \in Bills : /\ Owing(b, c)' <=> Owing(b, c)
                                  /\ Owing(b, c) => bill'[b] = bill[b]
  PROVE  StoredUnlessMoved'
<1>1. ASSUME NEW a \in Agents \ moved'
      PROVE  metric'[a].sales = ProfileSales(a)' /\ metric'[a].orders = ProfileOrders(a)'
  <2>1. CASE metric'[a] = [sales |-> ProfileSales(a)', orders |-> ProfileOrders(a)']
    BY <2>1
  <2>2. CASE /\ a \notin moved /\ metric'[a] = metric[a]
             /\ \A o \in Orders : Counted(o, a)' <=> Counted(o, a)
    <3>1. metric[a].sales = ProfileSales(a) /\ metric[a].orders = ProfileOrders(a)
      BY <2>2 DEF StoredInv, StoredUnlessMoved
    <3>2. ProfileSales(a)' = ProfileSales(a) /\ ProfileOrders(a)' = ProfileOrders(a)
      BY <2>2, SameProfile
    <3> QED
      BY <2>2, <3>1, <3>2
  <2> QED
    BY <2>1, <2>2
<1>2. ASSUME NEW c \in Customers \ moved'
      PROVE  credit'[c] = ComputedOutstanding(c)'
  <2>1. CASE /\ c \notin moved /\ credit'[c] = credit[c]
             /\ \A b \in Bills : /\ Owing(b, c)' <=> Owing(b, c)
                                 /\ Owing(b, c) => bill'[b] = bill[b]
    <3>1. credit[c] = ComputedOutstanding(c)
      BY <2>1 DEF StoredInv, StoredUnlessMoved
    <3>2. ComputedOutstanding(c)' = ComputedOutstanding(c)
      BY <2>1, SameOutstanding
    <3> QED
      BY <2>1, <3>1, <3>2
  <2> QED
    BY <2>1
<1> QED
  BY <1>1, <1>2 DEF StoredUnlessMoved

\* A recomputed column is right, the others are as they were.
LEMMA RecomputeRows ==
  ASSUME StoredInv, RowsInv', NEW c \in Customers,
         credit' = [credit EXCEPT ![c] = ComputedOutstanding(c)']
  PROVE  /\ credit' \in [Customers -> Nat]
         /\ credit'[c] = ComputedOutstanding(c)'
         /\ \A x \in Customers \ {c} : credit'[x] = credit[x]
<1>1. ComputedOutstanding(c)' \in Nat
  <2>1. FiguresTyped'
    BY ColumnTypes, PTL
  <2> QED
    BY <2>1 DEF FiguresTyped
<1>2. credit \in [Customers -> Nat]
  BY DEF StoredInv, ColumnsOK
<1> QED
  BY <1>1, <1>2

LEMMA StoredInit == Init => StoredInv
<1> SUFFICES ASSUME Init
             PROVE  StoredInv
  OBVIOUS
<1>1. RowsInv
  BY RowsInit
<1>2. ColumnsOK
  BY DEF Init, ColumnsOK
<1>3. \A a : CountedOf(a) = {}
  BY DEF Init, CountedOf, Counted
<1>4. \A c : OwingOf(c) = {}
  BY DEF Init, OwingOf, Owing
<1>5. Sales({}) = 0 /\ Cardinality({}) = 0 /\ Owed({}) = 0
  BY <1>1, WorthType, DuesType, AddNone, FS_EmptySet
<1>6. /\ \A a \in Agents : metric[a].sales = ProfileSales(a) /\ metric[a].orders = ProfileOrders(a)
      /\ \A c \in Customers : credit[c] = ComputedOutstanding(c)
  BY <1>3, <1>4, <1>5, ProfileRows, OutstandingRows DEF Init
<1> QED
  BY <1>1, <1>2, <1>6 DEF StoredInv, StoredUnlessMoved

\* A new draft counts for nobody.
LEMMA StoredOpenDraft ==
  ASSUME StoredInv, NEW o \in Orders, NEW c \in Customers, NEW a \in Agents \cup {NoAgent},
         OpenDraft(o, c, a)
  PROVE  ColumnsOK' /\ StoredUnlessMoved'
<1>1. UNCHANGED <<bill, metric, credit, moved>>
  BY DEF OpenDraft
<1>2. /\ order[o] = NoRow /\ order'[o].status = "draft"
      /\ \A x \in Orders \ {o} : order'[x] = order[x]
  BY OpenDraftRows DEF StoredInv
<1>3. \A x \in Orders, b \in Agents : Counted(x, b)' <=> Counted(x, b)
  BY <1>2 DEF Counted
<1>4. \A b \in Bills, x \in Customers : Owing(b, x)' <=> Owing(b, x)
  BY <1>1 DEF Owing
<1>5. ColumnsOK'
  BY <1>1 DEF StoredInv, ColumnsOK
<1> QED
  BY <1>1, <1>3, <1>4, <1>5, StoredKept DEF ColumnsOK

\* What the pages show of the agent and of the customer of an order, and of the
\* customer of a bill, when they stay its agent and its customer.
AgentOf(o)    == [sales |-> ProfileSales(order[o].agent), orders |-> ProfileOrders(order[o].agent)]
CustomerOf(o) == ComputedOutstanding(order[o].customer)
PayerOf(b)    == ComputedOutstanding(bill[b].customer)

LEMMA SameAgent ==
  ASSUME NEW o, NEW a, order'[o].agent = a
  PROVE  AgentOf(o)' = [sales |-> ProfileSales(a)', orders |-> ProfileOrders(a)']
BY DEF AgentOf, ProfileSales, ProfileOrders, By, Live, With, Placed, Sales, Sum, Total

LEMMA SameCustomer ==
  ASSUME NEW o, NEW c, order'[o].customer = c
  PROVE  CustomerOf(o)' = ComputedOutstanding(c)'
BY DEF CustomerOf, ComputedOutstanding, Billed, Unpaid, Owed, Sum, AmountDue

LEMMA SamePayer ==
  ASSUME NEW b, NEW c, bill'[b].customer = c
  PROVE  PayerOf(b)' = ComputedOutstanding(c)'
BY DEF PayerOf, ComputedOutstanding, Billed, Unpaid, Owed, Sum, AmountDue

\* A submission changes the counted orders of the order's agent only, whose
\* columns it computes; its purchase order is owed by nobody.
LEMMA StoredSubmit ==
  ASSUME StoredInv, RowsInv', NEW o \in Orders, NEW s \in {"submitted", "confirmed"}, Submit(o, s)
  PROVE  ColumnsOK' /\ StoredUnlessMoved'
<1> DEFINE p == <<o, "purchase_order">>
<1> PICK a : a = order[o].agent
  OBVIOUS
<1> DEFINE row == [sales |-> ProfileSales(a)', orders |-> ProfileOrders(a)']
<1>1. /\ metric' = [x \in Agents |-> IF x = a THEN AgentOf(o)' ELSE metric[x]]
      /\ moved' = moved \ {a} /\ credit' = credit
  BY DEF Submit, AgentOf
<1>2. /\ order[o] \in OrderRow
      /\ order'[o] = [order[o] EXCEPT !.status = s, !.submitted = today]
      /\ \A x \in Orders \ {o} : order'[x] = order[x]
      /\ \A b \in Bills : b # p \/ bill[b] # NoRow => bill'[b] = bill[b]
  BY SubmitRows DEF StoredInv
<1>3. order'[o].agent = a /\ a \in Agents \cup {NoAgent} /\ a \notin Customers
  BY <1>2, SetsAssumption, NullsAssumption DEF OrderRow
<1>4. /\ metric' = [x \in Agents |-> IF x = a THEN row ELSE metric[x]]
      /\ moved' = moved \ {a} /\ credit' = credit
  <2>1. AgentOf(o)' = row
    BY <1>3, SameAgent
  <2> QED
    BY <1>1, <2>1
<1>5. ASSUME NEW x \in Agents, x # a
      PROVE  \A y \in Orders : Counted(y, x)' <=> Counted(y, x)
  BY <1>2, <1>3, <1>5 DEF Counted
<1>6. ASSUME NEW b \in Bills, NEW c \in Customers
      PROVE  /\ Owing(b, c)' <=> Owing(b, c)
             /\ Owing(b, c) => bill'[b] = bill[b]
  <2>1. CASE b = p
    BY <2>1 DEF Owing
  <2>2. CASE b # p
    BY <1>2, <2>2 DEF Owing
  <2> QED
    BY <2>1, <2>2
<1>7. a \in Agents => row \in [sales : Nat, orders : Nat]
  <2>1. FiguresTyped'
    BY ColumnTypes, PTL
  <2>2. a \in Agents => ProfileSales(a)' \in Nat /\ ProfileOrders(a)' \in Nat
    BY <2>1 DEF FiguresTyped
  <2> QED
    BY <2>2
<1> HIDE DEF p, row
<1>8. /\ \A x \in Agents \ {a} : metric'[x] = metric[x]
      /\ a \in Agents => metric'[a] = row
  BY <1>4
<1>9. ColumnsOK'
  <2>1. \A x \in Agents : metric'[x] \in [sales : Nat, orders : Nat]
    BY <1>7, <1>8 DEF StoredInv, ColumnsOK
  <2>2. metric' \in [Agents -> [sales : Nat, orders : Nat]]
    BY <1>4, <2>1
  <2> QED
    BY <1>4, <2>2 DEF StoredInv, ColumnsOK
<1>10. ASSUME NEW x \in Agents \ moved'
      PROVE  \/ metric'[x] = [sales |-> ProfileSales(x)', orders |-> ProfileOrders(x)']
             \/ /\ x \notin moved /\ metric'[x] = metric[x]
                /\ \A y \in Orders : Counted(y, x)' <=> Counted(y, x)
  <2>1. CASE x = a
    BY <1>8, <2>1 DEF row
  <2>2. CASE x # a
    BY <1>4, <1>5, <1>8, <2>2
  <2> QED
    BY <2>1, <2>2
<1>11. \A c \in Customers \ moved' : /\ c \notin moved /\ credit'[c] = credit[c]
                                     /\ \A b \in Bills : /\ Owing(b, c)' <=> Owing(b, c)
                                                         /\ Owing(b, c) => bill'[b] = bill[b]
  BY <1>4, <1>3, <1>6
<1> QED
  BY <1>9, <1>10, <1>11, StoredKept DEF ColumnsOK

\* A change of status changes the counted orders of the order's agent, who is
\* noted as moved when it does; a new sales invoice comes with the columns of its
\* customer.
LEMMA StoredSetStatus ==
  ASSUME StoredInv, RowsInv', NEW o \in Orders, NEW s \in Written, SetStatus(o, s)
  PROVE  ColumnsOK' /\ StoredUnlessMoved'
<1> DEFINE p == <<o, "sales_invoice">>
<1> PICK a, c : a = order[o].agent /\ c = order[o].customer
  OBVIOUS
<1> DEFINE new == s = "dispatched" /\ bill[p] = NoRow
           known == IF new THEN moved \ {c} ELSE moved
           turned == Counts(s) # Counts(order[o].status)
<1>1. /\ metric' = metric
      /\ new => credit' = [credit EXCEPT ![order[o].customer] = CustomerOf(o)']
      /\ ~new => credit' = credit
      /\ moved' = IF turned THEN known \cup ({a} \ {NoAgent}) ELSE known
  BY DEF SetStatus, Recompute, CustomerOf
<1> HIDE DEF new, known, turned
<1>2. /\ order[o] \in OrderRow /\ c \in Customers /\ p \in Bills
      /\ order'[o] = [order[o] EXCEPT !.status = s]
      /\ \A x \in Orders \ {o} : order'[x] = order[x]
      /\ \A b \in Bills : b # p \/ bill[b] # NoRow \/ s # "dispatched" => bill'[b] = bill[b]
      /\ bill[p] = NoRow /\ s = "dispatched" => bill'[p] \in BillRow /\ bill'[p].customer = c
  <2> DEFINE d == DueDate(order[o].customer)
  <2>1. /\ order[o] \in OrderRow /\ order[o].customer \in Customers /\ p \in Bills
        /\ order'[o] = [order[o] EXCEPT !.status = s]
        /\ \A x \in Orders \ {o} : order'[x] = order[x]
        /\ bill' \in [Bills -> BillRow \cup {NoRow}]
        /\ \A b \in Bills : b # p \/ bill[b] # NoRow \/ s # "dispatched" => bill'[b] = bill[b]
        /\ bill[p] = NoRow /\ s = "dispatched" =>
             bill'[p] = [customer |-> order[o].customer, status |-> "issued", paid |-> 0, due |-> d]
        /\ d # NoDate => d \in Nat
    BY SetStatusRows DEF StoredInv
  <2> HIDE DEF p, d
  <2>2. bill[p] = NoRow /\ s = "dispatched" => bill'[p].customer = c /\ bill'[p] \in BillRow
    BY <2>1 DEF BillRow
  <2> QED
    BY <2>1, <2>2
<1> USE DEF new, known, turned
<1>3. /\ order'[o].agent = a /\ order'[o].status = s /\ a \in Agents \cup {NoAgent}
      /\ order[o].status \in OrderStatus /\ s \in OrderStatus
      /\ order[o] # NoRow /\ order'[o] # NoRow
  BY <1>2, NullsAssumption, WrittenAssumption DEF OrderRow, SetStatus, Placed
<1>4. ASSUME NEW x \in Agents, x # a \/ ~turned
      PROVE  \A y \in Orders : Counted(y, x)' <=> Counted(y, x)
  <2> SUFFICES ASSUME NEW y \in Orders
               PROVE  Counted(y, x)' <=> Counted(y, x)
    OBVIOUS
  <2>1. CASE y # o
    BY <1>2, <2>1 DEF Counted
  <2>2. CASE y = o /\ x # a
    BY <1>3, <2>2 DEF Counted
  <2>3. CASE y = o /\ ~turned
    BY <1>3, <2>3 DEF Counted, Counts
  <2> QED
    BY <1>4, <2>1, <2>2, <2>3
<1>5. ASSUME NEW b \in Bills, NEW x \in Customers, x # c \/ ~new
      PROVE  /\ Owing(b, x)' <=> Owing(b, x)
             /\ Owing(b, x) => bill'[b] = bill[b]
  <2>1. CASE b # p \/ ~new
    BY <1>2, <2>1 DEF Owing
  <2>2. CASE b = p /\ new /\ x # c
    BY <1>2, <2>2 DEF Owing
  <2> QED
    BY <1>5, <2>1, <2>2
<1>6. /\ credit' \in [Customers -> Nat]
      /\ new => credit'[c] = ComputedOutstanding(c)'
      /\ \A x \in Customers : x # c \/ ~new => credit'[x] = credit[x]
  <2>1. CASE new
    <3>1. CustomerOf(o)' = ComputedOutstanding(c)'
      <4>1. order'[o].customer = c
        BY <1>2 DEF OrderRow
      <4> QED
        BY <4>1, SameCustomer
    <3>2. credit' = [credit EXCEPT ![c] = ComputedOutstanding(c)']
      BY <1>1, <2>1, <3>1
    <3> QED
      BY <1>2, <2>1, <3>2, RecomputeRows
  <2>2. CASE ~new
    BY <1>1, <2>2 DEF StoredInv, ColumnsOK
  <2> QED
    BY <2>1, <2>2
<1>7. moved \in SUBSET (Agents \cup Customers)
  BY DEF StoredInv, ColumnsOK
<1>8. \A x \in Agents \ moved' : x \notin moved /\ (x # a \/ ~turned)
  BY <1>1, <1>2, SetsAssumption, NullsAssumption
<1>9. \A x \in Customers \ moved' : (x # c \/ ~new) => x \notin moved
  BY <1>1
<1>10. ColumnsOK'
  <2>1. moved' \in SUBSET (Agents \cup Customers)
    BY <1>1, <1>3, <1>7
  <2> QED
    BY <1>1, <1>6, <2>1 DEF StoredInv, ColumnsOK
<1> HIDE DEF new, known, turned, p
<1>11. \A x \in Agents \ moved' : /\ x \notin moved /\ metric'[x] = metric[x]
                                  /\ \A y \in Orders : Counted(y, x)' <=> Counted(y, x)
  BY <1>1, <1>4, <1>8
<1>12. ASSUME NEW x \in Customers \ moved'
       PROVE  \/ credit'[x] = ComputedOutstanding(x)'
              \/ /\ x \notin moved /\ credit'[x] = credit[x]
                 /\ \A b \in Bills : /\ Owing(b, x)' <=> Owing(b, x)
                                     /\ Owing(b, x) => bill'[b] = bill[b]
  <2>1. CASE x = c /\ new
    BY <1>6, <2>1
  <2>2. CASE x # c \/ ~new
    BY <1>5, <1>6, <1>9, <2>2
  <2> QED
    BY <2>1, <2>2
<1> QED
  BY <1>10, <1>11, <1>12, StoredKept DEF ColumnsOK

\* A note is a draft, which is owed by nobody.
LEMMA StoredNote ==
  ASSUME StoredInv, NEW n \in Notes, NEW c \in Customers, NEW d \in DueDates, Note(n, c, d)
  PROVE  ColumnsOK' /\ StoredUnlessMoved'
<1> DEFINE p == <<n, "debit_note">>
<1>1. UNCHANGED <<order, metric, credit, moved>>
  BY DEF Note
<1>2. /\ bill[p] = NoRow /\ bill'[p].status = "draft"
      /\ \A b \in Bills \ {p} : bill'[b] = bill[b]
  <2>1. /\ bill[p] = NoRow
        /\ bill'[p] = [customer |-> c, status |-> "draft", paid |-> 0, due |-> d]
        /\ \A b \in Bills \ {p} : bill'[b] = bill[b]
    BY NoteRows DEF StoredInv
  <2> HIDE DEF p
  <2> QED
    BY <2>1
<1> HIDE DEF p
<1>3. ASSUME NEW b \in Bills, NEW x \in Customers
      PROVE  /\ Owing(b, x)' <=> Owing(b, x)
             /\ Owing(b, x) => bill'[b] = bill[b]
  BY <1>2 DEF Owing
<1>4. \A y \in Orders, x \in Agents : Counted(y, x)' <=> Counted(y, x)
  BY <1>1 DEF Counted
<1>5. ColumnsOK'
  BY <1>1 DEF StoredInv, ColumnsOK
<1> QED
  BY <1>1, <1>3, <1>4, <1>5, StoredKept DEF ColumnsOK

\* A payment comes with the columns of its customer; voiding an invoice that is
\* owed does not, and is noted.
LEMMA StoredPaid ==
  ASSUME StoredInv, RowsInv', NEW b \in Bills, Pay(b) \/ DeletePayment(b) \/ Void(b)
  PROVE  ColumnsOK' /\ StoredUnlessMoved'
<1> PICK c : c = bill[b].customer
  OBVIOUS
<1>1. /\ bill[b] \in BillRow /\ bill'[b].customer = c /\ c \in Customers
      /\ \A x \in Bills \ {b} : bill'[x] = bill[x]
  BY PaidRows DEF StoredInv, BillRow
<1>2. order' = order /\ metric' = metric
  BY DEF Pay, DeletePayment, Void
<1>3. \A y \in Orders, x \in Agents : Counted(y, x)' <=> Counted(y, x)
  BY <1>2 DEF Counted
<1>4. ASSUME NEW x \in Customers, x # c, NEW y \in Bills
      PROVE  /\ Owing(y, x)' <=> Owing(y, x)
             /\ Owing(y, x) => bill'[y] = bill[y]
  BY <1>1, <1>4 DEF Owing
<1>5. c \notin Agents /\ moved \in SUBSET (Agents \cup Customers)
  BY <1>1, SetsAssumption DEF StoredInv, ColumnsOK
<1>6. CASE Pay(b) \/ DeletePayment(b)
  <2>1. credit' = [credit EXCEPT ![c] = ComputedOutstanding(c)'] /\ moved' = moved \ {c}
    <3>1. credit' = [credit EXCEPT ![c] = PayerOf(b)'] /\ moved' = moved \ {c}
      BY <1>6 DEF Pay, DeletePayment, Recompute, PayerOf
    <3>2. PayerOf(b)' = ComputedOutstanding(c)'
      BY <1>1, SamePayer
    <3> QED
      BY <3>1, <3>2
  <2>2. /\ credit' \in [Customers -> Nat]
        /\ credit'[c] = ComputedOutstanding(c)'
        /\ \A x \in Customers \ {c} : credit'[x] = credit[x]
    BY <1>1, <2>1, RecomputeRows
  <2>3. ColumnsOK'
    BY <1>2, <1>5, <2>1, <2>2 DEF StoredInv, ColumnsOK
  <2>4. \A x \in Agents \ moved' : /\ x \notin moved /\ metric'[x] = metric[x]
                                   /\ \A y \in Orders : Counted(y, x)' <=> Counted(y, x)
    BY <1>2, <1>3, <1>5, <2>1
  <2>5. ASSUME NEW x \in Customers \ moved'
        PROVE  \/ credit'[x] = ComputedOutstanding(x)'
               \/ /\ x \notin moved /\ credit'[x] = credit[x]
                  /\ \A y \in Bills : /\ Owing(y, x)' <=> Owing(y, x)
                                      /\ Owing(y, x) => bill'[y] = bill[y]
    <3>1. CASE x = c
      BY <2>2, <3>1
    <3>2. CASE x # c
      BY <1>4, <2>1, <2>2, <3>2
    <3> QED
      BY <3>1, <3>2
  <2> QED
    BY <2>3, <2>4, <2>5, StoredKept DEF ColumnsOK
<1>7. CASE Void(b)
  <2>1. /\ credit' = credit /\ bill' = [bill EXCEPT ![b].status = "void"]
        /\ moved' = IF b \in Unpaid(HomeOf[c]) THEN moved \cup {c} ELSE moved
    BY <1>7 DEF Void
  <2>2. bill'[b].status = "void"
    BY <1>1, <2>1 DEF StoredInv, RowsInv, RowsOK, BillRow
  <2>3. b \notin Unpaid(HomeOf[c]) => ~Owing(b, c)
    BY DEF Unpaid, Owing
  <2>4. ColumnsOK'
    BY <1>1, <1>2, <1>5, <2>1 DEF StoredInv, ColumnsOK
  <2>5. \A x \in Agents \ moved' : /\ x \notin moved /\ metric'[x] = metric[x]
                                   /\ \A y \in Orders : Counted(y, x)' <=> Counted(y, x)
    BY <1>2, <1>3, <2>1
  <2>6. ASSUME NEW x \in Customers \ moved'
        PROVE  /\ x \notin moved /\ credit'[x] = credit[x]
               /\ \A y \in Bills : /\ Owing(y, x)' <=> Owing(y, x)
                                   /\ Owing(y, x) => bill'[y] = bill[y]
    <3>1. x \notin moved /\ credit'[x] = credit[x] /\ (x = c => ~Owing(b, c))
      BY <2>1, <2>3
    <3>2. CASE x # c
      BY <1>4, <3>1, <3>2
    <3>3. CASE x = c
      <4>1. ASSUME NEW y \in Bills
            PROVE  /\ Owing(y, x)' <=> Owing(y, x)
                   /\ Owing(y, x) => bill'[y] = bill[y]
        <5>1. CASE y = b
          BY <2>2, <3>1, <3>3, <5>1 DEF Owing
        <5>2. CASE y # b
          BY <1>1, <5>2 DEF Owing
        <5> QED
          BY <5>1, <5>2
      <4> QED
        BY <3>1, <4>1
    <3> QED
      BY <3>2, <3>3
  <2> QED
    BY <2>4, <2>5, <2>6, StoredKept DEF ColumnsOK
<1> QED
  BY <1>6, <1>7

LEMMA StoredStep == StoredInv /\ [Next]_vars => StoredInv'
<1> SUFFICES ASSUME StoredInv, [Next]_vars
             PROVE  StoredInv'
  OBVIOUS
<1>1. RowsInv'
  BY RowsStep DEF StoredInv
<1>2. ASSUME UNCHANGED <<order, bill, metric, credit, moved>>
      PROVE  ColumnsOK' /\ StoredUnlessMoved'
  <2>1. ColumnsOK'
    BY <1>2 DEF StoredInv, ColumnsOK
  <2>2. /\ \A o \in Orders, a \in Agents : Counted(o, a)' <=> Counted(o, a)
        /\ \A b \in Bills, c \in Customers : Owing(b, c)' <=> Owing(b, c)
    BY <1>2 DEF Counted, Owing
  <2> QED
    BY <1>2, <2>1, <2>2, StoredKept DEF ColumnsOK
<1>3. ColumnsOK' /\ StoredUnlessMoved'
  <2>1. ASSUME NEW o \in Orders, NEW c \in Customers, NEW a \in Agents \cup {NoAgent},
               OpenDraft(o, c, a)
        PROVE  ColumnsOK' /\ StoredUnlessMoved'
    BY <2>1, StoredOpenDraft
  <2>2. ASSUME NEW o \in Orders, NEW s \in {"submitted", "confirmed"}, Submit(o, s)
        PROVE  ColumnsOK' /\ StoredUnlessMoved'
    BY <1>1, <2>2, StoredSubmit
  <2>3. ASSUME NEW o \in Orders, NEW s \in Written, SetStatus(o, s)
        PROVE  ColumnsOK' /\ StoredUnlessMoved'
    BY <1>1, <2>3, StoredSetStatus
  <2>4. ASSUME NEW n \in Notes, NEW c \in Customers, NEW d \in DueDates, Note(n, c, d)
        PROVE  ColumnsOK' /\ StoredUnlessMoved'
    BY <2>4, StoredNote
  <2>5. ASSUME NEW b \in Bills, Pay(b) \/ DeletePayment(b) \/ Void(b)
        PROVE  ColumnsOK' /\ StoredUnlessMoved'
    BY <1>1, <2>5, StoredPaid
  <2>6. CASE Midnight
    BY <1>2, <2>6 DEF Midnight
  <2>7. CASE UNCHANGED vars
    BY <1>2, <2>7 DEF vars
  <2> QED
    BY <2>1, <2>2, <2>3, <2>4, <2>5, <2>6, <2>7 DEF Next
<1> QED
  BY <1>1, <1>3 DEF StoredInv

-----------------------------------------------------------------------------
\* The theorems

\* In every state the rows are rows: an order has a known customer, agent and
\* status, a bill the customer of its order, no more is paid on a bill than its
\* total and none is due after Ever.
THEOREM RowsCorrect == Spec => []RowsInv
BY RowsInit, RowsStep, PTL DEF Spec

\* In every state the dashboard, the business page, the analytics, the list of
\* customers and the pages of the customers show the same debts, of each age; the
\* agents' customers owe no more than the company's, the list of overdue invoices
\* leaves out only what is partly paid, and the tax register has every invoice
\* that is owed and adds up to a paisa an invoice.
THEOREM DebtsCorrect == Spec => []DebtsAgree
BY RowsCorrect, DebtsFollow, PTL

\* In every state the sales of a company are the same on its dashboard, over its
\* customers' pages, over its agents and in its reports, status by status and day
\* by day, and no agent's page shows less than the company sees of that agent.
THEOREM SalesCorrect == Spec => []SalesAgree
BY RowsCorrect, SalesFollow, PTL

\* In every state whoever sold more has the better place on every page that ranks
\* agents, and the pages agree on what each of them sold.
THEOREM RanksCorrect == Spec => []RanksAgree
BY RowsCorrect, RanksFollow, PTL

\* In every state the stored columns of agents and customers are what the rows
\* say, except for those whose order was cancelled or revived or whose invoice was
\* voided since the columns were computed.
THEOREM StoredCorrect == Spec => []StoredUnlessMoved
<1>1. Spec => []StoredInv
  BY StoredInit, StoredStep, PTL DEF Spec
<1>2. StoredInv => StoredUnlessMoved
  BY DEF StoredInv
<1> QED
  BY <1>1, <1>2, PTL

================================================================================
