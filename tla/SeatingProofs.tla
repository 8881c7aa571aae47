---------------------------- MODULE SeatingProofs ----------------------------
(***************************************************************************)
(* Seating, for any tables, orders, reservations and clock.  Whether a     *)
(* seated party still holds its slot is asked of the order at the end of a *)
(* chain of merges: FinalOrder, a recursive function.  What it computes is *)
(* carried through the steps of the hub (MergesEnd), not proved by         *)
(* induction on the chain: a merge appends to the end of chains, and a set *)
(* of orders no merge crosses holds an order exactly when it holds the     *)
(* order at the end, which leaves one solution of the recursion.           *)
(***************************************************************************)
EXTENDS Seating, TLAPS, WellFoundedInduction

BookingRecords ==
    [status : {"none", "booked", "seated", "cancelled", "no_show"}, table : Tables \cup {None},
     start : Int, end : Int, order : Orders \cup {None}]
RequestRecords ==
    [status : {"none", "pending", "rejected", "accepted"}, table : Tables \cup {None},
     expires : Int, order : Orders \cup {None}]

SeatingTypeOK ==
    /\ now \in 0 .. MaxTime
    /\ active \in [Tables -> BOOLEAN]
    /\ tier \in [Tables -> Tiers]
    /\ status \in [Orders -> {"none", "open", "billed", "closed"}]
    /\ table \in [Orders -> Tables \cup {None}]
    /\ label \in [Orders -> Nat]
    /\ charged \in [Orders -> Tiers \cup {None}]
    /\ into \in [Orders -> Orders \cup {None}]
    /\ links \in SUBSET (Tables \X Orders)
    /\ booking \in [Reservations -> BookingRecords]
    /\ request \in [Requests -> RequestRecords]

\* What points at an order or a table points at one there is, and only a closed order was merged.
Known ==
    /\ \A o \in Orders : /\ status[o] # "none" => table[o] \in Tables
                         /\ into[o] # None => status[o] = "closed" /\ status[into[o]] # "none"
    /\ \A t \in Tables, o \in Orders : <<t, o>> \in links => status[o] # "none"
    /\ \A r \in Reservations : /\ booking[r].status # "none" => booking[r].table \in Tables
                               /\ booking[r].status = "seated" => /\ booking[r].order \in Orders
                                                                  /\ status[booking[r].order] # "none"
    /\ \A q \in Requests : request[q].status # "none" => request[q].table \in Tables

\* Merges as m records them end, each order's at F[o].
Ends(m, F) ==
    /\ \A o \in Orders : /\ m[F[o]] = None
                         /\ F[o] = IF m[o] = None THEN o ELSE F[m[o]]
    /\ \A S \in SUBSET Orders :
          (\A o \in Orders : m[o] # None => (o \in S <=> m[o] \in S)) => \A o \in Orders : o \in S <=> F[o] \in S

MergesEnd == \E F \in [Orders -> Orders] : Ends(into, F)

SeatingInv == SeatingTypeOK /\ Known /\ MergesEnd /\ SlotsDisjoint /\ TablesInUse

-----------------------------------------------------------------------------
\* Merges that end have one end: whatever solves the recursion is F.
LEMMA OneEnd ==
    ASSUME NEW m \in [Orders -> Orders \cup {None}], NEW F \in [Orders -> Orders], Ends(m, F),
           NEW G, G = [o \in Orders |-> IF m[o] = None THEN o ELSE G[m[o]]]
    PROVE  G = F
<1> SUFFICES ASSUME NEW x \in Orders PROVE G[x] = F[x]
  OBVIOUS
<1> DEFINE S == {o \in Orders : G[o] = G[x]}
<1>1. \A o \in Orders : m[o] # None => m[o] \in Orders /\ G[o] = G[m[o]]
  OBVIOUS
<1>2. \A o \in Orders : m[o] # None => (o \in S <=> m[o] \in S)
  BY <1>1
<1>3. x \in S /\ S \in SUBSET Orders
  OBVIOUS
<1> HIDE DEF S
<1>4. F[x] \in S
  BY <1>2, <1>3 DEF Ends
<1>5. G[F[x]] = F[x]
  BY DEF Ends
<1> QED
  BY <1>4, <1>5 DEF S

LEMMA FinalOrderIs ==
    ASSUME NEW F \in [Orders -> Orders]
    PROVE  /\ into \in [Orders -> Orders \cup {None}] /\ Ends(into, F) => FinalOrder = F
           /\ into' \in [Orders -> Orders \cup {None}] /\ Ends(into', F) => FinalOrder' = F
<1>1. ASSUME NEW m \in [Orders -> Orders \cup {None}], Ends(m, F)
      PROVE  F = CHOOSE G : G = [o \in Orders |-> IF m[o] = None THEN o ELSE G[m[o]]]
  <2> DEFINE R(G) == [o \in Orders |-> IF m[o] = None THEN o ELSE G[m[o]]]
  <2>1. F = R(F)
    BY <1>1 DEF Ends
  <2>2. \A G : G = R(G) => G = F
    BY <1>1, OneEnd
  <2> HIDE DEF R
  <2>3. F = CHOOSE G : G = R(G)
    BY <2>1, <2>2
  <2> QED
    BY <2>3 DEF R
<1> QED
  BY <1>1 DEF FinalOrder

\* Every set of naturals has a least one.
LEMMA LeastNatural ==
    ASSUME NEW S \in SUBSET Nat, S # {}
    PROVE  \E n \in S : \A m \in S : n <= m
<1> DEFINE R == {p \in Nat \X Nat : p[1] < p[2]}
<1>1. R = OpToRel(<, Nat)
  BY DEF OpToRel
<1>2. IsWellFoundedOn(R, Nat)
  BY <1>1, NatLessThanWellFounded
<1>3. \A m, n \in Nat : m < n => <<m, n>> \in R
  OBVIOUS
<1> HIDE DEF R
<1>4. \E n \in S : \A m \in S : ~ (<<m, n>> \in R)
  BY <1>2, WFMin
<1>5. PICK n \in S : \A m \in S : ~ (<<m, n>> \in R)
  BY <1>4
<1>6. ASSUME NEW m \in S PROVE n <= m
  <2>1. m \in Nat /\ n \in Nat
    OBVIOUS
  <2>2. ~ (m < n)
    BY <1>3, <1>5, <2>1
  <2> QED
    BY <2>1, <2>2
<1> QED
  BY <1>6

\* The lowest free label is free.
LEMMA LabelIsFree ==
    ASSUME NEW t, FreeLabels(t) # {}, MaxSplits \in Nat
    PROVE  NextLabel(t) \in FreeLabels(t) /\ NextLabel(t) \in Nat
<1>1. FreeLabels(t) \in SUBSET Nat
  BY DEF FreeLabels
<1>2. \E n \in FreeLabels(t) : \A m \in FreeLabels(t) : n <= m
  BY <1>1, LeastNatural
<1> QED
  BY <1>1, <1>2 DEF NextLabel

-----------------------------------------------------------------------------
LEMMA SeatingInvInit == Init => SeatingInv
<1> SUFFICES ASSUME Init PROVE SeatingInv
  OBVIOUS
<1> USE SeatingAssumption DEF Init
<1>1. SeatingTypeOK
  BY DEF SeatingTypeOK, BookingRecords, RequestRecords
<1>2. Known
  BY DEF Known
<1>3. MergesEnd
  <2> DEFINE F == [o \in Orders |-> o]
  <2>1. F \in [Orders -> Orders] /\ Ends(into, F)
    BY DEF Ends
  <2> QED
    BY <2>1 DEF MergesEnd
<1>4. SlotsDisjoint /\ TablesInUse
  BY DEF SlotsDisjoint, Holds, TablesInUse, Live, LinkedTo
<1> QED
  BY <1>1, <1>2, <1>3, <1>4 DEF SeatingInv

\* A new order at a table.
LEMMA OpenAtKnown ==
    ASSUME SeatingTypeOK, Known, NEW o \in Orders, NEW t \in Tables, OpenAt(o, t)
    PROVE  /\ status' \in [Orders -> {"none", "open", "billed", "closed"}]
           /\ table' \in [Orders -> Tables \cup {None}]
           /\ label' \in [Orders -> Nat]
           /\ charged' \in [Orders -> Tiers \cup {None}]
           /\ UNCHANGED <<into, links>>
           /\ status[o] = "none" /\ into[o] = None
           /\ status' = [status EXCEPT ![o] = "open"]
           /\ \A p \in Orders : p # o => table'[p] = table[p] /\ label'[p] = label[p] /\ charged'[p] = charged[p]
           /\ table'[o] = t /\ charged'[o] = tier[t] /\ label'[o] \in FreeLabels(t)
<1>1. NextLabel(t) \in FreeLabels(t) /\ NextLabel(t) \in Nat
  BY LabelIsFree, SeatingAssumption DEF OpenAt
<1> QED
  BY <1>1 DEF OpenAt, SeatingTypeOK, Known

\* Every step keeps the types and what is known.
LEMMA KnownStep ==
    ASSUME SeatingTypeOK, Known, [Next]_vars
    PROVE  SeatingTypeOK' /\ Known'
<1> USE SeatingAssumption
<1>1. CASE UNCHANGED vars
  BY <1>1 DEF vars, tableVars, orderVars, SeatingTypeOK, Known
<1>2. CASE Tick
  BY <1>2 DEF Tick, tableVars, orderVars, SeatingTypeOK, Known
<1>3. ASSUME NEW o \in Orders, Bill(o) \/ Close(o) PROVE SeatingTypeOK' /\ Known'
  BY <1>3 DEF Bill, Close, Live, tableVars, SeatingTypeOK, Known
<1>4. ASSUME NEW o \in Orders, NEW t \in Tables, OpenOrder(o, t) PROVE SeatingTypeOK' /\ Known'
  BY <1>4, OpenAtKnown DEF OpenOrder, tableVars, SeatingTypeOK, Known
<1>5. ASSUME NEW o \in Orders, NEW t \in Tables, Move(o, t) PROVE SeatingTypeOK' /\ Known'
  <2>1. NextLabel(t) \in Nat
    BY <1>5, LabelIsFree DEF Move
  <2> QED
    BY <1>5, <2>1 DEF Move, tableVars, SeatingTypeOK, Known
<1>6. ASSUME NEW s \in Orders, NEW r \in Orders, Merge(s, r) PROVE SeatingTypeOK' /\ Known'
  <2> DEFINE Folded == {table[s]} \cup {t \in Tables : <<t, s>> \in links}
  <2>1. /\ s # r  /\ status[s] = "open"  /\ status[r] = "open"
        /\ status'  = [status EXCEPT ![s] = "closed"]
        /\ into'    = [into EXCEPT ![s] = r]
        /\ links' = {l \in links : l[2] # s} \cup {<<t, r>> : t \in Folded \ {table[r]}}
        /\ request' = [q \in Requests |-> Follow(q, s, r)]
        /\ UNCHANGED <<now, active, tier, table, label, charged, booking>>
    BY <1>6 DEF Merge, tableVars
  <2>2. Folded \subseteq Tables
    BY <2>1 DEF Known
  <2> HIDE DEF Folded
  <2>3. links' \in SUBSET (Tables \X Orders) /\ \A t \in Tables, o \in Orders : <<t, o>> \in links' => o = r \/ <<t, o>> \in links
    BY <2>1, <2>2 DEF SeatingTypeOK
  <2>4. \A q \in Requests : /\ Follow(q, s, r) \in RequestRecords
                            /\ Follow(q, s, r).status = request[q].status /\ Follow(q, s, r).table = request[q].table
    BY DEF Follow, SeatingTypeOK, RequestRecords
  <2> HIDE DEF Known
  <2>5. SeatingTypeOK'
    BY <2>1, <2>3, <2>4 DEF SeatingTypeOK
  <2> QED
    BY <2>1, <2>3, <2>4, <2>5 DEF SeatingTypeOK, Known
<1>7. ASSUME NEW r \in Reservations, NEW o \in Orders, Seat(r, o) PROVE SeatingTypeOK' /\ Known'
  <2> DEFINE t == booking[r].table
  <2>1. booking[r].status = "booked" /\ t \in Tables
    BY <1>7 DEF Seat, Known
  <2>2. /\ OpenAt(o, t) /\ UNCHANGED <<now, active, tier, request>>
        /\ booking' = [booking EXCEPT ![r].status = "seated", ![r].order = o]
    BY <1>7 DEF Seat, tableVars
  <2>3. /\ booking' \in [Reservations -> BookingRecords]
        /\ booking'[r].status = "seated" /\ booking'[r].order = o /\ booking'[r].table = t
        /\ \A p \in Reservations : p # r => booking'[p] = booking[p]
    BY <2>2 DEF SeatingTypeOK, BookingRecords
  <2> HIDE DEF t
  <2> QED
    BY <2>1, <2>2, <2>3, OpenAtKnown DEF SeatingTypeOK, Known
<1>8. ASSUME NEW q \in Requests, NEW o \in Orders, AcceptInto(q, o) PROVE SeatingTypeOK' /\ Known'
  <2>1. /\ request[q].status = "pending" /\ request' = [request EXCEPT ![q].status = "accepted", ![q].order = o]
        /\ UNCHANGED <<now, active, tier, status, table, label, charged, into, links, booking>>
    BY <1>8 DEF AcceptInto, Accepted, Pending, tableVars, orderVars
  <2>2. /\ request' \in [Requests -> RequestRecords]
        /\ \A p \in Requests : request'[p].table = request[p].table /\ (request'[p].status # "none" => request[p].status # "none")
    BY <2>1 DEF SeatingTypeOK, RequestRecords
  <2>3. SeatingTypeOK'
    BY <2>1, <2>2 DEF SeatingTypeOK
  <2> QED
    BY <2>1, <2>2, <2>3 DEF Known
<1>9. ASSUME NEW q \in Requests, NEW o \in Orders, AcceptNew(q, o) PROVE SeatingTypeOK' /\ Known'
  <2> DEFINE t == request[q].table
  <2>1. t \in Tables /\ OpenAt(o, t) /\ UNCHANGED <<now, active, tier, booking>>
    BY <1>9 DEF AcceptNew, Pending, Known, tableVars
  <2>2. request' \in [Requests -> RequestRecords]
    BY <1>9 DEF AcceptNew, Accepted, SeatingTypeOK, RequestRecords
  <2>3. \A p \in Requests : request'[p].status = "none" \/ request'[p].table \in Tables
    BY <1>9, <2>1 DEF AcceptNew, Accepted, SeatingTypeOK, RequestRecords, Known
  <2> HIDE DEF t
  <2> QED
    BY <2>1, <2>2, <2>3, OpenAtKnown DEF SeatingTypeOK, Known
<1>10. ASSUME NEW t \in Tables, NEW a \in BOOLEAN, SetActive(t, a) PROVE SeatingTypeOK' /\ Known'
  BY <1>10 DEF SetActive, orderVars, SeatingTypeOK, Known
<1>11. ASSUME NEW t \in Tables, NEW p \in Tiers, SetTier(t, p) PROVE SeatingTypeOK' /\ Known'
  BY <1>11 DEF SetTier, orderVars, SeatingTypeOK, Known
<1>12. ASSUME NEW r \in Reservations, NEW t \in Tables, NEW s \in 0 .. MaxTime, NEW e \in 0 .. MaxTime, Book(r, t, s, e)
       PROVE  SeatingTypeOK' /\ Known'
  BY <1>12 DEF Book, tableVars, orderVars, SeatingTypeOK, BookingRecords, Known
<1>13. ASSUME NEW r \in Reservations, NEW as \in {"cancelled", "no_show"}, CallOff(r, as)
       PROVE  SeatingTypeOK' /\ Known'
  BY <1>13 DEF CallOff, tableVars, orderVars, SeatingTypeOK, BookingRecords, Known
<1>14. ASSUME NEW q \in Requests, Reject(q) PROVE SeatingTypeOK' /\ Known'
  BY <1>14 DEF Reject, Pending, tableVars, orderVars, SeatingTypeOK, RequestRecords, Known
<1>15. ASSUME NEW q \in Requests, NEW t \in Tables, Submit(q, t) PROVE SeatingTypeOK' /\ Known'
  <2>1. now + Lifetime \in Int
    BY DEF SeatingTypeOK
  <2> QED
    BY <1>15, <2>1 DEF Submit, tableVars, orderVars, SeatingTypeOK, RequestRecords, Known
<1> QED
  BY <1>1, <1>2, <1>3, <1>4, <1>5, <1>6, <1>7, <1>8, <1>9, <1>10, <1>11, <1>12, <1>13, <1>14, <1>15 DEF Next

-----------------------------------------------------------------------------
(* Merges end, and a party holds a slot after a step only if it did before.*)

\* A merge of s into r makes r the end of every chain that ended at s.
LEMMA EndsGrow ==
    ASSUME SeatingTypeOK, Known, NEW F \in [Orders -> Orders], Ends(into, F),
           NEW s \in Orders, NEW r \in Orders, Merge(s, r)
    PROVE  Ends(into', [o \in Orders |-> IF F[o] = s THEN r ELSE F[o]])
<1> USE SeatingAssumption
<1> DEFINE E == [o \in Orders |-> IF F[o] = s THEN r ELSE F[o]]
<1>1. s # r /\ into[s] = None /\ into[r] = None /\ into' = [into EXCEPT ![s] = r]
  BY DEF Merge, Known
<1>2. F[s] = s /\ F[r] = r
  BY <1>1 DEF Ends
<1>3. /\ into'[s] = r
      /\ \A o \in Orders : o # s => into'[o] = into[o]
  BY <1>1 DEF SeatingTypeOK
<1>4. ASSUME NEW o \in Orders
      PROVE  /\ into'[E[o]] = None
             /\ E[o] = IF into'[o] = None THEN o ELSE E[into'[o]]
  <2>1. into'[E[o]] = None
    BY <1>1, <1>3 DEF Ends
  <2>2. E[s] = r /\ E[r] = r
    BY <1>1, <1>2
  <2>3. CASE o = s
    BY <1>3, <2>1, <2>2, <2>3
  <2>4. CASE o # s
    <3>1. into'[o] = into[o] /\ (into[o] # None => into[o] \in Orders)
      BY <1>3, <2>4 DEF SeatingTypeOK
    <3>2. F[o] = IF into[o] = None THEN o ELSE F[into[o]]
      BY DEF Ends
    <3>3. into[o] = None => E[o] = o
      BY <2>4, <3>2
    <3>4. into[o] # None => E[o] = E[into[o]]
      BY <3>1, <3>2
    <3> QED
      BY <2>1, <3>1, <3>3, <3>4
  <2> QED
    BY <2>3, <2>4
<1>5. ASSUME NEW S \in SUBSET Orders, \A o \in Orders : into'[o] # None => (o \in S <=> into'[o] \in S),
             NEW o \in Orders
      PROVE  o \in S <=> E[o] \in S
  <2>1. \A p \in Orders : into[p] # None => (p \in S <=> into[p] \in S)
    BY <1>1, <1>3, <1>5
  <2>2. o \in S <=> F[o] \in S
    BY <2>1 DEF Ends
  <2>3. s \in S <=> r \in S
    BY <1>3, <1>5
  <2> QED
    BY <2>2, <2>3
<1> QED
  BY <1>4, <1>5 DEF Ends

LEMMA MergesEndStep ==
    ASSUME SeatingTypeOK, Known, MergesEnd, [Next]_vars
    PROVE  MergesEnd'
<1>1. CASE into' = into
  BY <1>1 DEF MergesEnd
<1>2. ASSUME NEW s \in Orders, NEW r \in Orders, Merge(s, r) PROVE MergesEnd'
  <2>1. PICK F \in [Orders -> Orders] : Ends(into, F)
    BY DEF MergesEnd
  <2> DEFINE E == [o \in Orders |-> IF F[o] = s THEN r ELSE F[o]]
  <2>2. E \in [Orders -> Orders] /\ Ends(into', E)
    BY <1>2, <2>1, EndsGrow
  <2> HIDE DEF E
  <2> QED
    BY <2>2 DEF MergesEnd
<1> QED
  BY <1>1, <1>2 DEF Next, Tick, Bill, Close, OpenOrder, OpenAt, Move, Seat, AcceptInto, AcceptNew, SetActive, SetTier,
                    Book, CallOff, Reject, Submit, orderVars, vars

\* The end of an order there is, is an order there is that was not merged further.
LEMMA FinalOrderKnown ==
    ASSUME SeatingTypeOK, Known, MergesEnd, NEW o \in Orders, status[o] # "none"
    PROVE  FinalOrder[o] \in Orders /\ into[FinalOrder[o]] = None /\ status[FinalOrder[o]] # "none"
<1>1. PICK F \in [Orders -> Orders] : Ends(into, F)
  BY DEF MergesEnd
<1>2. FinalOrder = F
  BY <1>1, FinalOrderIs DEF SeatingTypeOK
<1> DEFINE S == {p \in Orders : status[p] # "none"}
<1>3. \A p \in Orders : into[p] # None => (p \in S <=> into[p] \in S)
  BY DEF Known, SeatingTypeOK
<1>4. o \in S <=> F[o] \in S
  <2>1. S \in SUBSET Orders
    OBVIOUS
  <2> HIDE DEF S
  <2> QED
    BY <1>1, <1>3, <2>1 DEF Ends
<1> QED
  BY <1>1, <1>2, <1>4 DEF Ends

\* What a step does to the end of an order.
LEMMA FinalOrderStep ==
    ASSUME SeatingTypeOK, Known, MergesEnd, NEW o \in Orders
    PROVE  /\ into' = into => FinalOrder'[o] = FinalOrder[o]
           /\ \A s, r \in Orders : Merge(s, r) => FinalOrder'[o] = IF FinalOrder[o] = s THEN r ELSE FinalOrder[o]
<1>1. PICK F \in [Orders -> Orders] : Ends(into, F)
  BY DEF MergesEnd
<1>2. FinalOrder = F
  BY <1>1, FinalOrderIs DEF SeatingTypeOK
<1>3. ASSUME into' = into PROVE FinalOrder' = F
  <2>1. into' \in [Orders -> Orders \cup {None}] /\ Ends(into', F)
    BY <1>1, <1>3 DEF SeatingTypeOK
  <2> QED
    BY <2>1, FinalOrderIs
<1>4. ASSUME NEW s \in Orders, NEW r \in Orders, Merge(s, r)
      PROVE  FinalOrder'[o] = IF FinalOrder[o] = s THEN r ELSE FinalOrder[o]
  <2> DEFINE E == [p \in Orders |-> IF F[p] = s THEN r ELSE F[p]]
  <2>1. E \in [Orders -> Orders] /\ Ends(into', E)
    BY <1>1, <1>4, EndsGrow
  <2>2. into' \in [Orders -> Orders \cup {None}]
    BY <1>4 DEF Merge, SeatingTypeOK
  <2>3. E[o] = IF F[o] = s THEN r ELSE F[o]
    OBVIOUS
  <2> HIDE DEF E
  <2>4. FinalOrder' = E
    BY <2>1, <2>2, FinalOrderIs
  <2> QED
    BY <1>2, <2>3, <2>4
<1> QED
  BY <1>2, <1>3, <1>4

LEMMA HoldsStep ==
    ASSUME SeatingTypeOK, Known, MergesEnd, [Next]_vars, NEW p \in Reservations, booking'[p] = booking[p], Holds(p)'
    PROVE  Holds(p)
<1> USE SeatingAssumption DEF SeatingTypeOK
<1>1. CASE booking[p].status # "seated"
  BY <1>1 DEF Holds
<1> DEFINE b == booking[p].order
<1>2. ASSUME booking[p].status = "seated", Live(FinalOrder[b])' PROVE Live(FinalOrder[b])
  <2>1. b \in Orders /\ status[b] # "none"
    BY <1>2 DEF Known
  <2> DEFINE f == FinalOrder[b]
  <2>2. f \in Orders /\ into[f] = None /\ status[f] # "none"
    BY <2>1, FinalOrderKnown
  <2>3. Live(FinalOrder[b])' <=> status'[FinalOrder'[b]] \in {"open", "billed"}
    <3>1. (FinalOrder[b])' = FinalOrder'[b]
      BY <1>2
    <3> QED
      BY <1>2, <3>1 DEF Live
  <2>4. CASE into' = into
    <3>1. status'[f] \in {"open", "billed"}
      BY <1>2, <2>1, <2>3, <2>4, FinalOrderStep
    <3>2. \/ status'[f] = status[f]
          \/ \E s, r \in Orders : Merge(s, r)
          \/ status[f] = "none"
          \/ status[f] \in {"open", "billed"}
      BY <2>2 DEF Next, vars, orderVars, tableVars, Tick, Bill, Close, Live, OpenOrder, OpenAt, Move, Seat, AcceptInto,
                  AcceptNew, SetActive, SetTier, Book, CallOff, Reject, Submit
    <3>3. ASSUME NEW s \in Orders, NEW r \in Orders, Merge(s, r) PROVE FALSE
      <4>1. status[s] = "open" /\ into' = [into EXCEPT ![s] = r]
        BY <3>3 DEF Merge
      <4>2. into[s] = None /\ into'[s] = r
        BY <4>1 DEF Known
      <4> QED
        BY <2>4, <4>2
    <3> QED
      BY <2>2, <3>1, <3>2, <3>3 DEF Live
  <2>5. ASSUME NEW s \in Orders, NEW r \in Orders, Merge(s, r) PROVE Live(FinalOrder[b])
    <3>1. /\ status[s] = "open" /\ status' = [status EXCEPT ![s] = "closed"]
      BY <2>5 DEF Merge
    <3>2. CASE f = s
      BY <3>1, <3>2 DEF Live
    <3>3. CASE f # s
      BY <1>2, <2>1, <2>2, <2>3, <2>5, <3>1, <3>3, FinalOrderStep DEF Live
    <3> QED
      BY <3>2, <3>3
  <2>6. into' = into \/ \E s, r \in Orders : Merge(s, r)
    BY DEF Next, Tick, Bill, Close, OpenOrder, OpenAt, Move, Seat, AcceptInto, AcceptNew, SetActive, SetTier,
           Book, CallOff, Reject, Submit, orderVars, vars
  <2> QED
    BY <2>4, <2>5, <2>6
<1> QED
  BY <1>1, <1>2 DEF Holds

-----------------------------------------------------------------------------
\* A slot is only taken by a booking, and that asks for it to be free.
LEMMA SlotsStep ==
    ASSUME SeatingTypeOK, Known, MergesEnd, SlotsDisjoint, [Next]_vars
    PROVE  SlotsDisjoint'
<1> USE SeatingAssumption
<1> DEFINE SameSlot(q) == /\ booking'[q].table = booking[q].table
                          /\ booking'[q].start = booking[q].start /\ booking'[q].end = booking[q].end
                          /\ Holds(q)' => Holds(q)
<1>1. \A q \in Reservations : booking'[q] = booking[q] => SameSlot(q)
  BY HoldsStep
<1>2. CASE booking' = booking
  BY <1>1, <1>2 DEF SlotsDisjoint, Overlap
<1>3. ASSUME NEW r \in Reservations, NEW as \in {"cancelled", "no_show"}, CallOff(r, as) PROVE SlotsDisjoint'
  <2>1. ~ Holds(r)' /\ \A q \in Reservations : q # r => booking'[q] = booking[q]
    BY <1>3 DEF CallOff, Holds, SeatingTypeOK, BookingRecords
  <2> QED
    BY <1>1, <2>1 DEF SlotsDisjoint, Overlap
<1>4. ASSUME NEW r \in Reservations, NEW o \in Orders, Seat(r, o) PROVE SlotsDisjoint'
  <2>1. /\ booking[r].status = "booked" /\ booking' = [booking EXCEPT ![r].status = "seated", ![r].order = o]
    BY <1>4 DEF Seat
  <2>2. /\ SameSlot(r) /\ \A q \in Reservations : q # r => booking'[q] = booking[q]
    BY <2>1 DEF Holds, SeatingTypeOK, BookingRecords
  <2> QED
    BY <1>1, <2>2 DEF SlotsDisjoint, Overlap
<1>5. ASSUME NEW r \in Reservations, NEW t \in Tables, NEW s \in 0 .. MaxTime, NEW e \in 0 .. MaxTime, Book(r, t, s, e)
      PROVE  SlotsDisjoint'
  <2>1. /\ booking'[r].table = t /\ booking'[r].start = s /\ booking'[r].end = e
        /\ \A q \in Reservations : q # r => booking'[q] = booking[q]
    BY <1>5 DEF Book, SeatingTypeOK
  <2>2. \A q \in Reservations : q # r => ~(booking[q].table = t /\ Holds(q) /\ booking[q].start < e /\ s < booking[q].end)
    BY <1>5 DEF Book, Bookable, SlotFree, Overlap
  <2>3. ASSUME NEW x \in Reservations, NEW y \in Reservations, x # y, booking'[x].table = booking'[y].table,
               Holds(x)', Holds(y)', booking'[x].start < booking'[y].end, booking'[y].start < booking'[x].end
        PROVE  FALSE
    <3>1. CASE x = r
      BY <1>1, <2>1, <2>2, <2>3, <3>1
    <3>2. CASE y = r
      BY <1>1, <2>1, <2>2, <2>3, <3>2
    <3>3. CASE x # r /\ y # r
      BY <1>1, <2>1, <2>3, <3>3 DEF SlotsDisjoint, Overlap
    <3> QED
      BY <3>1, <3>2, <3>3
  <2> QED
    BY <2>3 DEF SlotsDisjoint, Overlap
<1> HIDE DEF SameSlot
<1> QED
  BY <1>2, <1>3, <1>4, <1>5 DEF Next, vars, Tick, Bill, Close, OpenOrder, Move, Merge, AcceptInto, AcceptNew,
                                SetActive, SetTier, Reject, Submit

\* A new order gets a free letter and its table's prices, at a table that is open for use.
LEMMA OpenAtInUse ==
    ASSUME SeatingTypeOK, Known, TablesInUse, NEW o \in Orders, NEW t \in Tables, OpenAt(o, t), active[t],
           UNCHANGED <<now, active, tier>>,
           \A r \in Reservations : booking'[r].status = "booked" => booking'[r] = booking[r]
    PROVE  TablesInUse'
<1> USE SeatingAssumption
<1>1. /\ status[o] = "none" /\ status' = [status EXCEPT ![o] = "open"] /\ links' = links
      /\ \A p \in Orders : p # o => table'[p] = table[p] /\ label'[p] = label[p] /\ charged'[p] = charged[p]
      /\ table'[o] = t /\ charged'[o] = tier[t] /\ label'[o] \in FreeLabels(t)
  BY OpenAtKnown
<1>2. \A p \in Orders : p # o => (Live(p)' <=> Live(p))
  BY <1>1 DEF Live, SeatingTypeOK
<1>3. \A u \in Tables : <<u, o>> \notin links
  BY <1>1 DEF Known
<1>4. \A p \in Orders : Live(p) /\ table[p] = t => label[p] # label'[o]
  BY <1>1 DEF FreeLabels, PartiesAt
<1>5. ASSUME NEW p \in Orders, Live(p)'
      PROVE  /\ active'[table'[p]]  /\ charged'[p] = tier'[table'[p]]
             /\ <<table'[p], p>> \notin links'
             /\ \A q \in Orders \ {p} : Live(q)' /\ table'[q] = table'[p] => label'[q] # label'[p]
  BY <1>1, <1>2, <1>3, <1>4, <1>5 DEF TablesInUse, PartiesAt
<1>6. \A u \in Tables : LinkedTo(u)' # {} => active'[u]
  BY <1>1, <1>2, <1>3 DEF TablesInUse, LinkedTo
<1>7. \A r \in Reservations : booking'[r].status = "booked" /\ booking'[r].end > now' => active'[booking'[r].table]
  BY DEF TablesInUse
<1> QED
  BY <1>5, <1>6, <1>7 DEF TablesInUse, PartiesAt

\* No step but those of orders and tables touches what is in use.
LEMMA SameInUse ==
    ASSUME TablesInUse, UNCHANGED <<active, tier, status, table, label, charged, links>>,
           \A r \in Reservations : booking'[r].status = "booked" /\ booking'[r].end > now' => active[booking'[r].table]
    PROVE  TablesInUse'
BY DEF TablesInUse, PartiesAt, LinkedTo, Live

LEMMA InUseStep ==
    ASSUME SeatingTypeOK, Known, TablesInUse, [Next]_vars
    PROVE  TablesInUse'
<1> USE SeatingAssumption
<1>1. CASE UNCHANGED vars
  BY <1>1, SameInUse DEF vars, tableVars, orderVars, TablesInUse
<1>2. CASE Tick
  <2>1. \A r \in Reservations : booking[r].end > now + 1 => booking[r].end > now
    BY DEF SeatingTypeOK, BookingRecords
  <2> QED
    BY <1>2, <2>1, SameInUse DEF Tick, tableVars, orderVars, TablesInUse
<1>3. ASSUME NEW o \in Orders, Bill(o) \/ Close(o) PROVE TablesInUse'
  <2>1. UNCHANGED <<now, active, tier, table, label, charged, links, booking>>
    BY <1>3 DEF Bill, Close, tableVars
  <2>2. \A p \in Orders : Live(p)' => Live(p)
    BY <1>3 DEF Bill, Close, Live, SeatingTypeOK
  <2> QED
    BY <2>1, <2>2 DEF TablesInUse, PartiesAt, LinkedTo
<1>4. ASSUME NEW o \in Orders, NEW t \in Tables, OpenOrder(o, t) PROVE TablesInUse'
  BY <1>4, OpenAtInUse DEF OpenOrder, tableVars
<1>5. ASSUME NEW o \in Orders, NEW t \in Tables, Move(o, t) PROVE TablesInUse'
  <2>1. /\ active[t] /\ PartiesAt(t) = {} /\ links' = links \ {<<t, o>>}
        /\ UNCHANGED <<now, active, tier, status, booking>>
        /\ table'[o] = t /\ charged'[o] = tier[t]
        /\ \A p \in Orders : p # o => table'[p] = table[p] /\ label'[p] = label[p] /\ charged'[p] = charged[p]
    BY <1>5 DEF Move, tableVars, SeatingTypeOK
  <2>2. \A p \in Orders : Live(p)' <=> Live(p)
    BY <2>1 DEF Live
  <2>3. ASSUME NEW p \in Orders, Live(p)'
        PROVE  /\ active'[table'[p]]  /\ charged'[p] = tier'[table'[p]]
               /\ <<table'[p], p>> \notin links'
               /\ \A q \in Orders \ {p} : Live(q)' /\ table'[q] = table'[p] => label'[q] # label'[p]
    BY <2>1, <2>2, <2>3 DEF TablesInUse, PartiesAt
  <2>4. \A u \in Tables : LinkedTo(u)' # {} => active'[u]
    BY <2>1, <2>2 DEF TablesInUse, LinkedTo
  <2> QED
    BY <2>1, <2>3, <2>4 DEF TablesInUse, PartiesAt
<1>6. ASSUME NEW s \in Orders, NEW r \in Orders, Merge(s, r) PROVE TablesInUse'
  <2> DEFINE Folded == {table[s]} \cup {t \in Tables : <<t, s>> \in links}
  <2>1. /\ s # r  /\ status[s] = "open"  /\ status[r] = "open"
        /\ status'  = [status EXCEPT ![s] = "closed"]
        /\ links' = {l \in links : l[2] # s} \cup {<<t, r>> : t \in Folded \ {table[r]}}
        /\ UNCHANGED <<now, active, tier, table, label, charged, booking>>
    BY <1>6 DEF Merge, tableVars
  <2>2. /\ ~ Live(s)' /\ Live(s) /\ Live(r)
        /\ \A p \in Orders : p # s => (Live(p)' <=> Live(p))
    BY <2>1 DEF Live, SeatingTypeOK
  <2>3. \A t \in Folded : active[t]
    BY <2>2 DEF TablesInUse, LinkedTo
  <2>4. \A t \in Tables, p \in Orders : <<t, p>> \in links' => <<t, p>> \in links \/ (p = r /\ t \in Folded /\ t # table[r])
    BY <2>1
  <2> HIDE DEF Folded
  <2>5. ASSUME NEW p \in Orders, Live(p)'
        PROVE  /\ active'[table'[p]]  /\ charged'[p] = tier'[table'[p]]
               /\ <<table'[p], p>> \notin links'
               /\ \A q \in Orders \ {p} : Live(q)' /\ table'[q] = table'[p] => label'[q] # label'[p]
    <3>1. Live(p) /\ table[p] \in Tables
      BY <2>2, <2>5 DEF Known, Live
    <3> QED
      BY <2>1, <2>2, <2>4, <2>5, <3>1 DEF TablesInUse, PartiesAt
  <2>6. \A u \in Tables : LinkedTo(u)' # {} => active'[u]
    BY <2>1, <2>2, <2>3, <2>4 DEF TablesInUse, LinkedTo
  <2> QED
    BY <2>1, <2>5, <2>6 DEF TablesInUse, PartiesAt
<1>7. ASSUME NEW r \in Reservations, NEW o \in Orders, Seat(r, o) PROVE TablesInUse'
  <2>1. booking[r].table \in Tables
    BY <1>7 DEF Seat, Known
  <2>2. \A p \in Reservations : booking'[p].status = "booked" => booking'[p] = booking[p]
    BY <1>7 DEF Seat, SeatingTypeOK, BookingRecords
  <2> QED
    BY <1>7, <2>1, <2>2, OpenAtInUse DEF Seat, tableVars
<1>8. ASSUME NEW q \in Requests, NEW o \in Orders, AcceptNew(q, o) PROVE TablesInUse'
  <2>1. request[q].table \in Tables
    BY <1>8 DEF AcceptNew, Pending, Known
  <2> QED
    BY <1>8, <2>1, OpenAtInUse DEF AcceptNew, tableVars
<1>9. ASSUME NEW t \in Tables, NEW a \in BOOLEAN, SetActive(t, a) PROVE TablesInUse'
  <2>1. /\ UNCHANGED <<now, tier, status, table, label, charged, links, booking>>
        /\ ~a => /\ PartiesAt(t) = {}  /\ LinkedTo(t) = {}
                 /\ \A r \in Reservations : ~(booking[r].status = "booked" /\ booking[r].table = t /\ booking[r].end > now)
        /\ active' = [active EXCEPT ![t] = a]
    BY <1>9 DEF SetActive, MayDeactivate, orderVars
  <2>2. \A u \in Tables : active'[u] = IF u = t THEN a ELSE active[u]
    BY <2>1 DEF SeatingTypeOK
  <2>3. ASSUME NEW p \in Orders, Live(p) PROVE active'[table[p]]
    <3>1. table[p] \in Tables /\ active[table[p]]
      BY <2>3 DEF Known, Live, TablesInUse
    <3>2. table[p] = t => a
      BY <2>1, <2>3 DEF PartiesAt
    <3> QED
      BY <2>2, <3>1, <3>2
  <2>4. \A u \in Tables : LinkedTo(u) # {} => active'[u]
    BY <2>1, <2>2 DEF TablesInUse
  <2>5. \A r \in Reservations : booking[r].status = "booked" /\ booking[r].end > now => active'[booking[r].table]
    BY <2>1, <2>2 DEF TablesInUse, Known
  <2> QED
    BY <2>1, <2>3, <2>4, <2>5 DEF TablesInUse, PartiesAt, LinkedTo, Live
<1>10. ASSUME NEW t \in Tables, NEW p \in Tiers, SetTier(t, p) PROVE TablesInUse'
  <2>1. /\ UNCHANGED <<now, active, status, table, label, charged, links, booking>>
        /\ \A o \in Orders : Live(o) => table[o] # t
        /\ tier' = [tier EXCEPT ![t] = p]
    BY <1>10 DEF SetTier, orderVars, PartiesAt
  <2>2. \A o \in Orders : Live(o) => tier'[table[o]] = tier[table[o]]
    BY <2>1 DEF Known, Live, SeatingTypeOK
  <2> QED
    BY <2>1, <2>2 DEF TablesInUse, PartiesAt, LinkedTo, Live
<1>11. ASSUME NEW r \in Reservations, NEW t \in Tables, NEW s \in 0 .. MaxTime, NEW e \in 0 .. MaxTime, Book(r, t, s, e)
       PROVE  TablesInUse'
  <2>1. \A p \in Reservations : booking'[p].status = "booked" /\ booking'[p].end > now => active[booking'[p].table]
    BY <1>11 DEF Book, Bookable, SeatingTypeOK, TablesInUse
  <2> QED
    BY <1>11, <2>1, SameInUse DEF Book, tableVars, orderVars
<1>12. ASSUME NEW r \in Reservations, NEW as \in {"cancelled", "no_show"}, CallOff(r, as) PROVE TablesInUse'
  <2>1. \A p \in Reservations : booking'[p].status = "booked" => booking'[p] = booking[p]
    BY <1>12 DEF CallOff, SeatingTypeOK, BookingRecords
  <2> QED
    BY <1>12, <2>1, SameInUse DEF CallOff, tableVars, orderVars, TablesInUse
<1>13. CASE UNCHANGED <<now, tableVars, orderVars, booking>>
  BY <1>13, SameInUse DEF tableVars, orderVars, TablesInUse
<1>14. \A q \in Requests, o \in Orders : AcceptInto(q, o) => UNCHANGED <<now, tableVars, orderVars, booking>>
  BY DEF AcceptInto
<1>15. \A q \in Requests : /\ Reject(q) => UNCHANGED <<now, tableVars, orderVars, booking>>
                           /\ \A t \in Tables : Submit(q, t) => UNCHANGED <<now, tableVars, orderVars, booking>>
  BY DEF Reject, Submit
<1> QED
  BY <1>1, <1>2, <1>3, <1>4, <1>5, <1>6, <1>7, <1>8, <1>9, <1>10, <1>11, <1>12, <1>13, <1>14, <1>15 DEF Next

-----------------------------------------------------------------------------
LEMMA SeatingInvariance == Spec => []SeatingInv
<1>1. Init => SeatingInv
  BY SeatingInvInit
<1>2. SeatingInv /\ [Next]_vars => SeatingInv'
  BY KnownStep, MergesEndStep, SlotsStep, InUseStep DEF SeatingInv
<1> QED
  BY <1>1, <1>2, PTL DEF Spec

\* Two reservations of a table never overlap while both are booked or their parties sit on unpaid bills, whatever
\* was moved, merged in chains and edited since assertReservationSlot was asked.
THEOREM SlotsStayDisjoint == Spec => []SlotsDisjoint
<1>1. SeatingInv => SlotsDisjoint
  BY DEF SeatingInv
<1> QED
  BY <1>1, SeatingInvariance, PTL

\* Live orders, links and coming bookings are at tables open for use, charged as the table is, with letters of their own.
THEOREM TablesStayInUse == Spec => []TablesInUse
<1>1. SeatingInv => TablesInUse
  BY DEF SeatingInv
<1> QED
  BY <1>1, SeatingInvariance, PTL
=============================================================================
