---------------------------- MODULE BillingProofs ----------------------------
(***************************************************************************)
(* Orders and Billing, for every set of orders, lines, combos, stations    *)
(* and recipes, and any prices, discounts, references and number of        *)
(* waiting calls.                                                          *)
(*                                                                         *)
(* First the lines of orders: types, ComboTogether and StockFollowsItems   *)
(* hold in every reachable state of Orders.  None of them is inductive     *)
(* alone (a quantity must be positive to be divided by, a return must not  *)
(* exceed the sale to be subtracted from it), so they are proved together  *)
(* as Inv; what is on a ticket and what has been merged away, as Trail.    *)
(*                                                                         *)
(* Then order, bill, money and kitchen agree in every reachable state of   *)
(* Billing, and the hub implements Tabs.  The parts are proved together as *)
(* BillingInv: that a bill is the one reviewed rests on what waiting calls *)
(* and bills remember (CallsOK, RefsOK), and all of it on Inv and Trail,   *)
(* which the steps of Billing are shown to keep too.                       *)
(***************************************************************************)
EXTENDS Billing, TLAPS

\* A line exists exactly when it is on an order, and holds portions; only the kitchen cuts and returns.
RowsOK ==
    \A i \in Rows :
        /\ rowStatus[i] = "none" <=> rowOrder[i] = None
        /\ rowStatus[i] # "none" => qty[i] > 0
        /\ rowStatus[i] \in {"none", "pending"} =>
              cut[i] = 0 /\ returned[i] = 0 /\ reversed[i] = 0 /\ ticket[i] = None

Inv == TypeOK /\ RowsOK /\ ComboTogether /\ StockFollowsItems

-----------------------------------------------------------------------------
(* Arithmetic of recipes, portions and combos.                             *)

\* A whole number of shares divides evenly: what makes PartialReturn exact.
LEMMA ShareIsExact ==
    ASSUME NEW u \in Nat, NEW k \in Nat, NEW n \in Nat \ {0}
    PROVE  ((u * n) * k) % n = 0 /\ ((u * n) * k) \div n = u * k
<1>1. (u * n) * k = (u * k) * n
  OBVIOUS
<1>2. u * k \in Nat
  OBVIOUS
<1>3. \A m \in Nat : (m * n) % n = 0 /\ (m * n) \div n = m
  OBVIOUS
<1> QED
  BY <1>1, <1>2, <1>3

\* Rescaling a combo: its components' quantity is a multiple of the old quantity.
LEMMA Rescale ==
    ASSUME NEW p \in Nat, NEW n \in Nat \ {0}
    PROVE  (p * n) \div n = p
OBVIOUS

\* What a line still holds after k of its portions were cut.
LEMMA CutLeaves ==
    ASSUME NEW u \in Nat, NEW k \in Nat, NEW n \in Nat, NEW s \in Nat, NEW r \in Nat, s - r = u * (n + k)
    PROVE  s - (r + u * k) = u * n
<1>1. u * (n + k) = u * n + u * k
  OBVIOUS
<1>2. u * n \in Nat /\ u * k \in Nat
  OBVIOUS
<1> QED
  BY <1>1, <1>2

-----------------------------------------------------------------------------
LEMMA InvInit == Init => Inv
<1> SUFFICES ASSUME Init PROVE Inv
  OBVIOUS
<1> USE OrdersAssumption DEF Init
<1>1. TypeOK
  BY DEF TypeOK
<1>2. RowsOK
  BY DEF RowsOK
<1>3. ComboTogether
  BY DEF ComboTogether
<1>4. StockFollowsItems
  BY DEF StockFollowsItems
<1> QED
  BY <1>1, <1>2, <1>3, <1>4 DEF Inv

LEMMA CreateOrderInv ==
    ASSUME Inv, NEW o \in OrderIds, CreateOrder(o)
    PROVE  Inv'
<1> USE OrdersAssumption DEF CreateOrder, rowVars, stockVars, kitchenVars, Inv
<1>1. TypeOK'
  BY DEF TypeOK
<1>2. RowsOK'
  BY DEF RowsOK
<1>3. ComboTogether'
  BY DEF ComboTogether
<1>4. StockFollowsItems'
  BY DEF StockFollowsItems
<1> QED
  BY <1>1, <1>2, <1>3, <1>4

LEMMA AddItemsInv ==
    ASSUME Inv, NEW o \in OrderIds, NEW S \in SUBSET Tops, NEW q \in [S -> 1..MaxQty], NEW H \in SUBSET S,
           AddItems(o, S, q, H)
    PROVE  Inv'
<1> DEFINE fresh == {i \in S : rowStatus[i] = "none"}
<1> DEFINE new == fresh \cup {i \in Rows : Parent[i] \in fresh}
<1> USE OrdersAssumption DEF Inv
<1>1. fresh \subseteq Rows /\ new \subseteq Rows /\ \A i \in fresh : Parent[i] = None /\ q[i] \in Nat \ {0}
  BY DEF Tops
<1>2. \A i \in new : rowStatus[i] = "none"
  BY <1>1 DEF ComboTogether
<1>3. /\ rowOrder'  = [i \in Rows |-> IF i \in new THEN o ELSE rowOrder[i]]
      /\ rowStatus' = [i \in Rows |-> IF i \in new THEN "pending" ELSE rowStatus[i]]
      /\ qty'       = [i \in Rows |-> IF i \in fresh THEN q[i]
                                      ELSE IF i \in new THEN PerCombo[i] * q[Parent[i]] ELSE qty[i]]
      /\ held'      = [i \in Rows |-> IF i \in fresh THEN i \in H ELSE held[i]]
      /\ punchedOn' = [i \in Rows |-> IF i \in new THEN o ELSE punchedOn[i]]
      /\ UNCHANGED <<orderVars, ticket, cut, station, stockVars, kitchenVars>>
  BY DEF AddItems
<1>4. \A i \in new : qty'[i] \in Nat \ {0}
  BY <1>1, <1>3
<1>5. TypeOK'
  <2>1. qty' \in [Rows -> Nat]
    <3>1. \A i \in Rows : qty'[i] \in Nat
      BY <1>1, <1>3, <1>4 DEF TypeOK
    <3> QED
      BY <3>1, <1>3
  <2>2. held' \in [Rows -> BOOLEAN]
    <3>1. \A i \in Rows : (IF i \in fresh THEN i \in H ELSE held[i]) \in BOOLEAN
      <4> SUFFICES ASSUME NEW i \in Rows PROVE (IF i \in fresh THEN i \in H ELSE held[i]) \in BOOLEAN
        OBVIOUS
      <4>1. held[i] \in BOOLEAN
        BY DEF TypeOK
      <4>2. CASE i \in fresh
        <5>1. (IF i \in fresh THEN i \in H ELSE held[i]) = (i \in H)
          BY <4>2
        <5>2. (i \in H) \in BOOLEAN
          OBVIOUS
        <5> QED
          BY <5>1, <5>2, Zenon
      <4>3. CASE i \notin fresh
        BY <4>1, <4>3, Zenon
      <4> QED
        BY <4>2, <4>3
    <3> QED
      BY <3>1, <1>3, Zenon
  <2> QED
    BY <1>1, <1>3, <2>1, <2>2 DEF TypeOK, orderVars, stockVars, kitchenVars
<1>6. RowsOK'
  BY <1>1, <1>2, <1>3, <1>4 DEF RowsOK, stockVars
<1>7. ComboTogether'
  BY <1>1, <1>2, <1>3 DEF ComboTogether
<1>8. StockFollowsItems'
  BY <1>1, <1>2, <1>3 DEF StockFollowsItems, stockVars
<1> QED
  BY <1>5, <1>6, <1>7, <1>8

LEMMA UpdateItemInv ==
    ASSUME Inv, NEW i \in Rows, NEW n \in 1..MaxQty, NEW h \in BOOLEAN, UpdateItem(i, n, h)
    PROVE  Inv'
<1> USE OrdersAssumption DEF Inv
<1>1. /\ rowStatus[i] = "pending" /\ Parent[i] = None
      /\ qty' = [j \in Rows |-> IF j = i THEN n
                                ELSE IF Parent[j] = i /\ rowStatus[j] # "cancelled"
                                     THEN (qty[j] \div qty[i]) * n ELSE qty[j]]
      /\ held' = [held EXCEPT ![i] = h]
      /\ UNCHANGED <<orderVars, rowOrder, rowStatus, ticket, cut, station, punchedOn, stockVars, kitchenVars>>
  BY DEF UpdateItem, Editable
<1>2. qty[i] \in Nat \ {0} /\ n \in Nat \ {0}
  BY <1>1 DEF TypeOK, RowsOK
<1>3. \A j \in Rows : Parent[j] = i => rowStatus[j] # "cancelled" /\ qty'[j] = PerCombo[j] * n
  <2> SUFFICES ASSUME NEW j \in Rows, Parent[j] = i
               PROVE  rowStatus[j] # "cancelled" /\ qty'[j] = PerCombo[j] * n
    OBVIOUS
  <2>1. rowStatus[j] # "cancelled" /\ qty[j] = PerCombo[j] * qty[i] /\ j # i
    BY <1>1 DEF ComboTogether
  <2>2. qty[j] \div qty[i] = PerCombo[j]
    BY <1>2, <2>1, Rescale
  <2> QED
    BY <1>1, <2>1, <2>2
<1>4. \A j \in Rows : Parent[j] # i /\ j # i => qty'[j] = qty[j]
  BY <1>1
<1>5. qty'[i] = n
  BY <1>1
<1>6. \A j \in Rows : qty'[j] \in Nat /\ (rowStatus[j] # "none" => qty'[j] > 0)
  <2> SUFFICES ASSUME NEW j \in Rows PROVE qty'[j] \in Nat /\ (rowStatus[j] # "none" => qty'[j] > 0)
    OBVIOUS
  <2>1. CASE j = i
    BY <2>1, <1>2, <1>5
  <2>2. CASE j # i /\ Parent[j] = i
    BY <2>2, <1>2, <1>3
  <2>3. CASE j # i /\ Parent[j] # i
    BY <2>3, <1>4 DEF TypeOK, RowsOK
  <2> QED
    BY <2>1, <2>2, <2>3
<1>7. TypeOK'
  <2>1. qty' \in [Rows -> Nat]
    BY <1>1, <1>6
  <2>2. held' \in [Rows -> BOOLEAN]
    BY <1>1 DEF TypeOK
  <2> QED
    BY <1>1, <2>1, <2>2 DEF TypeOK, orderVars, stockVars, kitchenVars
<1>8. RowsOK'
  BY <1>1, <1>6 DEF RowsOK, stockVars
<1>9. ComboTogether'
  BY <1>1, <1>3, <1>4, <1>5 DEF ComboTogether
<1>10. StockFollowsItems'
  <2>1. \A j \in Rows : rowStatus[j] = "sent" => qty'[j] = qty[j]
    BY <1>1, <1>4 DEF ComboTogether
  <2> QED
    BY <1>1, <2>1 DEF StockFollowsItems, stockVars
<1> QED
  BY <1>7, <1>8, <1>9, <1>10

LEMMA CancelItemInv ==
    ASSUME Inv, NEW i \in Rows, CancelItem(i)
    PROVE  Inv'
<1> DEFINE gone == {i} \cup {j \in Children(i) : rowStatus[j] # "cancelled"}
<1> USE OrdersAssumption DEF Inv
<1>1. /\ rowStatus[i] \in {"pending", "sent"} /\ Parent[i] = None
      /\ rowStatus' = [j \in Rows |-> IF j \in gone THEN "cancelled" ELSE rowStatus[j]]
      /\ reversed'  = [j \in Rows |-> IF j \in gone /\ rowStatus[j] = "sent"
                                      THEN sold[j] - returned[j] ELSE reversed[j]]
      /\ UNCHANGED <<orderVars, rowOrder, qty, held, ticket, cut, station, punchedOn, unit, sold, returned, kitchenVars>>
  BY DEF CancelItem
<1>2. \A j \in gone : j \in Rows /\ rowStatus[j] \in {"pending", "sent"}
  BY <1>1 DEF Children, ComboTogether, TypeOK
<1>3. \A j \in Rows : rowStatus[j] = "sent" => sold[j] - returned[j] \in Nat
  BY DEF StockFollowsItems, TypeOK
<1>4. TypeOK'
  BY <1>1, <1>2, <1>3 DEF TypeOK, orderVars, kitchenVars
<1>5. RowsOK'
  BY <1>1, <1>2 DEF RowsOK
<1>6. ComboTogether'
  BY <1>1, <1>2 DEF ComboTogether, Children
<1>7. StockFollowsItems'
  BY <1>1, <1>2 DEF StockFollowsItems, RowsOK, TypeOK
<1> QED
  BY <1>4, <1>5, <1>6, <1>7

LEMMA CancelOrderInv ==
    ASSUME Inv, NEW o \in OrderIds, CancelOrder(o)
    PROVE  Inv'
<1> USE OrdersAssumption DEF Inv
<1>1. /\ Sent(o) = {}
      /\ status' = [status EXCEPT ![o] = "cancelled"]
      /\ rowStatus' = [i \in Rows |-> IF i \in Pending(o) THEN "cancelled" ELSE rowStatus[i]]
      /\ UNCHANGED <<mergedInto, zomato, rowOrder, qty, held, ticket, cut, station, punchedOn, stockVars, kitchenVars>>
  BY DEF CancelOrder, Cancellable
<1>2. TypeOK'
  BY <1>1 DEF TypeOK, stockVars, kitchenVars
<1>3. RowsOK'
  BY <1>1 DEF RowsOK, Pending, RowsOf, stockVars
<1>4. ComboTogether'
  BY <1>1 DEF ComboTogether, Pending, Sent, RowsOf, TypeOK
<1>5. StockFollowsItems'
  BY <1>1 DEF StockFollowsItems, RowsOK, Pending, RowsOf, stockVars, TypeOK
<1> QED
  BY <1>2, <1>3, <1>4, <1>5

LEMMA SendInv ==
    ASSUME Inv, NEW o \in OrderIds, NEW named \in SUBSET Rows, NEW fire \in BOOLEAN,
           NEW r \in [Leaving(o, named, fire) -> Recipes], Send(o, named, fire, r)
    PROVE  Inv'
<1> DEFINE cooked == Cooked(o, named, fire)
<1> DEFINE leaving == Leaving(o, named, fire)
<1> USE OrdersAssumption DEF Inv
<1>1. /\ sends < MaxSends
      /\ rowStatus' = [i \in Rows |-> IF i \in leaving THEN "sent" ELSE rowStatus[i]]
      /\ ticket'    = [i \in Rows |-> IF i \in cooked THEN <<sends + 1, station[i]>> ELSE ticket[i]]
      /\ held'      = [i \in Rows |-> held[i] /\ ~(fire /\ i \in named)]
      /\ kotOrder'  = [t \in Tickets |-> IF t \in {<<sends + 1, station[i]>> : i \in cooked} THEN o ELSE kotOrder[t]]
      /\ sends'     = sends + 1
      /\ zomato'    = [zomato EXCEPT ![o] = ZomatoAfterSend(o)]
      /\ UNCHANGED <<status, mergedInto, rowOrder, qty, cut, station, punchedOn, kotDone>>
  BY DEF Send
<1>2. /\ \A i \in leaving : i \in Rows /\ rowStatus[i] = "pending" /\ sold[i] = 0 /\ r[i] \in Nat
      /\ \A i \in cooked : station[i] \in Stations
      /\ cooked \subseteq leaving
  BY DEF Leaving, Cooked, CombosOf, Selected, Pending, RowsOf, StockFollowsItems, TypeOK
<1>3. /\ unit' = [i \in Rows |-> IF i \in leaving THEN r[i] ELSE unit[i]]
      /\ sold' = [i \in Rows |-> IF i \in leaving THEN r[i] * qty[i] ELSE sold[i]]
      /\ UNCHANGED <<returned, reversed>>
  <2>1. ConsumeStock(leaving, r)
    BY DEF Send
  <2>2. {i \in leaving : sold[i] = 0} = leaving
    BY <1>2
  <2> QED
    BY <2>1, <2>2 DEF ConsumeStock
<1>4. TypeOK'
  <2>1. sold' \in [Rows -> Nat] /\ unit' \in [Rows -> Nat]
    <3>1. \A i \in leaving : r[i] * qty[i] \in Nat
      BY <1>2 DEF TypeOK
    <3> QED
      BY <1>2, <1>3, <3>1 DEF TypeOK
  <2>2. held' \in [Rows -> BOOLEAN]
    BY <1>1, Zenon
  <2>3. ticket' \in [Rows -> Tickets \cup {None}]
    BY <1>1, <1>2 DEF TypeOK, Tickets
  <2>4. zomato' \in [OrderIds -> {"new", "preparing", "ready", "picked_up"}]
    BY <1>1 DEF TypeOK, ZomatoAfterSend
  <2> QED
    BY <1>1, <1>2, <1>3, <2>1, <2>2, <2>3, <2>4 DEF TypeOK
<1>5. RowsOK'
  BY <1>1, <1>2, <1>3 DEF RowsOK
<1>6. ComboTogether'
  <2>1. \A i \in Rows : Parent[i] # None /\ i \in leaving => rowStatus'[Parent[i]] = "sent"
    BY <1>1, <1>2 DEF Leaving, CombosOf, ComboTogether, TypeOK
  <2>2. /\ \A i \in Rows : rowStatus'[i] = IF i \in leaving THEN "sent" ELSE rowStatus[i]
        /\ \A i \in Rows : Parent[i] \in Rows \cup {None}
    BY <1>1
  <2>3. ASSUME NEW i \in Rows, Parent[i] # None
        PROVE  /\ rowStatus'[i] = "none" <=> rowStatus'[Parent[i]] = "none"
               /\ rowStatus'[i] = "cancelled" <=> rowStatus'[Parent[i]] = "cancelled"
               /\ rowStatus'[i] = "sent" => rowStatus'[Parent[i]] = "sent"
    <3>1. Parent[i] \in Rows
      BY <2>2, <2>3
    <3>2. /\ rowStatus[i] = "none" <=> rowStatus[Parent[i]] = "none"
          /\ rowStatus[i] = "cancelled" <=> rowStatus[Parent[i]] = "cancelled"
          /\ rowStatus[i] = "sent" => rowStatus[Parent[i]] = "sent"
      BY <2>3 DEF ComboTogether
    <3>3. \A j \in leaving : rowStatus[j] = "pending"
      BY <1>2
    <3> HIDE DEF leaving
    <3> QED
      BY <2>1, <2>2, <2>3, <3>1, <3>2, <3>3
  <2> QED
    BY <1>1, <2>3 DEF ComboTogether
<1>7. StockFollowsItems'
  <2> SUFFICES ASSUME NEW i \in Rows
               PROVE  /\ rowStatus'[i] \in {"none", "pending"} => sold'[i] = 0
                      /\ rowStatus'[i] = "sent" =>
                            sold'[i] - returned'[i] = unit'[i] * qty'[i] /\ reversed'[i] = 0
                      /\ rowStatus'[i] = "cancelled" => sold'[i] = returned'[i] + reversed'[i]
                      /\ returned'[i] = unit'[i] * cut'[i]
    BY DEF StockFollowsItems
  <2>1. CASE i \in leaving
    <3>1. /\ rowStatus'[i] = "sent" /\ unit'[i] = r[i] /\ sold'[i] = r[i] * qty[i]
          /\ qty'[i] = qty[i] /\ cut'[i] = cut[i] /\ returned'[i] = returned[i] /\ reversed'[i] = reversed[i]
      BY <1>1, <1>3, <2>1
    <3>2. returned[i] = 0 /\ reversed[i] = 0 /\ cut[i] = 0
      BY <1>2, <2>1 DEF RowsOK
    <3>3. r[i] \in Nat /\ qty[i] \in Nat
      BY <1>2, <2>1 DEF TypeOK
    <3>4. r[i] * qty[i] \in Nat /\ r[i] * 0 = 0
      BY <3>3
    <3> QED
      BY <3>1, <3>2, <3>3, <3>4
  <2>2. CASE i \notin leaving
    <3>1. /\ rowStatus'[i] = rowStatus[i] /\ unit'[i] = unit[i] /\ sold'[i] = sold[i]
          /\ qty'[i] = qty[i] /\ cut'[i] = cut[i] /\ returned'[i] = returned[i] /\ reversed'[i] = reversed[i]
      BY <1>1, <1>3, <2>2
    <3> QED
      BY <3>1 DEF StockFollowsItems
  <2> QED
    BY <2>1, <2>2
<1> QED
  BY <1>4, <1>5, <1>6, <1>7

LEMMA KotDoneInv ==
    ASSUME Inv, NEW t \in Tickets, KotDone(t)
    PROVE  Inv'
<1> USE OrdersAssumption DEF Inv
<1>1. /\ kotDone' = [kotDone EXCEPT ![t] = TRUE]
      /\ UNCHANGED <<status, mergedInto, rowVars, stockVars, kotOrder, sends>>
  BY DEF KotDone
<1>2. zomato' \in [OrderIds -> {"new", "preparing", "ready", "picked_up"}]
  BY DEF KotDone, TypeOK
<1>3. TypeOK'
  BY <1>1, <1>2 DEF TypeOK, rowVars, stockVars
<1>4. RowsOK' /\ ComboTogether' /\ StockFollowsItems'
  BY <1>1 DEF RowsOK, ComboTogether, StockFollowsItems, rowVars, stockVars
<1> QED
  BY <1>3, <1>4

\* The inductive step of the ledger: what a cut gives back is exactly the recipe times the portions cut.
LEMMA EditSentInv ==
    ASSUME Inv, NEW i \in Rows, NEW n \in 1..MaxQty, EditSent(i, n)
    PROVE  Inv'
<1> DEFINE k == qty[i] - n
<1> USE OrdersAssumption DEF Inv
<1>1. /\ rowStatus[i] = "sent" /\ Parent[i] = None /\ Children(i) = {} /\ n < qty[i]
      /\ qty' = [qty EXCEPT ![i] = n]
      /\ cut' = [cut EXCEPT ![i] = @ + (qty[i] - n)]
      /\ returned' = [returned EXCEPT ![i] = @ + PartialReturn(i, qty[i] - n, qty[i])]
      /\ UNCHANGED <<orderVars, rowOrder, rowStatus, held, ticket, station, punchedOn, unit, sold, reversed, kitchenVars>>
  BY DEF EditSent, Cuttable
<1>2. /\ unit[i] \in Nat /\ qty[i] \in Nat \ {0} /\ n \in Nat \ {0} /\ cut[i] \in Nat /\ k \in Nat
      /\ returned[i] \in Nat /\ sold[i] \in Nat
  BY <1>1 DEF TypeOK
<1>3. PartialReturn(i, k, qty[i]) = unit[i] * k
  <2>1. sold[i] - returned[i] = unit[i] * qty[i]
    BY <1>1 DEF StockFollowsItems
  <2>2. ((unit[i] * qty[i]) * k) % qty[i] = 0 /\ ((unit[i] * qty[i]) * k) \div qty[i] = unit[i] * k
    BY <1>2, ShareIsExact
  <2> QED
    BY <2>1, <2>2 DEF PartialReturn
<1>4. returned' = [returned EXCEPT ![i] = @ + unit[i] * k]
  BY <1>1, <1>3
<1>5. unit[i] * k \in Nat
  BY <1>2
<1>6. TypeOK'
  BY <1>1, <1>2, <1>4, <1>5 DEF TypeOK, orderVars, kitchenVars
<1>7. RowsOK'
  BY <1>1, <1>2, <1>4 DEF RowsOK, TypeOK
<1>8. ComboTogether'
  BY <1>1 DEF ComboTogether, Children, TypeOK
<1>9. StockFollowsItems'
  <2>1. sold[i] - (returned[i] + unit[i] * k) = unit[i] * n
    <3>1. sold[i] - returned[i] = unit[i] * (n + k)
      BY <1>1, <1>2 DEF StockFollowsItems
    <3>2. unit[i] \in Nat /\ k \in Nat /\ n \in Nat /\ sold[i] \in Nat /\ returned[i] \in Nat
      BY <1>2
    <3> HIDE DEF k
    <3> QED
      BY <3>1, <3>2, CutLeaves
  <2>2. returned[i] + unit[i] * k = unit[i] * (cut[i] + k)
    <3>1. returned[i] = unit[i] * cut[i]
      BY DEF StockFollowsItems
    <3>2. unit[i] * (cut[i] + k) = unit[i] * cut[i] + unit[i] * k
      BY <1>2
    <3> QED
      BY <3>1, <3>2
  <2> QED
    BY <1>1, <1>4, <2>1, <2>2 DEF StockFollowsItems, TypeOK
<1> QED
  BY <1>6, <1>7, <1>8, <1>9

LEMMA MergeInv ==
    ASSUME Inv, NEW s \in OrderIds, NEW r \in OrderIds, Merge(s, r)
    PROVE  Inv'
<1> USE OrdersAssumption DEF Merge, Inv
<1>1. TypeOK'
  BY DEF TypeOK, stockVars
<1>2. RowsOK'
  BY DEF RowsOK, TypeOK, stockVars
<1>3. ComboTogether'
  BY DEF ComboTogether
<1>4. StockFollowsItems'
  BY DEF StockFollowsItems, stockVars
<1> QED
  BY <1>1, <1>2, <1>3, <1>4

LEMMA ChangeStationInv ==
    ASSUME Inv, NEW i \in Rows, NEW s \in Stations \cup {None}, ChangeStation(i, s)
    PROVE  Inv'
<1> USE OrdersAssumption DEF ChangeStation, orderVars, stockVars, kitchenVars, Inv
<1>1. TypeOK'
  BY DEF TypeOK
<1>2. RowsOK' /\ ComboTogether' /\ StockFollowsItems'
  BY DEF RowsOK, ComboTogether, StockFollowsItems
<1> QED
  BY <1>1, <1>2

-----------------------------------------------------------------------------
LEMMA InvStep == Inv /\ [OrderStep]_vars => Inv'
<1> SUFFICES ASSUME Inv, [OrderStep]_vars PROVE Inv'
  OBVIOUS
<1>1. CASE UNCHANGED vars
  BY <1>1 DEF vars, orderVars, rowVars, stockVars, kitchenVars, Inv, TypeOK, RowsOK, ComboTogether, StockFollowsItems
<1>2. CASE \E o \in OrderIds : CreateOrder(o)
  BY <1>2, CreateOrderInv
<1>3. CASE AddSome
  BY <1>3, AddItemsInv DEF AddSome
<1>4. CASE UpdateSome
  BY <1>4, UpdateItemInv DEF UpdateSome
<1>5. CASE \E i \in Rows : CancelItem(i)
  BY <1>5, CancelItemInv
<1>6. CASE \E o \in OrderIds : CancelOrder(o)
  BY <1>6, CancelOrderInv
<1>7. CASE SendSome
  BY <1>7, SendInv DEF SendSome
<1>8. CASE \E t \in Tickets : KotDone(t)
  BY <1>8, KotDoneInv
<1>9. CASE EditSome
  BY <1>9, EditSentInv DEF EditSome
<1>10. CASE \E s, r \in OrderIds : Merge(s, r)
  BY <1>10, MergeInv
<1>11. CASE \E i \in Rows, s \in Stations \cup {None} : ChangeStation(i, s)
  BY <1>11, ChangeStationInv
<1> QED
  BY <1>1, <1>2, <1>3, <1>4, <1>5, <1>6, <1>7, <1>8, <1>9, <1>10, <1>11 DEF OrderStep

THEOREM Invariance == Spec => []Inv
BY InvInit, InvStep, PTL DEF Spec

\* Every variable keeps its type: in particular a component's rescaled quantity stays a natural number
\* and a reversal is never negative.
THEOREM TypeCorrect == Spec => []TypeOK
<1>1. Inv => TypeOK
  BY DEF Inv
<1> QED
  BY <1>1, Invariance, PTL

\* A combo and its components stay one dish.
THEOREM CombosStayTogether == Spec => []ComboTogether
<1>1. Inv => ComboTogether
  BY DEF Inv
<1> QED
  BY <1>1, Invariance, PTL

\* The stock ledger follows the dishes, whatever the recipes and however often a line is cut.
THEOREM LedgerFollowsDishes == Spec => []StockFollowsItems
<1>1. Inv => StockFollowsItems
  BY DEF Inv
<1> QED
  BY <1>1, Invariance, PTL

-----------------------------------------------------------------------------
(* Tickets and merges.  That a sent line is on a ticket of its order needs *)
(* that a new ticket is new, and that a line stays on the order that       *)
(* stands for where it was punched needs that a folded order is closed.    *)

\* A line was punched on an order that was opened, and is on one.
LinesKnown ==
    \A i \in Rows : rowStatus[i] # "none" =>
        /\ rowOrder[i] \in OrderIds  /\ status[rowOrder[i]] # "none"
        /\ punchedOn[i] \in OrderIds

\* A line is on a ticket of a KOT request that was made.
TicketsKnown == \A i \in Rows : ticket[i] # None => ticket[i][1] <= sends

\* A dish has a station the catalog may give it, or none.
StationsServed == \A i \in Rows : station[i] \in StationChoices[i]

Trail == LinesKnown /\ TicketsKnown /\ StationsServed /\ SentIsOnTicket /\ RowsFollowMerges

LEMMA TrailInit == Init => Trail
<1> SUFFICES ASSUME Init PROVE Trail
  OBVIOUS
<1> USE OrdersAssumption DEF Init
<1>1. LinesKnown /\ TicketsKnown /\ SentIsOnTicket
  BY DEF LinesKnown, TicketsKnown, SentIsOnTicket
<1>0. StationsServed
  BY DEF StationsServed
<1>2. RowsFollowMerges
  <2>1. [o \in OrderIds |-> o] \in [OrderIds -> OrderIds]
    OBVIOUS
  <2> QED
    BY <2>1 DEF RowsFollowMerges
<1> QED
  BY <1>0, <1>1, <1>2 DEF Trail

\* Merges are followed by every step that merges nothing, moves no line and reopens no order.
LEMMA MergesKept ==
    ASSUME Trail, UNCHANGED <<mergedInto, rowOrder, punchedOn>>,
           \A o \in OrderIds : status[o] = "cancelled" => status'[o] = "cancelled",
           \A i \in Rows : rowStatus[i] = "none" => rowStatus'[i] = "none"
    PROVE  RowsFollowMerges'
<1>1. PICK f \in [OrderIds -> OrderIds] :
        /\ \A o \in OrderIds : mergedInto[f[o]] = None
        /\ \A o \in OrderIds : f[o] = IF mergedInto[o] = None THEN o ELSE f[mergedInto[o]]
        /\ \A i \in Rows : rowStatus[i] # "none" => rowOrder[i] = f[punchedOn[i]]
  BY DEF Trail, RowsFollowMerges
<1>2. \A o \in OrderIds : mergedInto'[o] # None => status'[o] = "cancelled" /\ RowsOf(o)' = {}
  BY DEF Trail, RowsFollowMerges, RowsOf
<1>3. /\ \A o \in OrderIds : mergedInto'[f[o]] = None
      /\ \A o \in OrderIds : f[o] = IF mergedInto'[o] = None THEN o ELSE f[mergedInto'[o]]
      /\ \A i \in Rows : rowStatus'[i] # "none" => rowOrder'[i] = f[punchedOn'[i]]
  BY <1>1
<1> QED
  BY <1>2, <1>3 DEF RowsFollowMerges
\* A step that touches no line, no ticket and no merge only has to keep closed orders closed.
LEMMA TrailKept ==
    ASSUME Inv, Trail, UNCHANGED <<mergedInto, rowOrder, rowStatus, ticket, punchedOn, sends>>,
           \A i \in Rows : station'[i] = station[i] \/ station'[i] \in StationChoices[i],
           \A t \in Tickets : kotOrder'[t] = kotOrder[t],
           \A o \in OrderIds : /\ status[o] = "cancelled" => status'[o] = "cancelled"
                               /\ status[o] # "none" => status'[o] # "none"
                               /\ status'[o] = "open" => status[o] \in {"none", "open"}
    PROVE  Trail'
<1> USE OrdersAssumption DEF Trail
<1>1. RowsFollowMerges'
  BY MergesKept
<1>2. LinesKnown' /\ TicketsKnown' /\ StationsServed'
  BY DEF LinesKnown, TicketsKnown, StationsServed
<1>3. SentIsOnTicket'
  BY DEF SentIsOnTicket, LinesKnown, Children, Inv, TypeOK
<1> QED
  BY <1>1, <1>2, <1>3

LEMMA AddItemsTrail ==
    ASSUME Inv, Trail, NEW o \in OrderIds, NEW S \in SUBSET Tops, NEW q \in [S -> 1..MaxQty], NEW H \in SUBSET S,
           AddItems(o, S, q, H)
    PROVE  Trail' /\ KitchenKeeps
<1> DEFINE fresh == {i \in S : rowStatus[i] = "none"}
<1> DEFINE new == fresh \cup {i \in Rows : Parent[i] \in fresh}
<1> USE OrdersAssumption DEF Inv
<1>1. /\ rowOrder'  = [i \in Rows |-> IF i \in new THEN o ELSE rowOrder[i]]
      /\ rowStatus' = [i \in Rows |-> IF i \in new THEN "pending" ELSE rowStatus[i]]
      /\ punchedOn' = [i \in Rows |-> IF i \in new THEN o ELSE punchedOn[i]]
      /\ \A i \in Rows : i \notin new => qty'[i] = qty[i]
      /\ UNCHANGED <<orderVars, ticket, cut, station, stockVars, kitchenVars>>
  BY DEF AddItems
<1>2. /\ status[o] = "open"
      /\ fresh \subseteq Rows /\ new \subseteq Rows
      /\ \A i \in new : rowStatus[i] = "none"
  <2>1. fresh # {} /\ AddReply(o, S) = "saved"
    BY DEF AddItems
  <2>2. fresh \subseteq Rows /\ \A i \in fresh : Parent[i] = None
    BY DEF Tops
  <2> QED
    BY <2>1, <2>2 DEF AddReply, ComboTogether
<1>3. \A i \in new : rowStatus'[i] = "pending"
  BY <1>1, <1>2
<1>4. LinesKnown' /\ TicketsKnown' /\ StationsServed'
  BY <1>1, <1>2 DEF Trail, LinesKnown, TicketsKnown, StationsServed, orderVars, kitchenVars
<1>5. SentIsOnTicket'
  BY <1>1, <1>2, <1>3 DEF Trail, SentIsOnTicket, Children, RowsOK, orderVars, kitchenVars
<1>6. RowsFollowMerges'
  <2>1. PICK f \in [OrderIds -> OrderIds] :
          /\ \A p \in OrderIds : mergedInto[f[p]] = None
          /\ \A p \in OrderIds : f[p] = IF mergedInto[p] = None THEN p ELSE f[mergedInto[p]]
          /\ \A i \in Rows : rowStatus[i] # "none" => rowOrder[i] = f[punchedOn[i]]
    BY DEF Trail, RowsFollowMerges
  <2>2. mergedInto[o] = None
    BY <1>2 DEF Trail, RowsFollowMerges
  <2>3. \A p \in OrderIds : mergedInto'[p] # None => status'[p] = "cancelled" /\ RowsOf(p)' = {}
    BY <1>1, <1>2, <2>2 DEF Trail, RowsFollowMerges, RowsOf, orderVars
  <2>4. \A i \in Rows : rowStatus'[i] # "none" => rowOrder'[i] = f[punchedOn'[i]]
    BY <1>1, <1>2, <2>1, <2>2
  <2> QED
    BY <1>1, <2>1, <2>3, <2>4 DEF RowsFollowMerges, orderVars
<1>7. KitchenKeeps
  BY <1>1, <1>2 DEF KitchenKeeps, stockVars, TypeOK
<1> QED
  BY <1>4, <1>5, <1>6, <1>7 DEF Trail

LEMMA UpdateItemTrail ==
    ASSUME Inv, Trail, NEW i \in Rows, NEW n \in 1..MaxQty, NEW h \in BOOLEAN, UpdateItem(i, n, h)
    PROVE  Trail' /\ KitchenKeeps
<1> USE OrdersAssumption DEF UpdateItem, Editable, Inv
<1>1. Trail'
  BY TrailKept DEF orderVars, kitchenVars
<1>2. \A j \in Rows : rowStatus[j] \in {"sent", "cancelled"} => qty'[j] = qty[j]
  BY DEF ComboTogether
<1>3. KitchenKeeps
  BY <1>2 DEF KitchenKeeps, stockVars, TypeOK
<1> QED
  BY <1>1, <1>3

LEMMA CancelItemTrail ==
    ASSUME Inv, Trail, NEW i \in Rows, CancelItem(i)
    PROVE  Trail' /\ KitchenKeeps
<1> DEFINE gone == {i} \cup {j \in Children(i) : rowStatus[j] # "cancelled"}
<1> USE OrdersAssumption DEF CancelItem, Inv
<1>1. /\ rowStatus' = [j \in Rows |-> IF j \in gone THEN "cancelled" ELSE rowStatus[j]]
      /\ \A j \in Rows : j \notin gone => reversed'[j] = reversed[j]
      /\ UNCHANGED <<orderVars, rowOrder, qty, held, ticket, cut, station, punchedOn, unit, sold, returned, kitchenVars>>
  OBVIOUS
<1>2. gone \subseteq Rows /\ \A j \in gone : rowStatus[j] \in {"pending", "sent"}
  BY DEF Children, ComboTogether, TypeOK
<1>3. RowsFollowMerges'
  BY <1>1, <1>2, MergesKept DEF orderVars
<1>4. LinesKnown' /\ TicketsKnown' /\ StationsServed' /\ SentIsOnTicket'
  BY <1>1, <1>2 DEF Trail, LinesKnown, TicketsKnown, StationsServed, SentIsOnTicket, Children, orderVars, kitchenVars
<1>5. KitchenKeeps
  BY <1>1, <1>2 DEF KitchenKeeps, TypeOK
<1> QED
  BY <1>3, <1>4, <1>5 DEF Trail

LEMMA CancelOrderTrail ==
    ASSUME Inv, Trail, NEW o \in OrderIds, CancelOrder(o)
    PROVE  Trail' /\ KitchenKeeps
<1> USE OrdersAssumption DEF CancelOrder, Cancellable, Inv
<1>1. /\ status' = [status EXCEPT ![o] = "cancelled"]
      /\ rowStatus' = [i \in Rows |-> IF i \in Pending(o) THEN "cancelled" ELSE rowStatus[i]]
      /\ UNCHANGED <<mergedInto, zomato, rowOrder, qty, held, ticket, cut, station, punchedOn, stockVars, kitchenVars>>
  OBVIOUS
<1>2. \A i \in Pending(o) : i \in Rows /\ rowStatus[i] = "pending"
  BY DEF Pending, RowsOf
<1>3. RowsFollowMerges'
  BY <1>1, <1>2, MergesKept DEF TypeOK
<1>4. LinesKnown' /\ TicketsKnown' /\ StationsServed' /\ SentIsOnTicket'
  BY <1>1, <1>2 DEF Trail, LinesKnown, TicketsKnown, StationsServed, SentIsOnTicket, Children, TypeOK, kitchenVars
<1>5. KitchenKeeps
  BY <1>1, <1>2 DEF KitchenKeeps, stockVars, TypeOK
<1> QED
  BY <1>3, <1>4, <1>5 DEF Trail

LEMMA SendTrail ==
    ASSUME Inv, Trail, NEW o \in OrderIds, NEW named \in SUBSET Rows, NEW fire \in BOOLEAN,
           NEW r \in [Leaving(o, named, fire) -> Recipes], Send(o, named, fire, r)
    PROVE  Trail' /\ KitchenKeeps
<1> DEFINE cooked == Cooked(o, named, fire)
<1> DEFINE leaving == Leaving(o, named, fire)
<1> DEFINE new == {<<sends + 1, station[i]>> : i \in cooked}
<1> USE OrdersAssumption DEF Inv
<1>1. /\ sends < MaxSends
      /\ rowStatus' = [i \in Rows |-> IF i \in leaving THEN "sent" ELSE rowStatus[i]]
      /\ ticket'    = [i \in Rows |-> IF i \in cooked THEN <<sends + 1, station[i]>> ELSE ticket[i]]
      /\ kotOrder'  = [t \in Tickets |-> IF t \in new THEN o ELSE kotOrder[t]]
      /\ sends'     = sends + 1
      /\ UNCHANGED <<status, mergedInto, rowOrder, qty, cut, station, punchedOn, kotDone>>
  BY DEF Send
<1>2. /\ \A i \in leaving : i \in Rows /\ rowStatus[i] = "pending" /\ sold[i] = 0
      /\ \A i \in cooked : /\ station[i] \in Stations /\ station[i] \in StationChoices[i] \ {None}
                           /\ rowOrder[i] = o
      /\ cooked \subseteq leaving
      /\ \A i \in leaving : i \in cooked \/ \E j \in cooked : Parent[j] = i
  BY DEF Leaving, Cooked, CombosOf, Selected, Pending, RowsOf, StockFollowsItems, TypeOK, Trail, StationsServed
<1>3. sends \in Nat /\ sends + 1 \in 1..MaxSends
  BY <1>1 DEF TypeOK
<1>4. \A i \in cooked : <<sends + 1, station[i]>> \in Tickets /\ <<sends + 1, station[i]>> # None
  <2>1. ASSUME NEW i \in cooked PROVE <<sends + 1, station[i]>> \in Tickets
    BY <1>2, <1>3 DEF Tickets
  <2> QED
    BY <2>1 DEF Tickets
<1>5. \A i \in Rows : ticket[i] # None => ticket[i] \in Tickets /\ ticket[i] \notin new
  BY <1>3 DEF TypeOK, Tickets, Trail, TicketsKnown
<1>6. RowsFollowMerges'
  BY <1>1, <1>2, MergesKept
<1>7. LinesKnown' /\ TicketsKnown' /\ StationsServed'
  BY <1>1, <1>2, <1>3 DEF Trail, LinesKnown, TicketsKnown, StationsServed, TypeOK, Tickets
<1>8. SentIsOnTicket'
  <2>1. \A i \in Rows : ticket[i] # None => ticket'[i] # None
    BY <1>1, <1>4
  <2>a. \A i \in cooked : i \in Rows /\ ticket'[i] # None
    <3> HIDE DEF cooked, leaving, new
    <3> QED
      BY <1>1, <1>2, <1>4
  <2>2. \A i \in leaving : ticket'[i] # None \/ \E j \in Children(i) : ticket'[j] # None
    <3> HIDE DEF cooked, leaving, new
    <3> QED
      BY <1>2, <2>a DEF Children
  <2>3. ASSUME NEW i \in Rows, ticket'[i] # None
        PROVE  kotOrder'[ticket'[i]] = rowOrder'[i] /\ ticket'[i][2] \in StationChoices[i] \ {None}
    <3>1. CASE i \in cooked
      BY <3>1, <1>1, <1>2, <1>4
    <3>2. CASE i \notin cooked
      BY <3>2, <2>3, <1>1, <1>5 DEF Trail, SentIsOnTicket
    <3> QED
      BY <3>1, <3>2
  <2>4. ASSUME NEW i \in Rows, rowStatus'[i] = "sent", status'[rowOrder'[i]] = "open"
        PROVE  ticket'[i] # None \/ \E j \in Children(i) : ticket'[j] # None
    <3>1. CASE i \in leaving
      BY <3>1, <2>2
    <3>2. CASE i \notin leaving
      BY <3>2, <2>1, <2>4, <1>1 DEF Trail, SentIsOnTicket, Children
    <3> QED
      BY <3>1, <3>2
  <2> QED
    BY <2>3, <2>4 DEF SentIsOnTicket, Children
<1>9. KitchenKeeps
  <2>1. \A i \in Rows : i \notin leaving => sold'[i] = sold[i]
    BY DEF Send, ConsumeStock
  <2>2. UNCHANGED reversed
    BY DEF Send, ConsumeStock
  <2> QED
    BY <1>1, <1>2, <2>1, <2>2 DEF KitchenKeeps, TypeOK
<1> QED
  BY <1>6, <1>7, <1>8, <1>9 DEF Trail

LEMMA KotDoneTrail ==
    ASSUME Inv, Trail, NEW t \in Tickets, KotDone(t)
    PROVE  Trail' /\ KitchenKeeps
<1>1. UNCHANGED <<status, mergedInto, rowVars, stockVars, kotOrder, sends>>
  BY DEF KotDone
<1>2. Trail'
  BY <1>1, TrailKept DEF rowVars
<1>3. KitchenKeeps
  BY <1>1 DEF KitchenKeeps, rowVars, stockVars, Inv, TypeOK
<1> QED
  BY <1>2, <1>3

LEMMA EditSentTrail ==
    ASSUME Inv, Trail, NEW i \in Rows, NEW n \in 1..MaxQty, EditSent(i, n)
    PROVE  Trail' /\ KitchenKeeps
<1> USE DEF EditSent, Cuttable
<1>1. Trail'
  BY TrailKept DEF orderVars, kitchenVars
<1>2. KitchenKeeps
  BY DEF KitchenKeeps, Inv, TypeOK
<1> QED
  BY <1>1, <1>2

\* A merge prolongs the chains that end in s by r.
LEMMA MergeTrail ==
    ASSUME Inv, Trail, NEW s \in OrderIds, NEW r \in OrderIds, Merge(s, r)
    PROVE  Trail' /\ KitchenKeeps
<1> USE OrdersAssumption DEF Inv
<1>1. /\ s # r /\ status[s] = "open" /\ status[r] = "open" /\ mergedInto[s] = None /\ mergedInto[r] = None
      /\ rowOrder'   = [i \in Rows |-> IF rowOrder[i] = s THEN r ELSE rowOrder[i]]
      /\ kotOrder'   = [t \in Tickets |-> IF kotOrder[t] = s THEN r ELSE kotOrder[t]]
      /\ status'     = [status EXCEPT ![s] = "cancelled"]
      /\ mergedInto' = [mergedInto EXCEPT ![s] = r]
      /\ UNCHANGED <<zomato, rowStatus, qty, held, ticket, cut, station, punchedOn, stockVars, kotDone, sends>>
  BY DEF Merge, Mergeable
<1>2. LinesKnown' /\ TicketsKnown' /\ StationsServed'
  BY <1>1 DEF Trail, LinesKnown, TicketsKnown, StationsServed, TypeOK
<1>3. SentIsOnTicket'
  BY <1>1 DEF Trail, SentIsOnTicket, Children, LinesKnown, TypeOK
<1>4. RowsFollowMerges'
  <2>1. PICK f \in [OrderIds -> OrderIds] :
          /\ \A o \in OrderIds : mergedInto[f[o]] = None
          /\ \A o \in OrderIds : f[o] = IF mergedInto[o] = None THEN o ELSE f[mergedInto[o]]
          /\ \A i \in Rows : rowStatus[i] # "none" => rowOrder[i] = f[punchedOn[i]]
    BY DEF Trail, RowsFollowMerges
  <2> DEFINE g == [o \in OrderIds |-> IF f[o] = s THEN r ELSE f[o]]
  <2>2. g \in [OrderIds -> OrderIds]
    OBVIOUS
  <2>3. f[s] = s /\ f[r] = r
    BY <1>1, <2>1
  <2>4. \A o \in OrderIds : mergedInto'[g[o]] = None
    BY <1>1, <2>1 DEF TypeOK
  <2>5. \A o \in OrderIds : g[o] = IF mergedInto'[o] = None THEN o ELSE g[mergedInto'[o]]
    <3> SUFFICES ASSUME NEW o \in OrderIds PROVE g[o] = IF mergedInto'[o] = None THEN o ELSE g[mergedInto'[o]]
      OBVIOUS
    <3>1. CASE o = s
      BY <3>1, <1>1, <2>3 DEF TypeOK
    <3>2. CASE o # s
      BY <3>2, <1>1, <2>1 DEF TypeOK
    <3> QED
      BY <3>1, <3>2
  <2>6. \A i \in Rows : rowStatus'[i] # "none" => rowOrder'[i] = g[punchedOn'[i]]
    BY <1>1, <2>1 DEF Trail, LinesKnown
  <2>7. \A o \in OrderIds : mergedInto'[o] # None => status'[o] = "cancelled" /\ RowsOf(o)' = {}
    BY <1>1 DEF Trail, RowsFollowMerges, RowsOf, TypeOK
  <2> HIDE DEF g
  <2> QED
    BY <2>2, <2>4, <2>5, <2>6, <2>7 DEF RowsFollowMerges
<1>5. KitchenKeeps
  BY <1>1 DEF KitchenKeeps, stockVars, TypeOK
<1> QED
  BY <1>2, <1>3, <1>4, <1>5 DEF Trail

-----------------------------------------------------------------------------
LEMMA TrailStep == Inv /\ Trail /\ [OrderStep]_vars => Trail' /\ [KitchenKeeps]_vars
<1> SUFFICES ASSUME Inv, Trail, [OrderStep]_vars PROVE Trail' /\ [KitchenKeeps]_vars
  OBVIOUS
<1>1. CASE UNCHANGED vars
  BY <1>1, TrailKept DEF vars, orderVars, rowVars, kitchenVars
<1>2. ASSUME NEW o \in OrderIds, CreateOrder(o) PROVE Trail' /\ KitchenKeeps
  <2>1. Trail'
    BY <1>2, TrailKept DEF CreateOrder, rowVars, kitchenVars, Inv, TypeOK
  <2>2. KitchenKeeps
    BY <1>2 DEF CreateOrder, KitchenKeeps, rowVars, stockVars, Inv, TypeOK
  <2> QED
    BY <2>1, <2>2
<1>3. CASE AddSome
  BY <1>3, AddItemsTrail DEF AddSome
<1>4. CASE UpdateSome
  BY <1>4, UpdateItemTrail DEF UpdateSome
<1>5. CASE \E i \in Rows : CancelItem(i)
  BY <1>5, CancelItemTrail
<1>6. CASE \E o \in OrderIds : CancelOrder(o)
  BY <1>6, CancelOrderTrail
<1>7. CASE SendSome
  BY <1>7, SendTrail DEF SendSome
<1>8. CASE \E t \in Tickets : KotDone(t)
  BY <1>8, KotDoneTrail
<1>9. CASE EditSome
  BY <1>9, EditSentTrail DEF EditSome
<1>10. CASE \E s, r \in OrderIds : Merge(s, r)
  BY <1>10, MergeTrail
<1>11. ASSUME NEW i \in Rows, NEW s \in Stations \cup {None}, ChangeStation(i, s) PROVE Trail' /\ KitchenKeeps
  <2>1. \A j \in Rows : station'[j] = station[j] \/ station'[j] \in StationChoices[j]
    BY <1>11 DEF ChangeStation, Inv, TypeOK
  <2>a. Trail'
    BY <1>11, <2>1, TrailKept DEF ChangeStation, orderVars, kitchenVars
  <2>2. KitchenKeeps
    BY <1>11 DEF ChangeStation, KitchenKeeps, stockVars, Inv, TypeOK
  <2> QED
    BY <2>a, <2>2
<1> QED
  BY <1>1, <1>2, <1>3, <1>4, <1>5, <1>6, <1>7, <1>8, <1>9, <1>10, <1>11 DEF OrderStep

LEMMA TrailInvariance == Spec => [](Inv /\ Trail)
BY InvInit, InvStep, TrailInit, TrailStep, PTL DEF Spec

\* What is sent on an open order is on a ticket, or a part of the combo is, and every ticket is of the order
\* the line is paid with and at a station its dish may have, whatever is merged, cut or moved to another station.
THEOREM SentIsAtStation == Spec => []SentIsOnTicket
<1>1. Trail => SentIsOnTicket
  BY DEF Trail
<1> QED
  BY <1>1, TrailInvariance, PTL

\* Merges never form a ring, and every line is on the order its chain of merges ends in.
THEOREM MergesAreFollowed == Spec => []RowsFollowMerges
<1>1. Trail => RowsFollowMerges
  BY DEF Trail
<1> QED
  BY <1>1, TrailInvariance, PTL

\* Nothing undoes what reached the kitchen.
THEOREM KitchenIsFinal == Spec => SentIsFinal
BY TrailInvariance, TrailStep, PTL DEF Spec, SentIsFinal

-----------------------------------------------------------------------------
(* Order, bill, money and kitchen.                                          *)

\* A waiting bill request is of a reference that was previewed, for the order and discount reviewed.
CallsOK ==
    \A c \in Calls : call[c] # None /\ call[c].kind = "bill" =>
        /\ call[c].ref \in Refs  /\ attempt[call[c].ref] # None
        /\ attempt[call[c].ref].order = call[c].order
        /\ attempt[call[c].ref].discount = call[c].amount

\* A bill has a reference, and one at a counter was previewed; Zomato orders are not.
RefsOK ==
    /\ \A o \in OrderIds :
          /\ billStatus[o] = "none" <=> billRef[o] = None
          /\ billStatus[o] # "none" /\ OrderType[o] # "zomato" => attempt[billRef[o]] # None
    /\ \A r \in Refs : attempt[r] # None => OrderType[attempt[r].order] # "zomato"

\* A Zomato order that is not at the kitchen yet has no ticket; it is picked up exactly when it is billed.
ZomatoFollowsKitchen ==
    \A o \in OrderIds : OrderType[o] = "zomato" =>
        /\ zomato[o] = "new" => \A t \in Tickets : kotOrder[t] # o
        /\ ZomatoBilled(o)

BillingInv ==
    /\ Inv /\ Trail
    /\ BillingTypeOK
    /\ CallsOK
    /\ RefsOK
    /\ BillFreezesOrder
    /\ OrderFollowsBill
    /\ MoneyFollowsBill
    /\ BilledAsReviewed
    /\ ZomatoFollowsKitchen

-----------------------------------------------------------------------------
(* What the steps of Orders do to an order that is no longer open: nothing.*)

StaysClosed(o) ==
    /\ status'[o] = status[o]
    /\ \A i \in Rows : /\ rowOrder'[i] = o <=> rowOrder[i] = o
                       /\ rowOrder[i] = o => rowStatus'[i] = rowStatus[i] /\ qty'[i] = qty[i]

LEMMA ClosedOrderStays ==
    ASSUME Inv, Trail, [OrderStep]_vars, NEW o \in OrderIds, status[o] \notin {"none", "open"}
    PROVE  StaysClosed(o)
<1> USE OrdersAssumption DEF Inv, StaysClosed
<1>1. CASE UNCHANGED vars
  BY <1>1 DEF vars, orderVars, rowVars
<1>2. ASSUME NEW p \in OrderIds, CreateOrder(p) PROVE StaysClosed(o)
  BY <1>2 DEF CreateOrder, rowVars, TypeOK
<1>3. ASSUME NEW p \in OrderIds, NEW S \in SUBSET Tops, NEW q \in [S -> 1..MaxQty], NEW H \in SUBSET S,
             AddItems(p, S, q, H)
      PROVE  StaysClosed(o)
  <2> DEFINE fresh == {i \in S : rowStatus[i] = "none"}
  <2> DEFINE new == fresh \cup {i \in Rows : Parent[i] \in fresh}
  <2>1. fresh # {} /\ AddReply(p, S) = "saved" /\ UNCHANGED status
    BY <1>3 DEF AddItems, orderVars
  <2>2. p # o
    BY <2>1 DEF AddReply
  <2>3. \A i \in new : i \in Rows /\ rowStatus[i] = "none" /\ rowOrder[i] = None
    BY DEF Tops, ComboTogether, RowsOK
  <2>4. /\ rowOrder'  = [i \in Rows |-> IF i \in new THEN p ELSE rowOrder[i]]
        /\ rowStatus' = [i \in Rows |-> IF i \in new THEN "pending" ELSE rowStatus[i]]
        /\ \A i \in Rows : i \notin new => qty'[i] = qty[i]
    BY <1>3 DEF AddItems
  <2> HIDE DEF new
  <2> QED
    BY <2>1, <2>2, <2>3, <2>4
<1>4. ASSUME NEW i \in Rows, NEW n \in 1..MaxQty, NEW h \in BOOLEAN, UpdateItem(i, n, h) PROVE StaysClosed(o)
  BY <1>4 DEF UpdateItem, Editable, ComboTogether, orderVars
<1>5. ASSUME NEW i \in Rows, CancelItem(i) PROVE StaysClosed(o)
  BY <1>5 DEF CancelItem, ComboTogether, Children, orderVars
<1>6. ASSUME NEW p \in OrderIds, CancelOrder(p) PROVE StaysClosed(o)
  BY <1>6 DEF CancelOrder, Cancellable, Pending, RowsOf, TypeOK
<1>7. ASSUME NEW p \in OrderIds, NEW named \in SUBSET Rows, NEW fire \in BOOLEAN,
             NEW r \in [Leaving(p, named, fire) -> Recipes], Send(p, named, fire, r)
      PROVE  StaysClosed(o)
  <2>1. \A i \in Leaving(p, named, fire) : rowOrder[i] = p
    BY DEF Leaving, CombosOf, Cooked, Selected, Pending, RowsOf, ComboTogether
  <2> QED
    BY <1>7, <2>1 DEF Send
<1>8. ASSUME NEW t \in Tickets, KotDone(t) PROVE StaysClosed(o)
  BY <1>8 DEF KotDone, rowVars
<1>9. ASSUME NEW i \in Rows, NEW n \in 1..MaxQty, EditSent(i, n) PROVE StaysClosed(o)
  BY <1>9 DEF EditSent, Cuttable, orderVars, TypeOK
<1>10. ASSUME NEW s \in OrderIds, NEW r \in OrderIds, Merge(s, r) PROVE StaysClosed(o)
  BY <1>10 DEF Merge, Mergeable, TypeOK
<1>11. ASSUME NEW i \in Rows, NEW s \in Stations \cup {None}, ChangeStation(i, s) PROVE StaysClosed(o)
  BY <1>11 DEF ChangeStation, orderVars
<1> QED
  BY <1>1, <1>2, <1>3, <1>4, <1>5, <1>6, <1>7, <1>8, <1>9, <1>10, <1>11
     DEF OrderStep, AddSome, UpdateSome, SendSome, EditSome

\* Orders never bills, settles or reopens.
LEMMA OrdersOpenAndCancel ==
    ASSUME Inv, [OrderStep]_vars, NEW o \in OrderIds, status[o] \in {"none", "open", "cancelled"}
    PROVE  status'[o] \in {"none", "open", "cancelled"}
BY DEF Inv, TypeOK, OrderStep, AddSome, UpdateSome, SendSome, EditSome, vars, orderVars, CreateOrder, AddItems,
       UpdateItem, CancelItem, CancelOrder, Send, KotDone, EditSent, Merge, ChangeStation

\* A Zomato order without a ticket stays new until it gets its first, and only the desk hands it over.
ZomatoStep(o) ==
    /\ zomato'[o] = "new" => zomato[o] = "new" /\ \A t \in Tickets : kotOrder'[t] = o => kotOrder[t] = o
    /\ zomato'[o] = "picked_up" <=> zomato[o] = "picked_up"

LEMMA OrdersKeepZomato ==
    ASSUME Inv, [OrderStep]_vars, NEW o \in OrderIds, OrderType[o] = "zomato"
    PROVE  ZomatoStep(o)
<1> USE OrdersAssumption DEF Inv, ZomatoStep
<1>1. ASSUME NEW p \in OrderIds, NEW named \in SUBSET Rows, NEW fire \in BOOLEAN,
             NEW r \in [Leaving(p, named, fire) -> Recipes], Send(p, named, fire, r)
      PROVE  ZomatoStep(o)
  BY <1>1 DEF Send, ZomatoAfterSend, TypeOK
<1>2. ASSUME NEW t \in Tickets, KotDone(t) PROVE ZomatoStep(o)
  BY <1>2 DEF KotDone, TypeOK
<1>3. ASSUME NEW s \in OrderIds, NEW r \in OrderIds, Merge(s, r) PROVE ZomatoStep(o)
  BY <1>3 DEF Merge, Mergeable
<1>4. CASE UNCHANGED <<zomato, kotOrder>>
  BY <1>4
<1> QED
  BY <1>1, <1>2, <1>3, <1>4
     DEF OrderStep, AddSome, UpdateSome, SendSome, EditSome, vars, orderVars, kitchenVars, CreateOrder, AddItems,
         UpdateItem, CancelItem, CancelOrder, EditSent, ChangeStation

\* The orders part: only a KOT request gives a Zomato order a ticket, and only the kitchen finishing it makes it Ready.
LEMMA OrdersAdvanceZomato ==
    ASSUME Inv, [OrderStep]_vars, NEW o \in OrderIds, OrderType[o] = "zomato",
           status[o] = "open" => zomato[o] # "picked_up"
    PROVE  ZomatoAdvance(o)
<1> USE OrdersAssumption DEF Inv, ZomatoAdvance
<1>1. ASSUME NEW p \in OrderIds, NEW named \in SUBSET Rows, NEW fire \in BOOLEAN,
             NEW r \in [Leaving(p, named, fire) -> Recipes], Send(p, named, fire, r)
      PROVE  ZomatoAdvance(o)
  <2>1. /\ \A t \in Tickets : kotOrder'[t] \in {p, kotOrder[t]}
        /\ zomato' = [zomato EXCEPT ![p] = ZomatoAfterSend(p)]
        /\ status[p] = "open"
    BY <1>1 DEF Send
  <2>2. ZomatoAfterSend(p) \in {zomato[p], "preparing"}
    BY DEF ZomatoAfterSend
  <2>3. zomato'[o] \in {zomato[o], "preparing"}
    BY <2>1, <2>2 DEF TypeOK
  <2>4. CASE p = o
    <3>1. zomato[o] \in {"new", "ready"} => zomato'[o] = "preparing"
      BY <2>1, <2>4 DEF ZomatoAfterSend, TypeOK
    <3>2. zomato[o] # "picked_up"
      BY <2>1, <2>4
    <3> QED
      BY <2>1, <2>3, <3>1, <3>2 DEF TypeOK
  <2>5. CASE p # o
    BY <2>1, <2>3, <2>5
  <2> QED
    BY <2>4, <2>5
<1>2. ASSUME NEW t \in Tickets, KotDone(t) PROVE ZomatoAdvance(o)
  <2> DEFINE p == kotOrder[t]
  <2>1. /\ p # None
        /\ zomato' = [zomato EXCEPT ![p] = IF /\ OrderType[p] = "zomato"
                                              /\ status[p] = "open"
                                              /\ zomato[p] = "preparing"
                                              /\ KitchenDone(p, kotDone')
                                           THEN "ready" ELSE @]
        /\ UNCHANGED kotOrder
    BY <1>2 DEF KotDone
  <2>2. p \in OrderIds
    BY <2>1 DEF TypeOK
  <2> HIDE DEF p
  <2> QED
    BY <2>1, <2>2 DEF KitchenDone, TypeOK
<1>3. ASSUME NEW s \in OrderIds, NEW r \in OrderIds, Merge(s, r) PROVE ZomatoAdvance(o)
  BY <1>3 DEF Merge, Mergeable
<1>4. CASE UNCHANGED <<zomato, kotOrder>>
  BY <1>4
<1> HIDE DEF ZomatoAdvance
<1> QED
  BY <1>1, <1>2, <1>3, <1>4
     DEF OrderStep, AddSome, UpdateSome, SendSome, EditSome, vars, orderVars, kitchenVars, CreateOrder, AddItems,
         UpdateItem, CancelItem, CancelOrder, EditSent, ChangeStation

-----------------------------------------------------------------------------
(* What the steps of Billing do to the lines: issuing a bill sends what is *)
(* pending, as a KOT request would; the other steps only close orders.     *)

\* A bill is issued for order o, which is then billed or settled.
Issues(o, r, d, approved, recipe) ==
    /\ IssueBill(o, r, d, approved, recipe)
    /\ billStatus' \in {[billStatus EXCEPT ![o] = s] : s \in {"unpaid", "paid"}}
    /\ status' \in {[status EXCEPT ![o] = s] : s \in {"billed", "settled"}}
    /\ zomato' \in {zomato, [zomato EXCEPT ![o] = "picked_up"]}

LEMMA IssueKeepsOrders ==
    ASSUME Inv, Trail, NEW o \in OrderIds, NEW r, NEW d, NEW approved, NEW recipe \in [Pending(o) -> Recipes],
           Issues(o, r, d, approved, recipe)
    PROVE  Inv' /\ Trail' /\ KitchenKeeps
<1> USE OrdersAssumption DEF Inv
<1>1. /\ status[o] = "open" /\ status' \in {[status EXCEPT ![o] = s] : s \in {"billed", "settled"}}
      /\ zomato' \in {zomato, [zomato EXCEPT ![o] = "picked_up"]}
      /\ rowStatus' = [i \in Rows |-> IF i \in Pending(o) THEN "sent" ELSE rowStatus[i]]
      /\ UNCHANGED <<mergedInto, rowOrder, qty, held, ticket, cut, station, punchedOn, kitchenVars>>
  BY DEF Issues, IssueBill, CanPrice
<1>2. \A i \in Pending(o) : i \in Rows /\ rowStatus[i] = "pending" /\ sold[i] = 0 /\ recipe[i] \in Nat /\ rowOrder[i] = o
  BY DEF Pending, RowsOf, StockFollowsItems
<1>3. /\ unit' = [i \in Rows |-> IF i \in Pending(o) THEN recipe[i] ELSE unit[i]]
      /\ sold' = [i \in Rows |-> IF i \in Pending(o) THEN recipe[i] * qty[i] ELSE sold[i]]
      /\ UNCHANGED <<returned, reversed>>
  <2>1. ConsumeStock(Pending(o), recipe)
    BY DEF Issues, IssueBill
  <2>2. {i \in Pending(o) : sold[i] = 0} = Pending(o)
    BY <1>2
  <2> QED
    BY <2>1, <2>2 DEF ConsumeStock
<1>4. TypeOK'
  <2>1. \A i \in Pending(o) : recipe[i] * qty[i] \in Nat
    BY <1>2 DEF TypeOK
  <2>2. sold' \in [Rows -> Nat] /\ unit' \in [Rows -> Nat]
    BY <1>2, <1>3, <2>1 DEF TypeOK
  <2> QED
    BY <1>1, <1>3, <2>2 DEF TypeOK, kitchenVars
<1>5. RowsOK'
  BY <1>1, <1>2, <1>3 DEF RowsOK
<1>6. ComboTogether'
  <2> SUFFICES ASSUME NEW i \in Rows, Parent[i] # None
               PROVE  /\ rowStatus'[i] = "none" <=> rowStatus'[Parent[i]] = "none"
                      /\ rowStatus'[i] = "cancelled" <=> rowStatus'[Parent[i]] = "cancelled"
                      /\ rowStatus'[i] = "sent" => rowStatus'[Parent[i]] = "sent"
    BY <1>1 DEF ComboTogether
  <2>1. Parent[i] \in Rows /\ rowOrder[i] = rowOrder[Parent[i]]
    BY DEF ComboTogether
  <2>2. \A j \in Rows : j \in Pending(o) <=> rowOrder[j] = o /\ rowStatus[j] = "pending"
    BY DEF Pending, RowsOf
  <2> QED
    BY <1>1, <2>1, <2>2 DEF ComboTogether, TypeOK
<1>7. StockFollowsItems'
  <2> SUFFICES ASSUME NEW i \in Rows
               PROVE  /\ rowStatus'[i] \in {"none", "pending"} => sold'[i] = 0
                      /\ rowStatus'[i] = "sent" =>
                            sold'[i] - returned'[i] = unit'[i] * qty'[i] /\ reversed'[i] = 0
                      /\ rowStatus'[i] = "cancelled" => sold'[i] = returned'[i] + reversed'[i]
                      /\ returned'[i] = unit'[i] * cut'[i]
    BY DEF StockFollowsItems
  <2>1. CASE i \in Pending(o)
    <3>1. /\ rowStatus'[i] = "sent" /\ unit'[i] = recipe[i] /\ sold'[i] = recipe[i] * qty[i]
          /\ qty'[i] = qty[i] /\ cut'[i] = cut[i] /\ returned'[i] = returned[i] /\ reversed'[i] = reversed[i]
      BY <1>1, <1>3, <2>1
    <3>2. returned[i] = 0 /\ reversed[i] = 0 /\ cut[i] = 0
      BY <1>2, <2>1 DEF RowsOK
    <3>3. recipe[i] \in Nat /\ qty[i] \in Nat
      BY <1>2, <2>1 DEF TypeOK
    <3>4. recipe[i] * qty[i] \in Nat /\ recipe[i] * 0 = 0
      BY <3>3
    <3> QED
      BY <3>1, <3>2, <3>3, <3>4
  <2>2. CASE i \notin Pending(o)
    <3>1. /\ rowStatus'[i] = rowStatus[i] /\ unit'[i] = unit[i] /\ sold'[i] = sold[i]
          /\ qty'[i] = qty[i] /\ cut'[i] = cut[i] /\ returned'[i] = returned[i] /\ reversed'[i] = reversed[i]
      BY <1>1, <1>3, <2>2
    <3> QED
      BY <3>1 DEF StockFollowsItems
  <2> QED
    BY <2>1, <2>2
<1>8. RowsFollowMerges'
  BY <1>1, <1>2, MergesKept DEF TypeOK
<1>9. LinesKnown' /\ TicketsKnown' /\ StationsServed'
  BY <1>1, <1>2 DEF Trail, LinesKnown, TicketsKnown, StationsServed, TypeOK, kitchenVars
<1>10. SentIsOnTicket'
  <2>1. \A i \in Rows : rowStatus'[i] = "sent" /\ status'[rowOrder'[i]] = "open" =>
            rowStatus[i] = "sent" /\ status[rowOrder[i]] = "open"
    BY <1>1, <1>2, <1>9 DEF TypeOK, LinesKnown
  <2> QED
    BY <1>1, <2>1 DEF Trail, SentIsOnTicket, Children, kitchenVars
<1>11. KitchenKeeps
  BY <1>1, <1>2, <1>3 DEF KitchenKeeps, TypeOK
<1> QED
  BY <1>4, <1>5, <1>6, <1>7, <1>8, <1>9, <1>10, <1>11 DEF Trail

\* A step that changes no line keeps what is known of them, if it opens no order again.
LEMMA ClosingKeepsOrders ==
    ASSUME Inv, Trail, UNCHANGED <<mergedInto, rowVars, stockVars, kitchenVars>>, TypeOK',
           \A o \in OrderIds : /\ status[o] = "cancelled" => status'[o] = "cancelled"
                               /\ status[o] # "none" => status'[o] # "none"
                               /\ status'[o] = "open" => status[o] \in {"none", "open"}
    PROVE  Inv' /\ Trail' /\ KitchenKeeps
<1>1. Trail'
  BY TrailKept DEF rowVars, kitchenVars
<1>2. RowsOK' /\ ComboTogether' /\ StockFollowsItems'
  BY DEF Inv, RowsOK, ComboTogether, StockFollowsItems, rowVars, stockVars
<1>3. KitchenKeeps
  BY DEF KitchenKeeps, rowVars, stockVars, Inv, TypeOK
<1> QED
  BY <1>1, <1>2, <1>3 DEF Inv

-----------------------------------------------------------------------------
LEMMA BillingInvInit == BillingInit => BillingInv
<1> SUFFICES ASSUME BillingInit PROVE BillingInv
  OBVIOUS
<1> USE OrdersAssumption, BillingAssumption DEF BillingInit
<1>1. Inv /\ Trail
  BY InvInit, TrailInit
<1>2. BillingTypeOK
  BY <1>1 DEF BillingTypeOK, Inv
<1>3. CallsOK /\ RefsOK
  BY DEF CallsOK, RefsOK
<1>4. BillFreezesOrder /\ OrderFollowsBill /\ MoneyFollowsBill /\ BilledAsReviewed
  BY DEF Init, BillFreezesOrder, OrderFollowsBill, MoneyFollowsBill, BilledAsReviewed, Money
<1>5. ZomatoFollowsKitchen
  BY DEF Init, ZomatoFollowsKitchen, ZomatoBilled
<1> QED
  BY <1>1, <1>2, <1>3, <1>4, <1>5 DEF BillingInv

LEMMA OrdersGoOnInv ==
    ASSUME BillingInv, OrdersGoOn
    PROVE  BillingInv' /\ [KitchenKeeps]_vars
<1> USE DEF BillingInv
<1>1. OrderStep /\ UNCHANGED <<billVars, moneyVars, attempt, call>>
  BY DEF OrdersGoOn
<1>2. Inv' /\ Trail' /\ [KitchenKeeps]_vars
  BY <1>1, InvStep, TrailStep
<1>3. \A o \in OrderIds : billStatus[o] # "none" => StaysClosed(o)
  BY <1>1, ClosedOrderStays DEF BillFreezesOrder
<1>4. \A o \in OrderIds : status'[o] = status[o] \/ status[o] \in {"none", "open"}
  BY <1>1, ClosedOrderStays DEF StaysClosed
<1>5. \A o \in OrderIds : status[o] \in {"none", "open"} => status'[o] \in {"none", "open", "cancelled"}
  BY <1>1, OrdersOpenAndCancel
<1>6. BillingTypeOK'
  BY <1>1, <1>2 DEF BillingTypeOK, Inv, billVars, moneyVars
<1>7. CallsOK' /\ RefsOK' /\ BilledAsReviewed'
  BY <1>1 DEF CallsOK, RefsOK, BilledAsReviewed, billVars
<1>8. BillFreezesOrder'
  BY <1>1, <1>3 DEF BillFreezesOrder, StaysClosed, Pending, RowsOf, LinesOf, Charged, Live, Sent, billVars
<1>9. OrderFollowsBill' /\ MoneyFollowsBill'
  BY <1>1, <1>4, <1>5 DEF OrderFollowsBill, MoneyFollowsBill, Money, billVars, moneyVars
<1>10. ZomatoFollowsKitchen'
  BY <1>1, OrdersKeepZomato DEF ZomatoFollowsKitchen, ZomatoBilled, ZomatoStep, billVars
<1> QED
  BY <1>2, <1>6, <1>7, <1>8, <1>9, <1>10

\* A step that waits, forgets or is refused: orders, bills and money stay as they are.
LEMMA WaitingInv ==
    ASSUME BillingInv, UNCHANGED <<vars, billVars, moneyVars>>, DOMAIN attempt' = Refs,
           call' \in [Calls -> WaitingCalls \cup {None}], CallsOK', RefsOK',
           \A r \in Refs : attempt'[r] = attempt[r] \/
              /\ attempt[r] = None
              /\ DOMAIN attempt'[r] = {"order", "discount", "key"}
              /\ attempt'[r].order \in OrderIds /\ attempt'[r].discount \in Nat
    PROVE  BillingInv' /\ [KitchenKeeps]_vars
<1> USE DEF BillingInv
<1>1. Inv' /\ Trail'
  BY InvStep, TrailStep
<1>2. BillingTypeOK'
  <2>1. \A r \in Refs : attempt'[r] = None \/
           /\ DOMAIN attempt'[r] = {"order", "discount", "key"}
           /\ attempt'[r].order \in OrderIds /\ attempt'[r].discount \in Nat
    BY DEF BillingTypeOK
  <2> QED
    BY <1>1, <2>1 DEF BillingTypeOK, Inv, billVars, moneyVars
<1>3. BilledAsReviewed'
  <2>1. UNCHANGED <<billStatus, billRef, billLines, billDiscount, billApproved>>
    BY DEF billVars
  <2>2. \A o \in OrderIds : billStatus[o] # "none" /\ OrderType[o] # "zomato" => attempt'[billRef[o]] = attempt[billRef[o]]
    BY DEF RefsOK, BillingTypeOK
  <2>3. ASSUME NEW o \in OrderIds, billStatus[o] # "none", OrderType[o] # "zomato"
        PROVE  LET a == attempt'[billRef[o]] IN
                  /\ a.order = o /\ a.discount = billDiscount[o]
                  /\ billLines[o] = [i \in Rows |-> IF i \in DOMAIN a.key /\ Parent[i] = None
                                                    THEN a.key[i][1] ELSE 0]
    BY <2>2, <2>3 DEF BilledAsReviewed
  <2>4. \A o \in OrderIds : billStatus[o] # "none" =>
            /\ \A p \in OrderIds : billRef[p] = billRef[o] => p = o
            /\ billDiscount[o] * 100 > Amount(billLines[o]) * Limit => billApproved[o]
    BY DEF BilledAsReviewed
  <2>5. ASSUME NEW o \in OrderIds, billStatus'[o] # "none"
        PROVE  /\ \A p \in OrderIds : billRef'[p] = billRef'[o] => p = o
               /\ billDiscount'[o] * 100 > Amount(billLines'[o]) * Limit => billApproved'[o]
    BY <2>1, <2>4, <2>5
  <2>6. ASSUME NEW o \in OrderIds, billStatus'[o] # "none", OrderType[o] # "zomato"
        PROVE  LET a == attempt'[billRef'[o]] IN
                  /\ a.order = o /\ a.discount = billDiscount'[o]
                  /\ billLines'[o] = [i \in Rows |-> IF i \in DOMAIN a.key /\ Parent[i] = None
                                                    THEN a.key[i][1] ELSE 0]
    BY <2>1, <2>3, <2>6
  <2> QED
    BY <2>5, <2>6 DEF BilledAsReviewed
<1>4. BillFreezesOrder' /\ OrderFollowsBill' /\ MoneyFollowsBill' /\ ZomatoFollowsKitchen'
  BY DEF BillFreezesOrder, Pending, RowsOf, LinesOf, Charged, Live, Sent, OrderFollowsBill, MoneyFollowsBill, Money,
         ZomatoFollowsKitchen, ZomatoBilled, vars, orderVars, rowVars, kitchenVars, billVars, moneyVars
<1> QED
  BY <1>1, <1>2, <1>3, <1>4

LEMMA PreviewInv ==
    ASSUME BillingInv, NEW r \in Refs, NEW o \in OrderIds, NEW d \in Discounts, Preview(r, o, d)
    PROVE  BillingInv' /\ [KitchenKeeps]_vars
<1> USE BillingAssumption DEF Preview
<1>1. /\ attempt'[r].order = o /\ attempt'[r].discount = d
      /\ DOMAIN attempt'[r] = {"order", "discount", "key"}
      /\ \A q \in Refs : q # r => attempt'[q] = attempt[q]
      /\ DOMAIN attempt' = Refs
  BY DEF BillingInv, BillingTypeOK
<1>2. CallsOK' /\ RefsOK'
  BY <1>1 DEF BillingInv, BillingTypeOK, CallsOK, RefsOK, billVars
<1> QED
  BY <1>1, <1>2, WaitingInv DEF BillingInv, BillingTypeOK

\* What a call that begins to wait must be for the invariant.
LEMMA CallWaits ==
    ASSUME BillingInv, NEW c \in Calls, NEW w \in WaitingCalls, call' = [call EXCEPT ![c] = w],
           UNCHANGED <<vars, billVars, moneyVars, attempt>>,
           w.kind = "bill" => /\ w.ref \in Refs /\ attempt[w.ref] # None
                              /\ attempt[w.ref].order = w.order /\ attempt[w.ref].discount = w.amount
    PROVE  BillingInv' /\ [KitchenKeeps]_vars
<1>1. call' \in [Calls -> WaitingCalls \cup {None}]
  BY DEF BillingInv, BillingTypeOK
<1>2. CallsOK'
  BY DEF BillingInv, BillingTypeOK, CallsOK
<1>3. RefsOK'
  BY DEF BillingInv, RefsOK, billVars
<1> QED
  BY <1>1, <1>2, <1>3, WaitingInv DEF BillingInv, BillingTypeOK

LEMMA BillArrivesInv ==
    ASSUME BillingInv, NEW c \in Calls, NEW r \in Refs, BillArrives(c, r)
    PROVE  BillingInv' /\ [KitchenKeeps]_vars
<1> DEFINE o == attempt[r].order
           d == attempt[r].discount
           w == [kind |-> "bill", order |-> o, ref |-> r, amount |-> d, approved |-> OverLimit(o, d)]
<1>1. attempt[r] # None /\ call' = [call EXCEPT ![c] = w] /\ UNCHANGED <<vars, billVars, moneyVars, attempt>>
  BY DEF BillArrives
<1>2. o \in OrderIds /\ d \in Nat
  BY <1>1 DEF BillingInv, BillingTypeOK
<1>3. OverLimit(o, d) \in BOOLEAN
  BY DEF OverLimit
<1>4. w \in WaitingCalls
  BY <1>2, <1>3, Zenon DEF WaitingCalls
<1>5. w.kind = "bill" /\ w.ref = r /\ w.order = o /\ w.amount = d
  OBVIOUS
<1> HIDE DEF w
<1> QED
  BY <1>1, <1>4, <1>5, CallWaits

LEMMA CreditArrivesInv ==
    ASSUME BillingInv, NEW c \in Calls, NEW kind \in {"void", "refund"}, NEW o \in OrderIds,
           NEW asked \in {0, Money(o) \div 2, Money(o)}, CreditArrives(c, kind, o, asked)
    PROVE  BillingInv' /\ [KitchenKeeps]_vars
<1> DEFINE w == [kind |-> kind, order |-> o, ref |-> None, amount |-> asked, approved |-> TRUE]
<1>1. call' = [call EXCEPT ![c] = w] /\ UNCHANGED <<vars, billVars, moneyVars, attempt>>
  BY DEF CreditArrives
<1>2. asked \in Nat
  <2>1. Money(o) \in Nat
    BY DEF Money, BillingInv, BillingTypeOK, MoneyFollowsBill
  <2> QED
    BY <2>1
<1>3. w \in WaitingCalls /\ w.kind # "bill"
  BY <1>2 DEF WaitingCalls
<1> HIDE DEF w
<1> QED
  BY <1>1, <1>3, CallWaits

\* A call that ends, and a restart, forget what waited.
LEMMA ForgetInv ==
    ASSUME BillingInv, UNCHANGED <<vars, billVars, moneyVars, attempt>>,
           \/ \E c \in Calls : call' = [call EXCEPT ![c] = None]
           \/ call' = [c \in Calls |-> None]
    PROVE  BillingInv' /\ [KitchenKeeps]_vars
<1>1. call' \in [Calls -> WaitingCalls \cup {None}]
  BY DEF BillingInv, BillingTypeOK
<1>2. CallsOK'
  BY DEF BillingInv, BillingTypeOK, CallsOK
<1>3. RefsOK'
  BY DEF BillingInv, RefsOK, billVars
<1> QED
  BY <1>1, <1>2, <1>3, WaitingInv DEF BillingInv, BillingTypeOK

-----------------------------------------------------------------------------
\* The total of a bill is a natural number: no discount is larger than the amount.
LEMMA TotalIsNatural ==
    ASSUME NEW o \in OrderIds, NEW d \in Nat, CanPrice(o, d)
    PROVE  /\ Amount(LinesOf(o)) \in Nat
           /\ ToRupee(Amount(LinesOf(o)) - d) \in Nat
<1>1. Amount(LinesOf(o)) \in Nat /\ Amount(LinesOf(o)) - d \in Nat
  BY BillingAssumption DEF CanPrice
<1>2. ASSUME NEW n \in Nat PROVE ToRupee(n) \in Nat
  BY DEF ToRupee
<1> QED
  BY <1>1, <1>2

\* Whoever issues a bill: of the whole state only what is known of waiting calls and of Zomato is left to show.
LEMMA IssueInv ==
    ASSUME BillingInv, NEW o \in OrderIds, NEW r \in Refs, NEW d \in Nat, NEW approved \in BOOLEAN,
           NEW recipe \in [Pending(o) -> Recipes], Issues(o, r, d, approved, recipe), ~RefUsed(r),
           UNCHANGED <<refunded, attempt>>, call' \in [Calls -> WaitingCalls \cup {None}],
           \/ /\ billStatus' = [billStatus EXCEPT ![o] = "unpaid"]
              /\ status' = [status EXCEPT ![o] = "billed"]
              /\ UNCHANGED collected
           \/ Collect(o, billTotal'[o]),
           OrderType[o] # "zomato" => /\ attempt[r] # None
                                      /\ attempt[r].order = o /\ attempt[r].discount = d
                                      /\ attempt[r].key = PreviewKey(o),
           CallsOK', ZomatoFollowsKitchen'
    PROVE  BillingInv' /\ KitchenKeeps
<1> USE OrdersAssumption, BillingAssumption
<1>1. Inv' /\ Trail' /\ KitchenKeeps
  BY IssueKeepsOrders DEF BillingInv
<1>2. /\ status[o] = "open" /\ billStatus[o] = "none"
      /\ CanPrice(o, d) /\ (OverLimit(o, d) => approved)
      /\ billLines'    = [billLines EXCEPT ![o] = LinesOf(o)]
      /\ billDiscount' = [billDiscount EXCEPT ![o] = d]
      /\ billTotal'    = [billTotal EXCEPT ![o] = ToRupee(Amount(LinesOf(o)) - d)]
      /\ billApproved' = [billApproved EXCEPT ![o] = approved /\ d > 0]
      /\ billRef'      = [billRef EXCEPT ![o] = r]
      /\ rowStatus'    = [i \in Rows |-> IF i \in Pending(o) THEN "sent" ELSE rowStatus[i]]
      /\ UNCHANGED <<rowOrder, qty>>
  BY DEF Issues, IssueBill, CanPrice
<1>3. \E s \in {"unpaid", "paid"}, t \in {"billed", "settled"} :
         /\ billStatus' = [billStatus EXCEPT ![o] = s] /\ status' = [status EXCEPT ![o] = t]
         /\ t = "billed" <=> s = "unpaid"
         /\ collected' = IF t = "settled" THEN [collected EXCEPT ![o] = @ + billTotal'[o]] ELSE collected
  BY DEF Collect
<1>4. Amount(LinesOf(o)) \in Nat /\ billTotal'[o] \in Nat
  BY <1>2, TotalIsNatural DEF BillingInv, BillingTypeOK
<1>5. LinesOf(o) \in [Rows -> Nat]
  BY DEF LinesOf, BillingInv, Inv, TypeOK
<1>6. BillingTypeOK'
  <2>1. (approved /\ d > 0) \in BOOLEAN
    BY Zenon
  <2>2. billApproved' \in [OrderIds -> BOOLEAN]
    <3>1. billApproved \in [OrderIds -> BOOLEAN]
      BY DEF BillingInv, BillingTypeOK
    <3> HIDE DEF BillingInv
    <3> QED
      BY <1>2, <2>1, <3>1, Zenon
  <2>3. billTotal' \in [OrderIds -> Nat] /\ collected' \in [OrderIds -> Nat]
    BY <1>2, <1>3, <1>4 DEF BillingInv, BillingTypeOK
  <2> QED
    BY <1>1, <1>2, <1>3, <1>5, <2>2, <2>3 DEF BillingInv, BillingTypeOK, Inv
<1>7. RefsOK'
  BY <1>2, <1>3 DEF BillingInv, BillingTypeOK, RefsOK
<1>8. BillFreezesOrder'
  <2>1. \A p \in OrderIds : p # o => Pending(p)' = Pending(p) /\ LinesOf(p)' = LinesOf(p)
    BY <1>2 DEF Pending, RowsOf, LinesOf, Charged, Live, Sent
  <2>2. Pending(o)' = {} /\ LinesOf(o)' = LinesOf(o)
    BY <1>2 DEF Pending, RowsOf, LinesOf, Charged, Live, Sent
  <2> QED
    BY <1>2, <1>3, <2>1, <2>2 DEF BillFreezesOrder, BillingInv, BillingTypeOK, Inv, TypeOK
<1>9. OrderFollowsBill'
  BY <1>2, <1>3 DEF OrderFollowsBill, BillingInv, BillingTypeOK, Inv, TypeOK
<1>10. MoneyFollowsBill'
  <2>1. \A p \in OrderIds : p # o => /\ status'[p] = status[p] /\ billStatus'[p] = billStatus[p]
                                     /\ billTotal'[p] = billTotal[p] /\ collected'[p] = collected[p]
    BY <1>2, <1>3 DEF BillingInv, BillingTypeOK, Inv, TypeOK
  <2>2. collected[o] = 0 /\ refunded[o] = 0
    BY <1>2 DEF MoneyFollowsBill, BillingInv, BillingTypeOK
  <2>3. /\ collected'[o] = IF status'[o] = "settled" THEN billTotal'[o] ELSE 0
        /\ billStatus'[o] # "void"
    BY <1>2, <1>3, <1>4, <2>2 DEF BillingInv, BillingTypeOK, Inv, TypeOK
  <2>4. refunded'[o] <= collected'[o]
    BY <1>4, <2>2, <2>3
  <2> QED
    BY <2>1, <2>3, <2>4 DEF MoneyFollowsBill, Money, BillingInv

<1>11. BilledAsReviewed'
  <2>1. LinesOf(o) = [i \in Rows |-> IF i \in DOMAIN PreviewKey(o) /\ Parent[i] = None THEN PreviewKey(o)[i][1] ELSE 0]
    BY DEF LinesOf, Charged, PreviewKey, Live, Pending, Sent, RowsOf
  <2>2. /\ billRef'[o] = r /\ billDiscount'[o] = d /\ billLines'[o] = LinesOf(o) /\ billApproved'[o] = (approved /\ d > 0)
        /\ \A p \in OrderIds : p # o => /\ billRef'[p] = billRef[p] /\ billDiscount'[p] = billDiscount[p]
                                        /\ billLines'[p] = billLines[p] /\ billApproved'[p] = billApproved[p]
                                        /\ billStatus'[p] = billStatus[p]
    BY <1>2, <1>3 DEF BillingInv, BillingTypeOK
  <2>3. \A p \in OrderIds : p # o => billRef[p] # r
    BY DEF RefUsed
  <2>4. d * 100 > Amount(LinesOf(o)) * Limit => approved /\ d > 0
    <3>1. Amount(LinesOf(o)) * Limit >= 0
      BY <1>4
    <3>2. d * 100 > Amount(LinesOf(o)) * Limit => d > 0
      BY <1>4, <3>1
    <3> QED
      BY <1>2, <3>2 DEF OverLimit
  <2>5. OrderType[o] # "zomato" =>
            LET a == attempt'[billRef'[o]] IN
            /\ a.order = o /\ a.discount = billDiscount'[o]
            /\ billLines'[o] = [i \in Rows |-> IF i \in DOMAIN a.key /\ Parent[i] = None THEN a.key[i][1] ELSE 0]
    BY <2>1, <2>2
  <2>6. ASSUME NEW p \in OrderIds, NEW q \in OrderIds, billStatus'[p] # "none", billRef'[q] = billRef'[p]
        PROVE  q = p
    <3>1. CASE p = o \/ q = o
      BY <3>1, <2>2, <2>3, <2>6
    <3>2. CASE p # o /\ q # o
      <4>1. billStatus[p] # "none" /\ billRef[q] = billRef[p]
        BY <3>2, <2>2, <2>6
      <4> QED
        BY <4>1 DEF BillingInv, BilledAsReviewed
    <3> QED
      BY <3>1, <3>2
  <2>7. billDiscount'[o] * 100 > Amount(billLines'[o]) * Limit => billApproved'[o]
    BY <2>2, <2>4
  <2>8. ASSUME NEW p \in OrderIds, p # o, billStatus'[p] # "none"
        PROVE  /\ OrderType[p] # "zomato" =>
                  LET a == attempt'[billRef'[p]] IN
                  /\ a.order = p /\ a.discount = billDiscount'[p]
                  /\ billLines'[p] = [i \in Rows |-> IF i \in DOMAIN a.key /\ Parent[i] = None THEN a.key[i][1] ELSE 0]
               /\ billDiscount'[p] * 100 > Amount(billLines'[p]) * Limit => billApproved'[p]
    <3>1. /\ billRef'[p] = billRef[p] /\ billDiscount'[p] = billDiscount[p] /\ billLines'[p] = billLines[p]
          /\ billApproved'[p] = billApproved[p] /\ billStatus[p] # "none"
      BY <2>2, <2>8
    <3>2. /\ OrderType[p] # "zomato" =>
                LET a == attempt[billRef[p]] IN
                /\ a.order = p /\ a.discount = billDiscount[p]
                /\ billLines[p] = [i \in Rows |-> IF i \in DOMAIN a.key /\ Parent[i] = None THEN a.key[i][1] ELSE 0]
          /\ billDiscount[p] * 100 > Amount(billLines[p]) * Limit => billApproved[p]
      BY <3>1 DEF BillingInv, BilledAsReviewed
    <3> QED
      BY <3>1, <3>2
  <2> QED
    BY <2>5, <2>6, <2>7, <2>8 DEF BilledAsReviewed
<1> QED
  BY <1>1, <1>6, <1>7, <1>8, <1>9, <1>10, <1>11 DEF BillingInv

LEMMA BillCommitsInv ==
    ASSUME BillingInv, NEW c \in Calls, call[c] # None, NEW recipe \in [Pending(call[c].order) -> Recipes],
           BillCommits(c, recipe)
    PROVE  BillingInv' /\ KitchenKeeps
<1> DEFINE o == call[c].order  r == call[c].ref  d == call[c].amount  approved == call[c].approved
<1>1. /\ call[c].kind = "bill" /\ MayIssue(c)
      /\ IssueBill(o, r, d, approved, recipe)
      /\ billStatus' = [billStatus EXCEPT ![o] = "unpaid"]
      /\ status'     = [status EXCEPT ![o] = "billed"]
      /\ call'       = [call EXCEPT ![c] = None]
      /\ UNCHANGED <<zomato, moneyVars, attempt>>
  BY DEF BillCommits
<1>2. o \in OrderIds /\ d \in Nat /\ approved \in BOOLEAN
  <2>1. call[c] \in WaitingCalls
    BY DEF BillingInv, BillingTypeOK
  <2> QED
    BY <2>1 DEF WaitingCalls
<1>3. /\ r \in Refs /\ attempt[r] # None /\ attempt[r].order = o /\ attempt[r].discount = d
      /\ attempt[r].key = PreviewKey(o) /\ ~RefUsed(r) /\ OrderType[o] # "zomato"
  BY <1>1 DEF BillingInv, CallsOK, RefsOK, MayIssue
<1>4. call' \in [Calls -> WaitingCalls \cup {None}] /\ CallsOK'
  BY <1>1 DEF BillingInv, BillingTypeOK, CallsOK
<1>5. ZomatoFollowsKitchen'
  BY <1>1, <1>3 DEF BillingInv, BillingTypeOK, ZomatoFollowsKitchen, ZomatoBilled, IssueBill, kitchenVars
<1>6. Issues(o, r, d, approved, recipe)
  BY <1>1 DEF Issues
<1> HIDE DEF o, r, d, approved
<1>7. UNCHANGED <<refunded, collected, attempt>>
  BY <1>1 DEF moneyVars
<1>8. recipe \in [Pending(o) -> Recipes]
  BY DEF o
<1> QED
  BY <1>1, <1>2, <1>3, <1>4, <1>5, <1>6, <1>7, <1>8, IssueInv

LEMMA PickedUpInv ==
    ASSUME BillingInv, NEW o \in OrderIds, NEW r \in Refs, NEW recipe \in [Pending(o) -> Recipes],
           PickedUp(o, r, recipe)
    PROVE  BillingInv' /\ KitchenKeeps
<1>1. /\ OrderType[o] = "zomato" /\ zomato[o] = "ready" /\ ~RefUsed(r)
      /\ IssueBill(o, r, 0, FALSE, recipe)
      /\ Collect(o, billTotal'[o])
      /\ zomato' = [zomato EXCEPT ![o] = "picked_up"]
      /\ UNCHANGED <<refunded, attempt, call>>
  BY DEF PickedUp, MayAdvance
<1>2. call' \in [Calls -> WaitingCalls \cup {None}] /\ CallsOK'
  BY <1>1 DEF BillingInv, BillingTypeOK, CallsOK
<1>3. ZomatoFollowsKitchen'
  BY <1>1 DEF BillingInv, BillingTypeOK, ZomatoFollowsKitchen, ZomatoBilled, IssueBill, Collect, kitchenVars, Inv, TypeOK
<1>4. Issues(o, r, 0, FALSE, recipe)
  BY <1>1 DEF Issues, Collect
<1> QED
  BY <1>1, <1>2, <1>3, <1>4, IssueInv

LEMMA SettleInv ==
    ASSUME BillingInv, NEW o \in OrderIds, NEW paid, Settle(o, paid)
    PROVE  BillingInv' /\ KitchenKeeps
<1> USE DEF BillingInv
<1>1. /\ billStatus[o] = "unpaid" /\ status[o] = "billed" /\ paid = billTotal[o] /\ OrderType[o] # "zomato"
      /\ billStatus' = [billStatus EXCEPT ![o] = "paid"]
      /\ collected'  = [collected EXCEPT ![o] = @ + paid]
      /\ status'     = [status EXCEPT ![o] = "settled"]
      /\ UNCHANGED <<mergedInto, zomato, rowVars, stockVars, kitchenVars, refunded, attempt, call,
                     billLines, billDiscount, billTotal, billApproved, billRef>>
  BY DEF Settle, Collect
<1>2. TypeOK'
  BY <1>1 DEF Inv, TypeOK, rowVars, stockVars, kitchenVars
<1>3. Inv' /\ Trail' /\ KitchenKeeps
  BY <1>1, <1>2, ClosingKeepsOrders DEF Inv, TypeOK
<1>4. collected[o] = 0 /\ collected'[o] = billTotal[o] /\ billTotal[o] \in Nat /\ refunded[o] = 0
  BY <1>1 DEF MoneyFollowsBill, BillingTypeOK
<1>5. BillingTypeOK'
  <2>1. collected' \in [OrderIds -> Nat]
    BY <1>1, <1>4 DEF BillingTypeOK
  <2> QED
    BY <1>1, <1>2, <2>1 DEF BillingTypeOK
<1>6. CallsOK' /\ RefsOK'
  BY <1>1 DEF CallsOK, RefsOK, BillingTypeOK
<1>7. BillFreezesOrder'
  BY <1>1 DEF BillFreezesOrder, BillingTypeOK, Inv, TypeOK, Pending, RowsOf, LinesOf, Charged, Live, Sent, rowVars
<1>8. OrderFollowsBill'
  BY <1>1 DEF OrderFollowsBill, BillingTypeOK, Inv, TypeOK
<1>9. MoneyFollowsBill'
  BY <1>1, <1>4 DEF MoneyFollowsBill, Money, BillingTypeOK, Inv, TypeOK
<1>10. BilledAsReviewed'
  BY <1>1 DEF BilledAsReviewed, BillingTypeOK
<1>11. ZomatoFollowsKitchen'
  BY <1>1 DEF ZomatoFollowsKitchen, ZomatoBilled, BillingTypeOK, kitchenVars
<1> QED
  BY <1>3, <1>5, <1>6, <1>7, <1>8, <1>9, <1>10, <1>11

LEMMA ZomatoReadyInv ==
    ASSUME BillingInv, NEW o \in OrderIds, ZomatoReady(o)
    PROVE  BillingInv' /\ KitchenKeeps
<1> USE DEF BillingInv
<1>1. /\ OrderType[o] = "zomato" /\ zomato[o] \in {"new", "preparing"} /\ billStatus[o] = "none"
      /\ zomato' = [zomato EXCEPT ![o] = "ready"]
      /\ UNCHANGED <<status, mergedInto, rowVars, stockVars, kitchenVars, billVars, moneyVars, attempt, call>>
  BY DEF ZomatoReady, MayAdvance
<1>2. TypeOK'
  BY <1>1 DEF Inv, TypeOK, rowVars, stockVars, kitchenVars
<1>3. Inv' /\ Trail' /\ KitchenKeeps
  BY <1>1, <1>2, ClosingKeepsOrders
<1>4. BillingTypeOK'
  BY <1>1, <1>2 DEF BillingTypeOK, billVars, moneyVars
<1>5. CallsOK' /\ RefsOK'
  BY <1>1 DEF CallsOK, RefsOK, billVars
<1>6. BillFreezesOrder' /\ OrderFollowsBill' /\ MoneyFollowsBill' /\ BilledAsReviewed'
  BY <1>1 DEF BillFreezesOrder, OrderFollowsBill, MoneyFollowsBill, BilledAsReviewed, Money,
              Pending, RowsOf, LinesOf, Charged, Live, Sent, rowVars, billVars, moneyVars
<1>7. ZomatoFollowsKitchen'
  BY <1>1 DEF ZomatoFollowsKitchen, ZomatoBilled, Inv, TypeOK, kitchenVars, billVars
<1> QED
  BY <1>3, <1>4, <1>5, <1>6, <1>7

LEMMA VoidCommitsInv ==
    ASSUME BillingInv, NEW c \in Calls, VoidCommits(c)
    PROVE  BillingInv' /\ KitchenKeeps
<1> USE DEF BillingInv
<1> DEFINE o == call[c].order  back == call[c].amount
<1>1. /\ call[c] # None /\ MayVoid(c)
      /\ billStatus' = [billStatus EXCEPT ![o] = "void"]
      /\ status'     = [status EXCEPT ![o] = VoidedOrder(o)]
      /\ refunded'   = [refunded EXCEPT ![o] = @ + back]
      /\ call'       = [call EXCEPT ![c] = None]
      /\ UNCHANGED <<mergedInto, zomato, rowVars, stockVars, kitchenVars, collected, attempt,
                     billLines, billDiscount, billTotal, billApproved, billRef>>
  BY DEF VoidCommits
<1>2. o \in OrderIds /\ back \in Nat
  <2>1. call[c] \in WaitingCalls
    BY <1>1 DEF BillingTypeOK
  <2> QED
    BY <2>1 DEF WaitingCalls
<1>3. /\ (billStatus[o] = "unpaid" /\ back = 0) \/ (billStatus[o] = "paid" /\ back = Money(o))
      /\ status[o] \in {"billed", "settled"}
      /\ status'[o] = IF billStatus[o] = "unpaid" THEN "cancelled" ELSE "settled"
  <2>1. (billStatus[o] = "unpaid" /\ back = 0) \/ (billStatus[o] = "paid" /\ back = Money(o))
    BY <1>1 DEF MayVoid
  <2>2. (billStatus[o] = "unpaid" => status[o] = "billed") /\ (billStatus[o] = "paid" => status[o] = "settled")
    BY <1>2 DEF OrderFollowsBill
  <2>3. status'[o] = VoidedOrder(o)
    BY <1>1, <1>2 DEF Inv, TypeOK
  <2> QED
    BY <2>1, <2>2, <2>3 DEF VoidedOrder
<1> HIDE DEF o, back
<1>4. TypeOK'
  BY <1>1, <1>2, <1>3 DEF Inv, TypeOK, rowVars, stockVars, kitchenVars
<1>5. Inv' /\ Trail' /\ KitchenKeeps
  BY <1>1, <1>2, <1>3, <1>4, ClosingKeepsOrders DEF Inv, TypeOK
<1>6. /\ collected[o] \in Nat /\ refunded[o] \in Nat /\ back \in Nat /\ refunded[o] <= collected[o]
      /\ refunded'[o] = refunded[o] + back
      /\ back <= Money(o)
  BY <1>1, <1>2, <1>3 DEF MoneyFollowsBill, BillingTypeOK, Money
<1>7. BillingTypeOK'
  <2>1. refunded' \in [OrderIds -> Nat]
    BY <1>1, <1>2, <1>6 DEF BillingTypeOK
  <2> QED
    BY <1>1, <1>4, <2>1 DEF BillingTypeOK
<1>8. CallsOK' /\ RefsOK'
  BY <1>1, <1>2, <1>3 DEF CallsOK, RefsOK, BillingTypeOK
<1>9. BillFreezesOrder'
  BY <1>1, <1>2, <1>3 DEF BillFreezesOrder, BillingTypeOK, Inv, TypeOK, Pending, RowsOf, LinesOf, Charged, Live, Sent, rowVars
<1>10. OrderFollowsBill'
  BY <1>1, <1>2, <1>3 DEF OrderFollowsBill, BillingTypeOK, Inv, TypeOK
<1>11. MoneyFollowsBill'
  <2>1. refunded'[o] <= collected[o] /\ collected[o] - refunded'[o] = 0
    <3>1. Money(o) = collected[o] - refunded[o]
      BY DEF Money
    <3>2. billStatus[o] = "unpaid" => collected[o] = 0
      BY <1>2 DEF MoneyFollowsBill, OrderFollowsBill
    <3> QED
      BY <1>3, <1>6, <3>1, <3>2
  <2>2. collected[o] = IF status'[o] = "settled" THEN billTotal[o] ELSE 0
    BY <1>1, <1>2, <1>3 DEF MoneyFollowsBill, OrderFollowsBill
  <2>3. \A p \in OrderIds : p # o => /\ status'[p] = status[p] /\ billStatus'[p] = billStatus[p]
                                     /\ refunded'[p] = refunded[p]
    BY <1>1, <1>2 DEF BillingTypeOK, Inv, TypeOK
  <2> QED
    BY <1>1, <2>1, <2>2, <2>3 DEF MoneyFollowsBill, Money
<1>12. BilledAsReviewed'
  BY <1>1, <1>2, <1>3 DEF BilledAsReviewed, BillingTypeOK
<1>13. ZomatoFollowsKitchen'
  BY <1>1, <1>2, <1>3 DEF ZomatoFollowsKitchen, ZomatoBilled, BillingTypeOK, kitchenVars
<1> QED
  BY <1>5, <1>7, <1>8, <1>9, <1>10, <1>11, <1>12, <1>13

LEMMA RefundCommitsInv ==
    ASSUME BillingInv, NEW c \in Calls, RefundCommits(c)
    PROVE  BillingInv' /\ [KitchenKeeps]_vars
<1> USE DEF BillingInv
<1> DEFINE o == call[c].order  back == call[c].amount
<1>1. /\ call[c] # None /\ MayRefund(c)
      /\ refunded' = [refunded EXCEPT ![o] = @ + back]
      /\ call'     = [call EXCEPT ![c] = None]
      /\ UNCHANGED <<vars, billVars, collected, attempt>>
  BY DEF RefundCommits
<1>2. o \in OrderIds
  <2>1. call[c] \in WaitingCalls
    BY <1>1 DEF BillingTypeOK
  <2> QED
    BY <2>1 DEF WaitingCalls
<1>3. billStatus[o] = "paid" /\ back \in 1..Money(o)
  BY <1>1 DEF MayRefund
<1> HIDE DEF o, back
<1>4. Inv' /\ Trail'
  BY <1>1, InvStep, TrailStep
<1>5. collected[o] \in Nat /\ refunded'[o] = refunded[o] + back /\ refunded'[o] \in Nat /\ refunded'[o] <= collected[o]
  BY <1>1, <1>2, <1>3 DEF MoneyFollowsBill, BillingTypeOK, Money
<1>6. BillingTypeOK'
  <2>1. refunded' \in [OrderIds -> Nat]
    BY <1>1, <1>2, <1>5 DEF BillingTypeOK
  <2> QED
    BY <1>1, <1>4, <2>1 DEF BillingTypeOK, Inv, billVars
<1>7. CallsOK' /\ RefsOK'
  BY <1>1 DEF CallsOK, RefsOK, BillingTypeOK, billVars
<1>8. BillFreezesOrder' /\ OrderFollowsBill' /\ BilledAsReviewed' /\ ZomatoFollowsKitchen'
  BY <1>1 DEF BillFreezesOrder, OrderFollowsBill, BilledAsReviewed, ZomatoFollowsKitchen, ZomatoBilled,
              Pending, RowsOf, LinesOf, Charged, Live, Sent, vars, orderVars, rowVars, kitchenVars, billVars
<1>9. MoneyFollowsBill'
  <2>1. \A p \in OrderIds : p # o => refunded'[p] = refunded[p]
    BY <1>1 DEF BillingTypeOK
  <2> QED
    BY <1>1, <1>2, <1>3, <1>5, <2>1 DEF MoneyFollowsBill, Money, vars, orderVars, billVars
<1> QED
  BY <1>1, <1>4, <1>6, <1>7, <1>8, <1>9

LEMMA BillingInvStep ==
    ASSUME BillingInv, [BillingStep]_allVars
    PROVE  BillingInv' /\ [KitchenKeeps]_vars
<1>1. CASE OrdersGoOn
  BY <1>1, OrdersGoOnInv
<1>2. ASSUME NEW r \in Refs, NEW o \in OrderIds, NEW d \in Discounts, Preview(r, o, d)
      PROVE  BillingInv' /\ [KitchenKeeps]_vars
  BY <1>2, PreviewInv
<1>3. ASSUME NEW c \in Calls, NEW r \in Refs, BillArrives(c, r)
      PROVE  BillingInv' /\ [KitchenKeeps]_vars
  BY <1>3, BillArrivesInv
<1>4. CASE BillSome
  BY <1>4, BillCommitsInv DEF BillSome
<1>5. ASSUME NEW c \in Calls, BillNotIssued(c) \/ CreditRefused(c)
      PROVE  BillingInv' /\ [KitchenKeeps]_vars
  BY <1>5, ForgetInv DEF BillNotIssued, CreditRefused
<1>6. CASE SettleSome
  BY <1>6, SettleInv DEF SettleSome
<1>7. ASSUME NEW o \in OrderIds, ZomatoReady(o)
      PROVE  BillingInv' /\ [KitchenKeeps]_vars
  BY <1>7, ZomatoReadyInv
<1>8. CASE PickUpSome
  BY <1>8, PickedUpInv DEF PickUpSome
<1>9. CASE CreditSome
  BY <1>9, CreditArrivesInv DEF CreditSome
<1>10. ASSUME NEW c \in Calls, VoidCommits(c)
       PROVE  BillingInv' /\ [KitchenKeeps]_vars
  BY <1>10, VoidCommitsInv
<1>11. ASSUME NEW c \in Calls, RefundCommits(c)
       PROVE  BillingInv' /\ [KitchenKeeps]_vars
  BY <1>11, RefundCommitsInv
<1>12. CASE Restart
  BY <1>12, ForgetInv DEF Restart
<1>13. CASE UNCHANGED allVars
  <2>1. UNCHANGED <<vars, billVars, moneyVars, attempt, call>>
    BY <1>13 DEF allVars
  <2> QED
    BY <2>1, WaitingInv DEF BillingInv, BillingTypeOK, CallsOK, RefsOK, billVars
<1> QED
  BY <1>1, <1>2, <1>3, <1>4, <1>5, <1>6, <1>7, <1>8, <1>9, <1>10, <1>11, <1>12, <1>13 DEF BillingStep

LEMMA BillingInvariance == BillingSpec => []BillingInv
<1>1. BillingInit => BillingInv
  BY BillingInvInit
<1>2. BillingInv /\ [BillingStep]_allVars => BillingInv'
  BY BillingInvStep
<1> QED
  BY <1>1, <1>2, PTL DEF BillingSpec

-----------------------------------------------------------------------------
\* Every part of the state has its type, with calls waiting too.
THEOREM BillingTypeCorrect == BillingSpec => []BillingTypeOK
<1>1. BillingInv => BillingTypeOK
  BY DEF BillingInv
<1> QED
  BY <1>1, BillingInvariance, PTL

\* No merge, KOT edit, late call or retry changes what a bill charged (issueBill freezes the order).
THEOREM BillsFreezeOrders == BillingSpec => []BillFreezesOrder
<1>1. BillingInv => BillFreezesOrder
  BY DEF BillingInv
<1> QED
  BY <1>1, BillingInvariance, PTL

\* orders.status and bills.status never disagree, in any order of settles, voids and bill requests.
THEOREM OrdersFollowBills == BillingSpec => []OrderFollowsBill
<1>1. BillingInv => OrderFollowsBill
  BY DEF BillingInv
<1> QED
  BY <1>1, BillingInvariance, PTL

\* Payments and refunds agree with bill and order: paid once and in full, never refunded beyond it.
THEOREM MoneyFollowsBills == BillingSpec => []MoneyFollowsBill
<1>1. BillingInv => MoneyFollowsBill
  BY DEF BillingInv
<1> QED
  BY <1>1, BillingInvariance, PTL

\* A counter's bill is the one it reviewed, one of each reference, approved if it is above the limit.
THEOREM BillsAreReviewed == BillingSpec => []BilledAsReviewed
<1>1. BillingInv => BilledAsReviewed
  BY DEF BillingInv
<1> QED
  BY <1>1, BillingInvariance, PTL

LEMMA ZomatoStepAdvances ==
    ASSUME BillingInv, [BillingStep]_allVars, NEW o \in OrderIds, OrderType[o] = "zomato"
    PROVE  ZomatoAdvance(o)
<1> USE DEF BillingInv
<1>1. CASE OrdersGoOn
  <2>1. OrderStep
    BY <1>1 DEF OrdersGoOn
  <2>2. status[o] = "open" => zomato[o] # "picked_up"
    BY DEF ZomatoFollowsKitchen, ZomatoBilled, BillFreezesOrder
  <2> QED
    BY <2>1, <2>2, OrdersAdvanceZomato
<1>2. ASSUME NEW p \in OrderIds, ZomatoReady(p) PROVE ZomatoAdvance(o)
  <2>1. /\ AwaitingKitchen(p) = {}
        /\ zomato' = [zomato EXCEPT ![p] = "ready"]
        /\ kotOrder' = kotOrder /\ kotDone' = kotDone
    BY <1>2 DEF ZomatoReady, MayAdvance, kitchenVars
  <2> QED
    BY <2>1 DEF ZomatoAdvance, Inv, TypeOK
<1>3. ASSUME NEW p \in OrderIds, NEW r \in Refs, NEW recipe \in [Pending(p) -> Recipes], PickedUp(p, r, recipe)
      PROVE  ZomatoAdvance(o)
  <2>1. /\ AwaitingKitchen(p) = {} /\ zomato[p] = "ready"
        /\ zomato' = [zomato EXCEPT ![p] = "picked_up"]
        /\ kotOrder' = kotOrder
    BY <1>3 DEF PickedUp, MayAdvance, IssueBill, kitchenVars
  <2> QED
    BY <2>1 DEF ZomatoAdvance, Inv, TypeOK
<1>4. CASE UNCHANGED <<zomato, kotOrder>>
  BY <1>4 DEF ZomatoAdvance
<1>5. CASE BillSome
  <2>1. UNCHANGED <<zomato, kotOrder>>
    BY <1>5 DEF BillSome, BillCommits, IssueBill, kitchenVars
  <2> QED
    BY <2>1, <1>4
<1>6. CASE SettleSome
  BY <1>6, <1>4 DEF SettleSome, Settle, kitchenVars
<1>7. ASSUME NEW c \in Calls, VoidCommits(c) PROVE ZomatoAdvance(o)
  BY <1>7, <1>4 DEF VoidCommits, kitchenVars
<1>8. CASE UNCHANGED vars
  BY <1>8, <1>4 DEF vars, orderVars, kitchenVars
<1> QED
  BY <1>1, <1>2, <1>3, <1>5, <1>6, <1>7, <1>8
     DEF BillingStep, PickUpSome, CreditSome, Preview, BillArrives, BillNotIssued, CreditArrives, RefundCommits,
         CreditRefused, Restart, allVars

\* No Zomato order is called or handed over with a dish that has still to go to the kitchen: Ready means nothing
\* awaits a ticket, and all tickets are done when the kitchen says so; a new ticket takes the order back to the
\* kitchen; and the rider gets a Ready order, with its bill (the desk, KOT done, the send and the bill, interleaved).
THEOREM ZomatoIsServed == BillingSpec => ZomatoAdvances
<1>1. BillingInv /\ [BillingStep]_allVars =>
          [\A o \in OrderIds : OrderType[o] = "zomato" => ZomatoAdvance(o) /\ ZomatoBilled(o)']_allVars
  <2> SUFFICES ASSUME BillingInv, [BillingStep]_allVars, NEW o \in OrderIds, OrderType[o] = "zomato"
               PROVE  ZomatoAdvance(o) /\ ZomatoBilled(o)'
    OBVIOUS
  <2>1. ZomatoAdvance(o)
    BY ZomatoStepAdvances
  <2>2. ZomatoFollowsKitchen'
    BY BillingInvStep DEF BillingInv
  <2> QED
    BY <2>1, <2>2 DEF ZomatoFollowsKitchen
<1> QED
  BY <1>1, BillingInvariance, PTL DEF BillingSpec, ZomatoAdvances

\* Combos, stock and tickets keep in step, with bills and the Zomato desk among the steps too.
THEOREM BilledDishesStay == BillingSpec => [](ComboTogether /\ StockFollowsItems /\ SentIsOnTicket)
<1>1. BillingInv => ComboTogether /\ StockFollowsItems /\ SentIsOnTicket
  BY DEF BillingInv, Inv, Trail
<1> QED
  BY <1>1, BillingInvariance, PTL

\* No bill, settlement, void or hand-over undoes what reached the kitchen either.
THEOREM BilledKitchenIsFinal == BillingSpec => SentIsFinal
<1>1. BillingInv /\ [BillingStep]_allVars => [KitchenKeeps]_vars
  BY BillingInvStep
<1> QED
  BY <1>1, BillingInvariance, PTL DEF BillingSpec, SentIsFinal

-----------------------------------------------------------------------------
(* The hub implements Tabs.                                                *)

\* The fate of a line: it is on the tab while it is pending or sent and its order has no bill.
Tells(i) ==
    /\ rowStatus[i] = "none" => LineFate(i) = "unpunched"
    /\ rowStatus[i] = "cancelled" => LineFate(i) = "cancelled"
    /\ rowStatus[i] \in {"pending", "sent"} =>
          LineFate(i) = IF billStatus[rowOrder[i]] = "none" THEN "running" ELSE "charged"

LEMMA FateIsTold ==
    ASSUME NEW i \in Rows
    PROVE  Tells(i) /\ Tells(i)'
BY DEF Tells, LineFate

\* The line stays what it was, and where it was if it has been billed.
SameFate(i) ==
    /\ rowStatus'[i] = rowStatus[i] \/ {rowStatus[i], rowStatus'[i]} \subseteq {"pending", "sent"}
    /\ rowStatus[i] \in {"pending", "sent"} =>
          \/ /\ rowOrder'[i] = rowOrder[i]
             /\ billStatus'[rowOrder[i]] = "none" <=> billStatus[rowOrder[i]] = "none"
          \/ billStatus[rowOrder[i]] = "none" /\ billStatus'[rowOrder'[i]] = "none"

LEMMA FateStays ==
    ASSUME BillingInv, NEW i \in Rows, SameFate(i)
    PROVE  /\ LineFate(i)' = LineFate(i)
           /\ LineFate(i) = "charged" => rowOrder'[i] = rowOrder[i]
<1>1. Tells(i) /\ Tells(i)'
  BY FateIsTold
<1>2. rowStatus[i] \in {"none", "pending", "sent", "cancelled"}
  BY DEF BillingInv, Inv, TypeOK
<1> QED
  BY <1>1, <1>2 DEF Tells, SameFate

\* What the guest's tab holds: the fate of every line, and the bill it is charged on.
Fate  == [i \in Rows |-> LineFate(i)]
Place == [i \in Rows |-> IF LineFate(i) = "charged" THEN rowOrder[i] ELSE None]

LEMMA TabIs == Tab!tabVars = <<Fate, Place, billStatus>>
BY DEF Tab!tabVars, Fate, Place

LEMMA TabStutters ==
    ASSUME BillingInv, billStatus' = billStatus, \A i \in Rows : SameFate(i)
    PROVE  UNCHANGED Tab!tabVars
<1>1. \A i \in Rows : LineFate(i)' = LineFate(i) /\ (LineFate(i) = "charged" => rowOrder'[i] = rowOrder[i])
  BY FateStays
<1>2. Fate' = Fate /\ Place' = Place
  BY <1>1 DEF Fate, Place
<1> QED
  BY <1>2 DEF Tab!tabVars, Fate, Place

\* Lines punched on an order without a bill are running.
LEMMA TabPunches ==
    ASSUME BillingInv, billStatus' = billStatus, NEW S \in (SUBSET Rows) \ {{}},
           \A i \in S : rowStatus[i] = "none" /\ rowStatus'[i] = "pending" /\ billStatus[rowOrder'[i]] = "none",
           \A i \in Rows \ S : SameFate(i)
    PROVE  Tab!Punch(S)
<1>1. \A i \in Rows : Tells(i) /\ Tells(i)'
  BY FateIsTold
<1>2. \A i \in Rows \ S : LineFate(i)' = LineFate(i) /\ (LineFate(i) = "charged" => rowOrder'[i] = rowOrder[i])
  BY FateStays
<1>3. \A i \in S : LineFate(i) = "unpunched" /\ LineFate(i)' = "running"
  BY <1>1 DEF Tells
<1>4. Fate' = [i \in Rows |-> IF i \in S THEN "running" ELSE Fate[i]] /\ Place' = Place /\ \A i \in S : Fate[i] = "unpunched"
  BY <1>2, <1>3 DEF Fate, Place
<1> QED
  BY <1>4 DEF Tab!Punch, Tab!Become, Fate, Place

\* Lines cancelled on an order without a bill are taken off.
LEMMA TabTakesOff ==
    ASSUME BillingInv, billStatus' = billStatus, NEW S \in (SUBSET Rows) \ {{}},
           \A i \in S : /\ rowStatus[i] \in {"pending", "sent"} /\ billStatus[rowOrder[i]] = "none"
                        /\ rowStatus'[i] = "cancelled",
           \A i \in Rows \ S : SameFate(i)
    PROVE  Tab!TakeOff(S)
<1>1. \A i \in Rows : Tells(i) /\ Tells(i)'
  BY FateIsTold
<1>2. \A i \in Rows \ S : LineFate(i)' = LineFate(i) /\ (LineFate(i) = "charged" => rowOrder'[i] = rowOrder[i])
  BY FateStays
<1>3. \A i \in S : LineFate(i) = "running" /\ LineFate(i)' = "cancelled"
  BY <1>1 DEF Tells
<1>4. Fate' = [i \in Rows |-> IF i \in S THEN "cancelled" ELSE Fate[i]] /\ Place' = Place /\ \A i \in S : Fate[i] = "running"
  BY <1>2, <1>3 DEF Fate, Place
<1> QED
  BY <1>4 DEF Tab!TakeOff, Tab!Become, Fate, Place

\* Issuing a bill charges what is live on the order.
LEMMA TabCharges ==
    ASSUME BillingInv, NEW o \in OrderIds, NEW r, NEW d, NEW approved, NEW recipe, NEW paid \in BOOLEAN,
           IssueBill(o, r, d, approved, recipe),
           billStatus' = [billStatus EXCEPT ![o] = IF paid THEN "paid" ELSE "unpaid"]
    PROVE  Tab!Next
<1>1. /\ billStatus[o] = "none" /\ Charged(o) # {}
      /\ rowStatus' = [i \in Rows |-> IF i \in Pending(o) THEN "sent" ELSE rowStatus[i]]
      /\ rowOrder' = rowOrder
  BY DEF IssueBill, CanPrice
<1>2. billStatus \in [OrderIds -> {"none", "unpaid", "paid", "void"}]
  BY DEF BillingInv, BillingTypeOK
<1>3. Live(o) \in (SUBSET Rows) \ {{}}
  BY <1>1 DEF Charged, Live, Pending, Sent, RowsOf
<1>4. \A i \in Rows : Tells(i) /\ Tells(i)'
  BY FateIsTold
<1>5. \A i \in Live(o) : LineFate(i) = "running" /\ LineFate(i)' = "charged" /\ rowOrder'[i] = o
  BY <1>1, <1>2, <1>4 DEF Tells, Live, Pending, Sent, RowsOf
<1>6. \A i \in Rows \ Live(o) : SameFate(i)
  BY <1>1, <1>2 DEF SameFate, Live, Pending, Sent, RowsOf
<1>7. \A i \in Rows \ Live(o) : LineFate(i)' = LineFate(i) /\ (LineFate(i) = "charged" => rowOrder'[i] = rowOrder[i])
  BY <1>6, FateStays
<1>8. /\ Fate' = [i \in Rows |-> IF i \in Live(o) THEN "charged" ELSE Fate[i]]
      /\ Place' = [i \in Rows |-> IF i \in Live(o) THEN o ELSE Place[i]]
      /\ \A i \in Live(o) : Fate[i] = "running"
  BY <1>5, <1>7 DEF Fate, Place, Live, Pending, Sent, RowsOf
<1>9. Tab!Charge(o, Live(o), paid)
  BY <1>1, <1>8 DEF Tab!Charge, Tab!Become, Fate, Place
<1> QED
  BY <1>3, <1>9 DEF Tab!Next

\* The steps of Orders punch lines, take them off, or change no tab.
LEMMA OrdersKeepTabs ==
    ASSUME BillingInv, OrdersGoOn
    PROVE  [Tab!Next]_(Tab!tabVars)
<1> USE OrdersAssumption
<1>1. OrderStep /\ billStatus' = billStatus
  BY DEF OrdersGoOn, billVars
<1>2. \A o \in OrderIds : status[o] = "open" => billStatus[o] = "none"
  BY DEF BillingInv, BillFreezesOrder
<1>3. ASSUME NEW o \in OrderIds, NEW S \in SUBSET Tops, NEW q \in [S -> 1..MaxQty], NEW H \in SUBSET S,
             AddItems(o, S, q, H)
      PROVE  Tab!Next
  <2> DEFINE fresh == {i \in S : rowStatus[i] = "none"}
             new == fresh \cup {i \in Rows : Parent[i] \in fresh}
  <2>1. /\ fresh # {} /\ AddReply(o, S) = "saved"
        /\ rowOrder'  = [i \in Rows |-> IF i \in new THEN o ELSE rowOrder[i]]
        /\ rowStatus' = [i \in Rows |-> IF i \in new THEN "pending" ELSE rowStatus[i]]
    BY <1>3 DEF AddItems
  <2>2. billStatus[o] = "none"
    BY <1>2, <2>1 DEF AddReply
  <2>3. new \in (SUBSET Rows) \ {{}} /\ \A i \in new : rowStatus[i] = "none"
    BY <2>1 DEF Tops, BillingInv, Inv, ComboTogether
  <2> HIDE DEF new
  <2>4. \A i \in new : rowStatus[i] = "none" /\ rowStatus'[i] = "pending" /\ billStatus[rowOrder'[i]] = "none"
    BY <2>1, <2>2, <2>3
  <2>5. \A i \in Rows \ new : SameFate(i)
    BY <1>1, <2>1 DEF SameFate
  <2>6. Tab!Punch(new)
    BY <1>1, <2>3, <2>4, <2>5, TabPunches
  <2> QED
    BY <2>3, <2>6 DEF Tab!Next
<1>4. ASSUME NEW i \in Rows, CancelItem(i) PROVE Tab!Next
  <2> DEFINE gone == {i} \cup {j \in Children(i) : rowStatus[j] # "cancelled"}
  <2>1. /\ rowStatus[i] \in {"pending", "sent"} /\ status[rowOrder[i]] = "open" /\ rowOrder' = rowOrder
        /\ rowStatus' = [j \in Rows |-> IF j \in gone THEN "cancelled" ELSE rowStatus[j]]
    BY <1>4 DEF CancelItem
  <2>2. \A j \in gone : j \in Rows /\ rowOrder[j] = rowOrder[i] /\ rowStatus[j] \in {"pending", "sent"}
    <3>1. ASSUME NEW j \in Children(i), rowStatus[j] # "cancelled"
          PROVE  j \in Rows /\ rowOrder[j] = rowOrder[i] /\ rowStatus[j] \in {"pending", "sent"}
      <4>1. j \in Rows /\ Parent[j] = i /\ Parent[j] # None
        BY <3>1 DEF Children
      <4>2. rowOrder[j] = rowOrder[i] /\ rowStatus[j] # "none"
        BY <2>1, <4>1 DEF BillingInv, Inv, ComboTogether
      <4>3. rowStatus[j] \in {"none", "pending", "sent", "cancelled"}
        BY <4>1 DEF BillingInv, Inv, TypeOK
      <4> QED
        BY <3>1, <4>1, <4>2, <4>3
    <3> QED
      BY <2>1, <3>1
  <2>3. rowOrder[i] \in OrderIds
    BY <2>1 DEF BillingInv, Inv, TypeOK, Trail, LinesKnown
  <2>4. gone \in (SUBSET Rows) \ {{}}
    BY <2>2
  <2> HIDE DEF gone
  <2>5. \A j \in gone : /\ rowStatus[j] \in {"pending", "sent"} /\ billStatus[rowOrder[j]] = "none"
                        /\ rowStatus'[j] = "cancelled"
    BY <1>2, <2>1, <2>2, <2>3
  <2>6. \A j \in Rows \ gone : SameFate(j)
    BY <1>1, <2>1 DEF SameFate
  <2>7. Tab!TakeOff(gone)
    BY <1>1, <2>4, <2>5, <2>6, TabTakesOff
  <2> QED
    BY <2>4, <2>7 DEF Tab!Next
<1>5. ASSUME NEW o \in OrderIds, CancelOrder(o) PROVE [Tab!Next]_(Tab!tabVars)
  <2>1. /\ status[o] = "open" /\ rowOrder' = rowOrder
        /\ rowStatus' = [i \in Rows |-> IF i \in Pending(o) THEN "cancelled" ELSE rowStatus[i]]
    BY <1>5 DEF CancelOrder, Cancellable
  <2>2. \A i \in Pending(o) : i \in Rows /\ rowOrder[i] = o /\ rowStatus[i] = "pending"
    BY DEF Pending, RowsOf
  <2>3. \A i \in Rows \ Pending(o) : SameFate(i)
    BY <1>1, <2>1 DEF SameFate
  <2>4. CASE Pending(o) = {}
    BY <1>1, <2>3, <2>4, TabStutters
  <2>5. CASE Pending(o) # {}
    <3>1. Tab!TakeOff(Pending(o))
      BY <1>1, <1>2, <2>1, <2>2, <2>3, <2>5, TabTakesOff
    <3> QED
      BY <2>2, <2>5, <3>1 DEF Tab!Next
  <2> QED
    BY <2>4, <2>5
<1>6. ASSUME NEW o \in OrderIds, NEW named \in SUBSET Rows, NEW fire \in BOOLEAN,
             NEW r \in [Leaving(o, named, fire) -> Recipes], Send(o, named, fire, r)
      PROVE  UNCHANGED Tab!tabVars
  <2>1. /\ rowStatus' = [i \in Rows |-> IF i \in Leaving(o, named, fire) THEN "sent" ELSE rowStatus[i]]
        /\ rowOrder' = rowOrder
    BY <1>6 DEF Send
  <2>2. \A i \in Leaving(o, named, fire) : rowStatus[i] = "pending"
    BY DEF Leaving, CombosOf, Cooked, Selected, Pending
  <2>3. \A i \in Rows : SameFate(i)
    BY <1>1, <2>1, <2>2 DEF SameFate
  <2> QED
    BY <1>1, <2>3, TabStutters
<1>7. ASSUME NEW s \in OrderIds, NEW r \in OrderIds, Merge(s, r) PROVE UNCHANGED Tab!tabVars
  <2>1. /\ rowOrder' = [i \in Rows |-> IF rowOrder[i] = s THEN r ELSE rowOrder[i]]
        /\ rowStatus' = rowStatus /\ billStatus[s] = "none" /\ billStatus[r] = "none"
    BY <1>2, <1>7 DEF Merge, Mergeable
  <2>2. \A i \in Rows : SameFate(i)
    BY <1>1, <2>1 DEF SameFate
  <2> QED
    BY <1>1, <2>2, TabStutters
<1>8. CASE UNCHANGED <<rowStatus, rowOrder>>
  <2>1. \A i \in Rows : SameFate(i)
    BY <1>1, <1>8 DEF SameFate
  <2> QED
    BY <1>1, <2>1, TabStutters
<1>9. \/ AddSome \/ SendSome
      \/ \E i \in Rows : CancelItem(i)
      \/ \E o \in OrderIds : CancelOrder(o)
      \/ \E s, r \in OrderIds : Merge(s, r)
      \/ UNCHANGED <<rowStatus, rowOrder>>
  BY <1>1 DEF OrderStep, UpdateSome, EditSome, CreateOrder, UpdateItem, KotDone, EditSent, ChangeStation, rowVars
<1> QED
  BY <1>3, <1>4, <1>5, <1>6, <1>7, <1>8, <1>9 DEF AddSome, SendSome

\* A step of the desk, a counter or a waiting call charges a tab, pays it, makes it void, or leaves it alone.
LEMMA BillsKeepTabs ==
    ASSUME BillingInv, [BillingStep]_allVars
    PROVE  [Tab!Next]_(Tab!tabVars)
<1>1. CASE OrdersGoOn
  BY <1>1, OrdersKeepTabs
<1>2. CASE UNCHANGED <<vars, billVars>>
  <2>1. billStatus' = billStatus /\ rowStatus' = rowStatus /\ rowOrder' = rowOrder
    BY <1>2 DEF vars, rowVars, billVars
  <2>2. \A i \in Rows : SameFate(i)
    BY <2>1 DEF SameFate
  <2> QED
    BY <2>1, <2>2, TabStutters
<1>3. ASSUME NEW c \in Calls, call[c] # None, NEW recipe \in [Pending(call[c].order) -> Recipes],
             BillCommits(c, recipe)
      PROVE  Tab!Next
  <2>1. call[c].order \in OrderIds
    <3>1. call[c] \in WaitingCalls
      BY <1>3 DEF BillingInv, BillingTypeOK
    <3> QED
      BY <3>1 DEF WaitingCalls
  <2>2. /\ IssueBill(call[c].order, call[c].ref, call[c].amount, call[c].approved, recipe)
        /\ billStatus' = [billStatus EXCEPT ![call[c].order] = "unpaid"]
    BY <1>3 DEF BillCommits
  <2>3. billStatus' = [billStatus EXCEPT ![call[c].order] = IF FALSE THEN "paid" ELSE "unpaid"]
    BY <2>2
  <2> QED
    BY <2>1, <2>2, <2>3, TabCharges
<1>4. ASSUME NEW o \in OrderIds, NEW r \in Refs, NEW recipe \in [Pending(o) -> Recipes], PickedUp(o, r, recipe)
      PROVE  Tab!Next
  <2>1. IssueBill(o, r, 0, FALSE, recipe) /\ billStatus' = [billStatus EXCEPT ![o] = IF TRUE THEN "paid" ELSE "unpaid"]
    BY <1>4 DEF PickedUp, Collect
  <2> QED
    BY <2>1, TabCharges
<1>5. ASSUME NEW o \in OrderIds, billStatus[o] # "none", NEW s \in {"unpaid", "paid", "void"},
             billStatus' = [billStatus EXCEPT ![o] = s], UNCHANGED <<rowStatus, rowOrder>>
      PROVE  Fate' = Fate /\ Place' = Place
  <2>1. \A i \in Rows : SameFate(i)
    BY <1>5 DEF SameFate, BillingInv, BillingTypeOK
  <2>2. \A i \in Rows : LineFate(i)' = LineFate(i) /\ (LineFate(i) = "charged" => rowOrder'[i] = rowOrder[i])
    BY <2>1, FateStays
  <2> QED
    BY <2>2 DEF Fate, Place
<1>6. ASSUME NEW o \in OrderIds, NEW paid, Settle(o, paid) PROVE Tab!Next
  <2>1. /\ billStatus[o] = "unpaid" /\ billStatus' = [billStatus EXCEPT ![o] = "paid"]
        /\ UNCHANGED <<rowStatus, rowOrder>>
    BY <1>6 DEF Settle, Collect, rowVars
  <2>2. Fate' = Fate /\ Place' = Place
    BY <1>5, <2>1
  <2>3. Tab!Pay(o)
    BY <2>1, <2>2 DEF Tab!Pay, Fate, Place
  <2> QED
    BY <2>3 DEF Tab!Next
<1>7. ASSUME NEW c \in Calls, VoidCommits(c) PROVE Tab!Next
  <2> DEFINE o == call[c].order
  <2>1. o \in OrderIds
    <3>1. call[c] \in WaitingCalls
      BY <1>7 DEF BillingInv, BillingTypeOK, VoidCommits
    <3> QED
      BY <3>1 DEF WaitingCalls
  <2>2. /\ billStatus[o] \in {"unpaid", "paid"} /\ billStatus' = [billStatus EXCEPT ![o] = "void"]
        /\ UNCHANGED <<rowStatus, rowOrder>>
    BY <1>7 DEF VoidCommits, MayVoid, rowVars
  <2> HIDE DEF o
  <2>3. Fate' = Fate /\ Place' = Place
    BY <1>5, <2>1, <2>2
  <2>4. Tab!Void(o)
    BY <2>2, <2>3 DEF Tab!Void, Fate, Place
  <2> QED
    BY <2>1, <2>4 DEF Tab!Next
<1>8. ASSUME NEW o \in OrderIds, ZomatoReady(o) PROVE UNCHANGED Tab!tabVars
  <2>1. billStatus' = billStatus /\ rowStatus' = rowStatus /\ rowOrder' = rowOrder
    BY <1>8 DEF ZomatoReady, rowVars, billVars
  <2>2. \A i \in Rows : SameFate(i)
    BY <2>1 DEF SameFate
  <2> QED
    BY <2>1, <2>2, TabStutters
<1>9. \/ OrdersGoOn \/ BillSome \/ SettleSome \/ PickUpSome
      \/ \E o \in OrderIds : ZomatoReady(o)
      \/ \E c \in Calls : VoidCommits(c)
      \/ UNCHANGED <<vars, billVars>>
  BY DEF BillingStep, CreditSome, allVars, Preview, BillArrives, BillNotIssued, CreditArrives, RefundCommits,
         CreditRefused, Restart
<1> QED
  BY <1>1, <1>2, <1>3, <1>4, <1>6, <1>7, <1>8, <1>9 DEF BillSome, SettleSome, PickUpSome

\* The hub implements Tabs: every dish is taken off or charged on exactly one bill, drawn up once, whatever
\* merges, KOT edits, waiting calls, retries and restarts come between.
THEOREM HubImplementsTabs == BillingSpec => ImplementsTabs
<1>1. BillingInit => Tab!Init
  BY DEF BillingInit, Init, Tab!Init, LineFate
<1>2. BillingInv /\ [BillingStep]_allVars => [Tab!Next]_(Tab!tabVars)
  BY BillsKeepTabs
<1> QED
  BY <1>1, <1>2, BillingInvariance, PTL DEF BillingSpec, ImplementsTabs, Tab!Spec
=============================================================================
