------------------------------- MODULE Orders -------------------------------
(***************************************************************************)
(* Running orders on the hub: apps/server/src/orders.ts, kots.ts,          *)
(* kot-edit.ts, the merge of table-transfer.ts and the stock movements of  *)
(* packages/domain/src/stock.ts that they make.                            *)
(*                                                                         *)
(* Every handler here is synchronous up to its reply and writes in one     *)
(* SQLite transaction, so a handler is one action.  Any number of counters *)
(* call them in any order.  A request that is refused, and a replay that   *)
(* only repeats an earlier answer, changes nothing: it is a stutter.       *)
(*                                                                         *)
(* A row of order_items is a slot of Rows, fixed in advance together with  *)
(* the dish it would hold: the combo it belongs to, how many of it one     *)
(* combo holds, and the kitchen stations its dish may be given.            *)
(***************************************************************************)
EXTENDS Integers

CONSTANTS
    OrderIds,        \* orders that may be opened
    Rows,            \* order lines that may be punched; a line is also its client_ref
    Stations,        \* kitchen stations
    None,            \* SQL NULL
    OrderType,       \* [OrderIds -> {"dine_in", "parcel", "zomato"}]
    Parent,          \* the combo line a line belongs to, or None
    PerCombo,        \* how many of this component one combo holds
    StationChoices,  \* the stations (or None) the catalog may give the line's dish
    Recipes,         \* stock units one portion may take; 0 when no stock is linked
    MaxQty,          \* bound: largest quantity punched
    MaxSends         \* bound: KOT requests that create tickets

ASSUME OrdersAssumption ==
    /\ None \notin OrderIds \cup Rows \cup Stations  /\ None \notin (1..MaxSends) \X Stations
    /\ OrderType \in [OrderIds -> {"dine_in", "parcel", "zomato"}]
    /\ Parent \in [Rows -> Rows \cup {None}]
    /\ \A i \in Rows : Parent[i] # None => Parent[Parent[i]] = None
    /\ PerCombo \in [Rows -> Nat \ {0}]
    /\ StationChoices \in [Rows -> (SUBSET (Stations \cup {None})) \ {{}}]
    /\ Recipes \subseteq Nat
    /\ MaxQty \in Nat \ {0}
    /\ MaxSends \in Nat

VARIABLES
    status,      \* orders.status, "none" before the order exists
    mergedInto,  \* orders.merged_into
    zomato,      \* orders.zomato_status; "new" is NULL
    rowOrder,    \* order_items.order_id
    rowStatus,   \* order_items.status, "none" before the line is punched
    qty,         \* order_items.qty
    held,        \* order_items.held
    ticket,      \* order_items.kot_id
    cut,         \* portions moved by KOT edits to cancelled copies of the line
    station,     \* products.kot_station_id of the line's dish
    unit,        \* qty_per_sale when the line's sale was recorded
    sold,        \* the line's "sale" movement
    returned,    \* its partial returns (partial_of)
    reversed,    \* its full reversal (reversal_of)
    kotOrder,    \* kots.order_id, None before the ticket exists
    kotDone,     \* kots.done_at is set
    sends,       \* KOT requests so far
    punchedOn    \* history: the order a line was first saved on

orderVars   == <<status, mergedInto, zomato>>
rowVars     == <<rowOrder, rowStatus, qty, held, ticket, cut, station, punchedOn>>
stockVars   == <<unit, sold, returned, reversed>>
kitchenVars == <<kotOrder, kotDone, sends>>
vars == <<orderVars, rowVars, stockVars, kitchenVars>>

-----------------------------------------------------------------------------
(* Lines and tickets.                                                      *)

\* One KOT request makes at most one ticket for each station.
Tickets == (1..MaxSends) \X Stations

Tops        == {i \in Rows : Parent[i] = None}
Children(c) == {i \in Rows : Parent[i] = c}

RowsOf(o)  == {i \in Rows : rowOrder[i] = o}
Pending(o) == {i \in RowsOf(o) : rowStatus[i] = "pending"}
Sent(o)    == {i \in RowsOf(o) : rowStatus[i] = "sent"}
Live(o)    == Pending(o) \cup Sent(o)

\* A component is held back with the combo it is in; only the combo's line carries the flag.
EffectivelyHeld(i) == held[i] \/ (Parent[i] # None /\ held[Parent[i]])

\* The dishes that keep an order from being billed.
AwaitingKitchen(o) == {i \in Pending(o) : station[i] # None}

-----------------------------------------------------------------------------
Init ==
    /\ status     = [o \in OrderIds |-> "none"]
    /\ mergedInto = [o \in OrderIds |-> None]
    /\ zomato     = [o \in OrderIds |-> "new"]
    /\ rowOrder   = [i \in Rows |-> None]
    /\ rowStatus  = [i \in Rows |-> "none"]
    /\ qty        = [i \in Rows |-> 0]
    /\ held       = [i \in Rows |-> FALSE]
    /\ ticket     = [i \in Rows |-> None]
    /\ cut        = [i \in Rows |-> 0]
    /\ station    \in {f \in [Rows -> Stations \cup {None}] : \A i \in Rows : f[i] \in StationChoices[i]}
    /\ unit       = [i \in Rows |-> 0]
    /\ sold       = [i \in Rows |-> 0]
    /\ returned   = [i \in Rows |-> 0]
    /\ reversed   = [i \in Rows |-> 0]
    /\ kotOrder   = [t \in Tickets |-> None]
    /\ kotDone    = [t \in Tickets |-> FALSE]
    /\ sends      = 0
    /\ punchedOn  = [i \in Rows |-> None]

\* POST /api/orders.  Tables, reservations and split labels are the Seating module's.
CreateOrder(o) ==
    /\ status[o] = "none"
    /\ status' = [status EXCEPT ![o] = "open"]
    /\ UNCHANGED <<mergedInto, zomato, rowVars, stockVars, kitchenVars>>

\* Bug: any order that exists takes new lines.
AddReplyClosed(o, S) ==
    IF \E i \in S : rowStatus[i] # "none" /\ rowOrder[i] # o THEN "reference used elsewhere" ELSE "saved"

\* What POST /api/orders/:id/items answers to lines S: their references decide before anything is priced.
AddReply(o, S) ==
    LET saved == {i \in S : rowStatus[i] # "none"} IN
    IF \E i \in saved : rowOrder[i] # o THEN "reference used elsewhere"
    ELSE IF status[o] = "open" \/ saved = S THEN "saved"
    ELSE "order is not open"

\* The lines not saved before are inserted, combos with their components; H are the held ones.
AddItems(o, S, q, H) ==
    LET fresh == {i \in S : rowStatus[i] = "none"}
        new   == fresh \cup {i \in Rows : Parent[i] \in fresh}
    IN
    /\ status[o] # "none"
    /\ AddReply(o, S) = "saved"
    /\ fresh # {}
    /\ rowOrder'  = [i \in Rows |-> IF i \in new THEN o ELSE rowOrder[i]]
    /\ rowStatus' = [i \in Rows |-> IF i \in new THEN "pending" ELSE rowStatus[i]]
    /\ qty'       = [i \in Rows |-> IF i \in fresh THEN q[i]
                                    ELSE IF i \in new THEN PerCombo[i] * q[Parent[i]] ELSE qty[i]]
    /\ held'      = [i \in Rows |-> IF i \in fresh THEN i \in H ELSE held[i]]
    /\ punchedOn' = [i \in Rows |-> IF i \in new THEN o ELSE punchedOn[i]]
    /\ UNCHANGED <<orderVars, ticket, cut, station, stockVars, kitchenVars>>

\* Bug: a line in the kitchen can still be edited in the cart.
EditableSent(i) == rowStatus[i] \in {"pending", "sent"} /\ status[rowOrder[i]] = "open" /\ Parent[i] = None

Editable(i) == rowStatus[i] = "pending" /\ status[rowOrder[i]] = "open" /\ Parent[i] = None

\* PATCH /api/order-items/:id.  A combo's components follow its quantity (SQL: qty / old * new, in integers).
UpdateItem(i, n, h) ==
    /\ Editable(i)
    /\ qty'  = [j \in Rows |-> IF j = i THEN n
                               ELSE IF Parent[j] = i /\ rowStatus[j] # "cancelled"
                                    THEN (qty[j] \div qty[i]) * n ELSE qty[j]]
    /\ held' = [held EXCEPT ![i] = h]
    /\ UNCHANGED <<orderVars, rowOrder, rowStatus, ticket, cut, station, punchedOn, stockVars, kitchenVars>>

\* POST /api/order-items/:id/cancel: the line and its components; what was sent gives back its remaining stock.
CancelItem(i) ==
    LET gone == {i} \cup {j \in Children(i) : rowStatus[j] # "cancelled"} IN
    /\ rowStatus[i] \in {"pending", "sent"}
    /\ status[rowOrder[i]] = "open"
    /\ Parent[i] = None
    /\ rowStatus' = [j \in Rows |-> IF j \in gone THEN "cancelled" ELSE rowStatus[j]]
    /\ reversed'  = [j \in Rows |-> IF j \in gone /\ rowStatus[j] = "sent"
                                    THEN sold[j] - returned[j] ELSE reversed[j]]
    /\ UNCHANGED <<orderVars, rowOrder, qty, held, ticket, cut, station, punchedOn,
                   unit, sold, returned, kitchenVars>>

Cancellable(o) == status[o] = "open" /\ Sent(o) = {}

\* POST /api/orders/:id/cancel
CancelOrder(o) ==
    /\ Cancellable(o)
    /\ status'    = [status EXCEPT ![o] = "cancelled"]
    /\ rowStatus' = [i \in Rows |-> IF i \in Pending(o) THEN "cancelled" ELSE rowStatus[i]]
    /\ UNCHANGED <<mergedInto, zomato, rowOrder, qty, held, ticket, cut, station, punchedOn,
                   stockVars, kitchenVars>>

-----------------------------------------------------------------------------
(* The kitchen.                                                            *)

\* The named lines and the components of named combos.
Selected(o, named) == {i \in Pending(o) : i \in named \/ Parent[i] \in named}

\* The lines a KOT request puts on tickets: those with a station, and only Fire sends held ones.
Cooked(o, named, fire) ==
    {i \in Selected(o, named) : station[i] # None /\ (fire \/ ~EffectivelyHeld(i))}

\* Bug: only the components are marked sent.
CombosForgotten(C) == {}

\* A combo is sent once any of its components is.
CombosOf(C) == {c \in Rows : rowStatus[c] = "pending" /\ \E i \in C : Parent[i] = c}

\* Bug: everything named is marked sent, also what has no station to go to.
LeavingAll(o, named, fire) == Selected(o, named) \cup CombosOf(Selected(o, named))

\* The lines a KOT request marks sent.
Leaving(o, named, fire) == LET C == Cooked(o, named, fire) IN C \cup CombosOf(C)

\* consumeStock for the pending lines in C, at the recipe r each dish has now.
ConsumeStock(C, r) ==
    LET due == {i \in C : sold[i] = 0} IN
    /\ unit' = [i \in Rows |-> IF i \in due THEN r[i] ELSE unit[i]]
    /\ sold' = [i \in Rows |-> IF i \in due THEN r[i] * qty[i] ELSE sold[i]]
    /\ UNCHANGED <<returned, reversed>>

\* A new Zomato order enters the kitchen with its first ticket, a Ready one goes back.
ZomatoAfterSend(o) ==
    IF OrderType[o] = "zomato" /\ zomato[o] \in {"new", "ready"} THEN "preparing" ELSE zomato[o]

\* POST /api/orders/:id/send.  A request that names no lines names every pending one.
Send(o, named, fire, r) ==
    LET cooked == Cooked(o, named, fire)
        leaving == Leaving(o, named, fire)
        new == {<<sends + 1, station[i]>> : i \in cooked}
    IN
    /\ sends < MaxSends
    /\ status[o] = "open"
    /\ named \subseteq Pending(o)
    /\ fire => \A i \in named : EffectivelyHeld(i)
    /\ cooked # {}
    /\ ConsumeStock(leaving, r)
    /\ rowStatus' = [i \in Rows |-> IF i \in leaving THEN "sent" ELSE rowStatus[i]]
    /\ ticket'    = [i \in Rows |-> IF i \in cooked THEN <<sends + 1, station[i]>> ELSE ticket[i]]
    /\ held'      = [i \in Rows |-> held[i] /\ ~(fire /\ i \in named)]
    /\ kotOrder'  = [t \in Tickets |-> IF t \in new THEN o ELSE kotOrder[t]]
    /\ sends'     = sends + 1
    /\ zomato'    = [zomato EXCEPT ![o] = ZomatoAfterSend(o)]
    /\ UNCHANGED <<status, mergedInto, rowOrder, qty, cut, station, punchedOn, kotDone>>

\* Bug: a dish the desk has added meanwhile is not looked for.
KitchenDoneTickets(o, done) == \A u \in Tickets : kotOrder[u] = o => done[u]

\* The kitchen has nothing more to cook for order o, when the tickets in done are.
KitchenDone(o, done) ==
    /\ \A u \in Tickets : kotOrder[u] = o => done[u]
    /\ AwaitingKitchen(o) = {}

\* POST /api/kots/:id/done: the last ticket of a Zomato order in preparation makes it Ready.
KotDone(t) ==
    LET o == kotOrder[t] IN
    /\ o # None
    /\ ~kotDone[t]
    /\ kotDone' = [kotDone EXCEPT ![t] = TRUE]
    /\ LET ready == /\ OrderType[o] = "zomato"
                    /\ status[o] = "open"
                    /\ zomato[o] = "preparing"
                    /\ KitchenDone(o, kotDone')
       IN zomato' = [zomato EXCEPT ![o] = IF ready THEN "ready" ELSE @]
    /\ UNCHANGED <<status, mergedInto, rowVars, stockVars, kotOrder, sends>>

\* Bug: the share is taken of the whole sale, not of what is still out.
PartialReturnOfSale(i, k, n) ==
    LET milli == sold[i] * k IN
    IF milli % n = 0 THEN milli \div n ELSE 0

\* What returnPartialStock gives back for k of n portions: its exact share, or nothing when it is no whole number.
PartialReturn(i, k, n) ==
    LET milli == (sold[i] - returned[i]) * k IN
    IF milli % n = 0 THEN milli \div n ELSE 0

\* Bug: the order's status is not looked at.
CuttableClosed(i, n) == rowStatus[i] = "sent" /\ Parent[i] = None /\ Children(i) = {} /\ n < qty[i]

\* A sent line that is no combo, nor in one, may be cut to n portions.
Cuttable(i, n) ==
    /\ rowStatus[i] = "sent"
    /\ status[rowOrder[i]] = "open"
    /\ Parent[i] = None /\ Children(i) = {}
    /\ n < qty[i]

\* POST /api/order-items/:id/edit-sent, a cut to n portions (a changed note alone changes nothing here).
EditSent(i, n) ==
    /\ Cuttable(i, n)
    /\ qty' = [qty EXCEPT ![i] = n]
    /\ cut' = [cut EXCEPT ![i] = @ + (qty[i] - n)]
    /\ returned' = [returned EXCEPT ![i] = @ + PartialReturn(i, qty[i] - n, qty[i])]
    /\ UNCHANGED <<orderVars, rowOrder, rowStatus, held, ticket, station, punchedOn,
                   unit, sold, reversed, kitchenVars>>

-----------------------------------------------------------------------------
\* Bug: an order is merged whatever became of it.
MergeableAlways(o) == status[o] # "none" /\ OrderType[o] = "dine_in" /\ mergedInto[o] = None

Mergeable(o) == status[o] = "open" /\ OrderType[o] = "dine_in" /\ mergedInto[o] = None

\* POST /api/orders/:id/merge: order s is folded into order r with its lines and its tickets.
Merge(s, r) ==
    /\ s # r
    /\ Mergeable(s) /\ Mergeable(r)
    /\ rowOrder'   = [i \in Rows |-> IF rowOrder[i] = s THEN r ELSE rowOrder[i]]
    /\ kotOrder'   = [t \in Tickets |-> IF kotOrder[t] = s THEN r ELSE kotOrder[t]]
    /\ status'     = [status EXCEPT ![s] = "cancelled"]
    /\ mergedInto' = [mergedInto EXCEPT ![s] = r]
    /\ UNCHANGED <<zomato, rowStatus, qty, held, ticket, cut, station, punchedOn,
                   stockVars, kotDone, sends>>

\* PATCH /api/products/:id may move the dish to another kitchen station while it is on an order.
ChangeStation(i, s) ==
    /\ s \in StationChoices[i]
    /\ s # station[i]
    /\ station' = [station EXCEPT ![i] = s]
    /\ UNCHANGED <<orderVars, rowOrder, rowStatus, qty, held, ticket, cut, punchedOn,
                   stockVars, kitchenVars>>

-----------------------------------------------------------------------------
AddSome == \E o \in OrderIds, S \in (SUBSET Tops) \ {{}} :
              \E q \in [S -> 1..MaxQty], H \in SUBSET S : AddItems(o, S, q, H)
UpdateSome == \E i \in Rows, n \in 1..MaxQty, h \in BOOLEAN : UpdateItem(i, n, h)
SendSome == \E o \in OrderIds, named \in SUBSET Rows, fire \in BOOLEAN :
              \E r \in [Leaving(o, named, fire) -> Recipes] : Send(o, named, fire, r)
EditSome == \E i \in Rows, n \in 1..MaxQty : EditSent(i, n)

OrderStep ==
    \/ \E o \in OrderIds : CreateOrder(o)
    \/ AddSome
    \/ UpdateSome
    \/ \E i \in Rows : CancelItem(i)
    \/ \E o \in OrderIds : CancelOrder(o)
    \/ SendSome
    \/ \E t \in Tickets : KotDone(t)
    \/ EditSome
    \/ \E s, r \in OrderIds : Merge(s, r)
    \/ \E i \in Rows, s \in Stations \cup {None} : ChangeStation(i, s)

Spec == Init /\ [][OrderStep]_vars

-----------------------------------------------------------------------------
(* Properties.                                                             *)

TypeOK ==
    /\ status \in [OrderIds -> {"none", "open", "billed", "settled", "cancelled"}]
    /\ mergedInto \in [OrderIds -> OrderIds \cup {None}]
    /\ zomato \in [OrderIds -> {"new", "preparing", "ready", "picked_up"}]
    /\ rowOrder \in [Rows -> OrderIds \cup {None}]
    /\ rowStatus \in [Rows -> {"none", "pending", "sent", "cancelled"}]
    /\ qty \in [Rows -> Nat]
    /\ held \in [Rows -> BOOLEAN]
    /\ ticket \in [Rows -> Tickets \cup {None}]
    /\ cut \in [Rows -> Nat]
    /\ station \in [Rows -> Stations \cup {None}]
    /\ unit \in [Rows -> Nat]
    /\ sold \in [Rows -> Nat]
    /\ returned \in [Rows -> Nat]
    /\ reversed \in [Rows -> Nat]
    /\ kotOrder \in [Tickets -> OrderIds \cup {None}]
    /\ kotDone \in [Tickets -> BOOLEAN]
    /\ sends \in 0..MaxSends
    /\ punchedOn \in [Rows -> OrderIds \cup {None}]

\* A combo and its components stay one dish whatever is sent, fired, held, cancelled or merged around
\* them: on one order, cancelled only together, no component in the kitchen under an unsent combo
\* (which could still be edited), and always a whole number of each component per combo.
ComboTogether ==
    \A i \in Rows : Parent[i] # None =>
        LET c == Parent[i] IN
        /\ rowOrder[i] = rowOrder[c]
        /\ rowStatus[i] = "none" <=> rowStatus[c] = "none"
        /\ rowStatus[i] = "cancelled" <=> rowStatus[c] = "cancelled"
        /\ rowStatus[i] = "sent" => rowStatus[c] = "sent"
        /\ qty[i] = PerCombo[i] * qty[c]

\* While an order runs, what is marked sent really is in a kitchen: it is on a ticket, or it is a combo
\* with a component on one.  A ticket is at a station the catalog may give its dish, and belongs to the
\* order its lines are on, so a merge never leaves the kitchen cooking for another table than the one
\* that pays.
SentIsOnTicket ==
    /\ \A i \in Rows : rowStatus[i] = "sent" /\ status[rowOrder[i]] = "open" =>
           \/ ticket[i] # None
           \/ \E j \in Children(i) : ticket[j] # None
    /\ \A i \in Rows : ticket[i] # None =>
           /\ kotOrder[ticket[i]] = rowOrder[i]
           /\ ticket[i][2] \in StationChoices[i] \ {None}

\* The stock ledger follows the dishes: a line in the kitchen holds exactly its recipe times the
\* portions still on it, however often it was cut and whatever the recipe became since; an unsent or a
\* cancelled line holds nothing; every portion cut has come back.
StockFollowsItems ==
    \A i \in Rows :
        /\ rowStatus[i] \in {"none", "pending"} => sold[i] = 0
        /\ rowStatus[i] = "sent" => sold[i] - returned[i] = unit[i] * qty[i] /\ reversed[i] = 0
        /\ rowStatus[i] = "cancelled" => sold[i] = returned[i] + reversed[i]
        /\ returned[i] = unit[i] * cut[i]

\* Merges chain (a into b, b into c) but never form a ring, the folded orders keep nothing, and every line
\* ends on the order that stands for the one it was punched on, at the end of its chain of merges.
RowsFollowMerges ==
    /\ \A o \in OrderIds : mergedInto[o] # None => status[o] = "cancelled" /\ RowsOf(o) = {}
    /\ \E standing \in [OrderIds -> OrderIds] :
          /\ \A o \in OrderIds : mergedInto[standing[o]] = None
          /\ \A o \in OrderIds : standing[o] = IF mergedInto[o] = None THEN o ELSE standing[mergedInto[o]]
          /\ \A i \in Rows : rowStatus[i] # "none" => rowOrder[i] = standing[punchedOn[i]]

\* What reached the kitchen is settled there: a sent line is never unsent, re-ticketed or enlarged, its
\* portions only move from the line to its cancelled copies, and a cancelled line never comes back.
KitchenKeeps ==
    \A i \in Rows :
        /\ rowStatus[i] = "sent" => /\ rowStatus'[i] \in {"sent", "cancelled"}
                                   /\ ticket'[i] = ticket[i]
                                   /\ qty'[i] <= qty[i]
                                   /\ qty'[i] + cut'[i] = qty[i] + cut[i]
                                   /\ sold'[i] = sold[i]
        /\ rowStatus[i] = "cancelled" => UNCHANGED <<rowStatus[i], qty[i], cut[i], reversed[i]>>

SentIsFinal == [][KitchenKeeps]_vars
=============================================================================
