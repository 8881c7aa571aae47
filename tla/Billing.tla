------------------------------ MODULE Billing ------------------------------
(***************************************************************************)
(* Bills of the running orders: apps/server/src/billing.ts, the Zomato     *)
(* desk (zomato-desk.ts) and the voids and refunds of credit-notes.ts, on  *)
(* top of Orders, whose steps go on between any two of these.              *)
(*                                                                         *)
(* Issuing a bill, a void and a refund wait for an admin PIN to be checked *)
(* between reading the database and writing it.  Such a handler is two     *)
(* actions, and `call` holds what a waiting HTTP call remembers.  Several  *)
(* calls may wait at once, two of them with the same client reference (a   *)
(* retry after a lost reply).  A hub restart forgets the calls, not the    *)
(* database.                                                               *)
(*                                                                         *)
(* Amounts are whole paise and GST-inclusive, as on the menu.              *)
(***************************************************************************)
EXTENDS Orders, Functions

CONSTANTS
    Price,       \* [Rows -> Nat]: price_paise_snapshot; a component costs nothing
    Discounts,   \* discounts a counter may enter
    Limit,       \* largest discount in percent without an admin PIN
    MaxAmount,   \* the bill amount calculateBill supports
    Refs,        \* client references of bill requests and of Picked up
    Calls        \* HTTP calls that may wait at the same time

ASSUME BillingAssumption ==
    /\ Price \in [Rows -> Nat]
    /\ Discounts \subseteq Nat
    /\ Limit \in 0..100
    /\ MaxAmount \in Nat
    /\ None \notin Refs

VARIABLES
    billStatus,    \* bills.status, "none" while the order has no bill
    billLines,     \* portions charged per line (report lines of the bill)
    billDiscount,  \* bills.discount_paise
    billTotal,     \* bills.total_paise
    billApproved,  \* bills.discount_approved_by is set
    billRef,       \* bills.client_ref
    collected,     \* sum of the bill's payments
    refunded,      \* sum of its refund_payments
    attempt,       \* per reference, the bill request a counter keeps retrying
    call           \* what each waiting call remembers

moneyVars == <<collected, refunded>>
billVars  == <<billStatus, billLines, billDiscount, billTotal, billApproved, billRef>>
allVars   == <<vars, billVars, moneyVars, attempt, call>>

-----------------------------------------------------------------------------
\* The lines a bill charges: a combo, not the components in it.
Charged(o) == {i \in Live(o) : Parent[i] = None}

Amount(lines)  == SumFunctionOnSet([i \in Rows |-> Price[i] * lines[i]], Rows)
LinesOf(o)     == [i \in Rows |-> IF i \in Charged(o) THEN qty[i] ELSE 0]
ToRupee(paise) == ((paise + 50) \div 100) * 100

\* priceOrder: the order can be billed with discount d, the staff's limit aside.
CanPrice(o, d) ==
    /\ status[o] = "open"
    /\ Charged(o) # {}
    /\ AwaitingKitchen(o) = {}
    /\ Amount(LinesOf(o)) \in 0..MaxAmount
    /\ d <= Amount(LinesOf(o))

OverLimit(o, d) == d * 100 > Amount(LinesOf(o)) * Limit

\* What the preview key is a digest of: every charged line as stored, and the contents of combos.
PreviewKey(o) ==
    [i \in Live(o) |-> IF Parent[i] = None THEN <<qty[i], rowStatus[i], ticket[i], held[i]>> ELSE <<qty[i]>>]

Money(o)   == collected[o] - refunded[o]
RefUsed(r) == \E o \in OrderIds : billRef[o] = r

WaitingCalls ==
    [kind : {"bill", "void", "refund"}, order : OrderIds, ref : Refs \cup {None},
     amount : Nat, approved : BOOLEAN]

-----------------------------------------------------------------------------
BillingInit ==
    /\ Init
    /\ billStatus   = [o \in OrderIds |-> "none"]
    /\ billLines    = [o \in OrderIds |-> [i \in Rows |-> 0]]
    /\ billDiscount = [o \in OrderIds |-> 0]
    /\ billTotal    = [o \in OrderIds |-> 0]
    /\ billApproved = [o \in OrderIds |-> FALSE]
    /\ billRef      = [o \in OrderIds |-> None]
    /\ collected    = [o \in OrderIds |-> 0]
    /\ refunded     = [o \in OrderIds |-> 0]
    /\ attempt      = [r \in Refs |-> None]
    /\ call         = [c \in Calls |-> None]

\* The steps of Orders leave bills, money and waiting calls alone.
OrdersGoOn == OrderStep /\ UNCHANGED <<billVars, moneyVars, attempt, call>>

\* POST /api/orders/:id/bill-preview.  From here the counter holds a request it may send any number of times.
Preview(r, o, d) ==
    /\ attempt[r] = None
    /\ OrderType[o] # "zomato"
    /\ CanPrice(o, d)
    /\ attempt' = [attempt EXCEPT ![r] = [order |-> o, discount |-> d, key |-> PreviewKey(o)]]
    /\ UNCHANGED <<vars, billVars, moneyVars, call>>

\* POST /api/orders/:id/bill up to the wait for the approver's PIN, asked only above the limit.
BillArrives(c, r) ==
    LET o == attempt[r].order  d == attempt[r].discount IN
    /\ call[c] = None
    /\ attempt[r] # None
    /\ ~RefUsed(r)
    /\ CanPrice(o, d)
    /\ call' = [call EXCEPT ![c] = [kind |-> "bill", order |-> o, ref |-> r, amount |-> d,
                                    approved |-> OverLimit(o, d)]]
    /\ UNCHANGED <<vars, billVars, moneyVars, attempt>>

\* issueBill for order o: bill row, stock of the lines that never passed the kitchen, lines sent.
IssueBill(o, r, d, approved, recipe) ==
    /\ billStatus[o] = "none"
    /\ CanPrice(o, d)
    /\ OverLimit(o, d) => approved
    /\ billLines'    = [billLines EXCEPT ![o] = LinesOf(o)]
    /\ billDiscount' = [billDiscount EXCEPT ![o] = d]
    /\ billTotal'    = [billTotal EXCEPT ![o] = ToRupee(Amount(LinesOf(o)) - d)]
    /\ billApproved' = [billApproved EXCEPT ![o] = approved /\ d > 0]
    /\ billRef'      = [billRef EXCEPT ![o] = r]
    /\ ConsumeStock(Pending(o), recipe)
    /\ rowStatus'    = [i \in Rows |-> IF i \in Pending(o) THEN "sent" ELSE rowStatus[i]]
    /\ UNCHANGED <<mergedInto, rowOrder, qty, held, ticket, cut, station, punchedOn, kitchenVars>>

\* Bug: the preview key is not compared again after the wait.
MayIssueUnreviewed(c) ==
    LET o == call[c].order  d == call[c].amount IN
    /\ ~RefUsed(call[c].ref)
    /\ billStatus[o] = "none"
    /\ CanPrice(o, d)
    /\ OverLimit(o, d) => call[c].approved

\* The transaction of POST /api/orders/:id/bill would issue the bill this call asks for.
MayIssue(c) ==
    LET o == call[c].order  d == call[c].amount IN
    /\ ~RefUsed(call[c].ref)
    /\ billStatus[o] = "none"
    /\ CanPrice(o, d)
    /\ OverLimit(o, d) => call[c].approved
    /\ attempt[call[c].ref].key = PreviewKey(o)

BillCommits(c, recipe) ==
    LET o == call[c].order IN
    /\ call[c] # None /\ call[c].kind = "bill"
    /\ MayIssue(c)
    /\ IssueBill(o, call[c].ref, call[c].amount, call[c].approved, recipe)
    /\ billStatus' = [billStatus EXCEPT ![o] = "unpaid"]
    /\ status'     = [status EXCEPT ![o] = "billed"]
    /\ call'       = [call EXCEPT ![c] = None]
    /\ UNCHANGED <<zomato, moneyVars, attempt>>

\* Answered from the bill of the same reference, or refused because the order changed meanwhile.
BillNotIssued(c) ==
    /\ call[c] # None /\ call[c].kind = "bill"
    /\ ~MayIssue(c)
    /\ call' = [call EXCEPT ![c] = None]
    /\ UNCHANGED <<vars, billVars, moneyVars, attempt>>

\* settleBill: payments of exactly the total close the bill and its order.
Collect(o, paid) ==
    /\ billStatus' = [billStatus EXCEPT ![o] = "paid"]
    /\ collected'  = [collected EXCEPT ![o] = @ + paid]
    /\ status'     = [status EXCEPT ![o] = "settled"]

\* POST /api/bills/:id/settle; `paid` is the sum of the payments keyed in.
Settle(o, paid) ==
    /\ billStatus[o] = "unpaid"
    /\ OrderType[o] # "zomato"
    /\ status[o] = "billed"
    /\ paid = billTotal[o]
    /\ Collect(o, paid)
    /\ UNCHANGED <<mergedInto, zomato, rowVars, stockVars, kitchenVars, refunded, attempt, call,
                   billLines, billDiscount, billTotal, billApproved, billRef>>

-----------------------------------------------------------------------------
(* The Zomato desk: POST /api/orders/:id/zomato-status.                    *)

MayAdvance(o) ==
    /\ OrderType[o] = "zomato"
    /\ status[o] = "open"
    /\ billStatus[o] = "none"
    /\ Live(o) # {}
    /\ AwaitingKitchen(o) = {}

ZomatoReady(o) ==
    /\ MayAdvance(o)
    /\ zomato[o] \in {"new", "preparing"}
    /\ zomato' = [zomato EXCEPT ![o] = "ready"]
    /\ UNCHANGED <<status, mergedInto, rowVars, stockVars, kitchenVars, billVars, moneyVars, attempt, call>>

\* Picked up bills, settles as a Zomato receivable and closes in one transaction.
PickedUp(o, r, recipe) ==
    /\ MayAdvance(o)
    /\ zomato[o] = "ready"
    /\ ~RefUsed(r)
    /\ IssueBill(o, r, 0, FALSE, recipe)
    /\ Collect(o, billTotal'[o])
    /\ zomato' = [zomato EXCEPT ![o] = "picked_up"]
    /\ UNCHANGED <<refunded, attempt, call>>

-----------------------------------------------------------------------------
(* Voids and refunds (issueCredit).  Which lines a refund credits, and by  *)
(* which method, is in CreditNotes; here a refund is its amount.           *)

\* The request reaches the hub with the money the counter reviewed, and waits for the PIN.
CreditArrives(c, kind, o, asked) ==
    /\ call[c] = None
    /\ billStatus[o] # "none"
    /\ OrderType[o] # "zomato"
    /\ call' = [call EXCEPT ![c] = [kind |-> kind, order |-> o, ref |-> None, amount |-> asked, approved |-> TRUE]]
    /\ UNCHANGED <<vars, billVars, moneyVars, attempt>>

\* Bug: a bill paid while the PIN was checked is voided with the refunds reviewed before.
MayVoidStale(c) == billStatus[call[c].order] \in {"unpaid", "paid"} /\ call[c].amount <= Money(call[c].order)

\* draftCredit and checkVoidRefunds inside the write transaction.
MayVoid(c) ==
    LET o == call[c].order IN
    \/ billStatus[o] = "unpaid" /\ call[c].amount = 0
    \/ billStatus[o] = "paid" /\ call[c].amount = Money(o)

\* Bug: the order of a voided unpaid bill keeps waiting for payment.
VoidedOrderKept(o) == status[o]

\* Only an unpaid bill's order is cancelled by the void.
VoidedOrder(o) == IF billStatus[o] = "unpaid" THEN "cancelled" ELSE status[o]

\* A void gives back what is still held.  Stock stays consumed.
VoidCommits(c) ==
    LET o == call[c].order IN
    /\ call[c] # None /\ call[c].kind = "void"
    /\ MayVoid(c)
    /\ billStatus' = [billStatus EXCEPT ![o] = "void"]
    /\ status'     = [status EXCEPT ![o] = VoidedOrder(o)]
    /\ refunded'   = [refunded EXCEPT ![o] = @ + call[c].amount]
    /\ call'       = [call EXCEPT ![c] = None]
    /\ UNCHANGED <<mergedInto, zomato, rowVars, stockVars, kitchenVars, collected, attempt,
                   billLines, billDiscount, billTotal, billApproved, billRef>>

\* Lines not yet credited are worth exactly the money still held.
MayRefund(c) == billStatus[call[c].order] = "paid" /\ call[c].amount \in 1..Money(call[c].order)

RefundCommits(c) ==
    /\ call[c] # None /\ call[c].kind = "refund"
    /\ MayRefund(c)
    /\ refunded' = [refunded EXCEPT ![call[c].order] = @ + call[c].amount]
    /\ call'     = [call EXCEPT ![c] = None]
    /\ UNCHANGED <<vars, billVars, collected, attempt>>

CreditRefused(c) ==
    /\ call[c] # None
    /\ \/ call[c].kind = "void" /\ ~MayVoid(c)
       \/ call[c].kind = "refund" /\ ~MayRefund(c)
    /\ call' = [call EXCEPT ![c] = None]
    /\ UNCHANGED <<vars, billVars, moneyVars, attempt>>

\* The hub process ends: waiting calls are gone, the database stays.
Restart ==
    /\ \E c \in Calls : call[c] # None
    /\ call' = [c \in Calls |-> None]
    /\ UNCHANGED <<vars, billVars, moneyVars, attempt>>

-----------------------------------------------------------------------------
BillSome == \E c \in Calls : call[c] # None /\ \E recipe \in [Pending(call[c].order) -> Recipes] : BillCommits(c, recipe)
PickUpSome == \E o \in OrderIds, r \in Refs : \E recipe \in [Pending(o) -> Recipes] : PickedUp(o, r, recipe)
CreditSome == \E c \in Calls, kind \in {"void", "refund"}, o \in OrderIds :
                \E asked \in {0, Money(o) \div 2, Money(o)} : CreditArrives(c, kind, o, asked)
SettleSome == \E o \in OrderIds : \E paid \in {0, billTotal[o], billTotal[o] + 1} : Settle(o, paid)

BillingStep ==
    \/ OrdersGoOn
    \/ \E r \in Refs, o \in OrderIds, d \in Discounts : Preview(r, o, d)
    \/ \E c \in Calls, r \in Refs : BillArrives(c, r)
    \/ BillSome
    \/ \E c \in Calls : BillNotIssued(c)
    \/ SettleSome
    \/ \E o \in OrderIds : ZomatoReady(o)
    \/ PickUpSome
    \/ CreditSome
    \/ \E c \in Calls : VoidCommits(c)
    \/ \E c \in Calls : RefundCommits(c)
    \/ \E c \in Calls : CreditRefused(c)
    \/ Restart

BillingSpec == BillingInit /\ [][BillingStep]_allVars

-----------------------------------------------------------------------------
(* Properties.                                                             *)

BillingTypeOK ==
    /\ TypeOK
    /\ billStatus \in [OrderIds -> {"none", "unpaid", "paid", "void"}]
    /\ billLines \in [OrderIds -> [Rows -> Nat]]
    /\ billDiscount \in [OrderIds -> Nat]
    /\ billTotal \in [OrderIds -> Nat]
    /\ billApproved \in [OrderIds -> BOOLEAN]
    /\ billRef \in [OrderIds -> Refs \cup {None}]
    /\ collected \in [OrderIds -> Nat]
    /\ refunded \in [OrderIds -> Nat]
    /\ DOMAIN attempt = Refs
    /\ \A r \in Refs : attempt[r] = None \/
           /\ DOMAIN attempt[r] = {"order", "discount", "key"}
           /\ attempt[r].order \in OrderIds /\ attempt[r].discount \in Nat
    /\ call \in [Calls -> WaitingCalls \cup {None}]

\* From the moment a bill is issued the order is frozen: nothing is pending on it, and the lines the
\* bill charges are exactly the lines the kitchen was given, portion by portion, whatever counters,
\* merges, KOT edits and late calls do afterwards.
BillFreezesOrder ==
    \A o \in OrderIds : billStatus[o] # "none" =>
        /\ status[o] \in {"billed", "settled", "cancelled"}
        /\ Pending(o) = {}
        /\ billLines[o] = LinesOf(o)

\* Order and bill always tell the same story: an order waits for payment exactly while its bill is
\* unpaid, is settled exactly when the bill has been paid, and a voided unpaid bill cancels it.
OrderFollowsBill ==
    \A o \in OrderIds :
        /\ status[o] = "billed" <=> billStatus[o] = "unpaid"
        /\ status[o] = "settled" => billStatus[o] \in {"paid", "void"}
        /\ billStatus[o] = "paid" => status[o] = "settled"
        /\ billStatus[o] = "void" => status[o] \in {"settled", "cancelled"}

\* Money follows the bill through every race of settle, void and refund: an order is paid once and in
\* full or not at all, never refunded beyond what was paid, and a void bill keeps nothing.
MoneyFollowsBill ==
    \A o \in OrderIds :
        /\ collected[o] = IF status[o] = "settled" THEN billTotal[o] ELSE 0
        /\ refunded[o] <= collected[o]
        /\ billStatus[o] = "void" => Money(o) = 0

\* A lost reply and its retries never make two bills of one request, and a counter's bill is the one it
\* reviewed: the same portions of the same lines and the same discount, approved if it is above the staff's
\* limit, although the approval was given before the order was read again.
BilledAsReviewed ==
    \A o \in OrderIds : billStatus[o] # "none" =>
        /\ \A p \in OrderIds : billRef[p] = billRef[o] => p = o
        /\ OrderType[o] # "zomato" =>
              LET a == attempt[billRef[o]] IN
              /\ a.order = o /\ a.discount = billDiscount[o]
              /\ billLines[o] = [i \in Rows |-> IF i \in DOMAIN a.key /\ Parent[i] = None
                                                THEN a.key[i][1] ELSE 0]
        /\ billDiscount[o] * 100 > Amount(billLines[o]) * Limit => billApproved[o]

\* No Zomato order is called or handed to its rider while a dish of it has still to go to the kitchen,
\* however the desk and the kitchen interleave: it becomes Ready with nothing waiting for a ticket (and,
\* when it is the kitchen that says so, with every ticket done), a new ticket takes it back to the
\* kitchen, and it is picked up only from Ready, which is when it is billed and the only way to bill it
\* (kots.ts, zomato-desk.ts, and issueBill's callers).
ZomatoAdvance(o) ==
    /\ zomato[o] # "ready" /\ zomato'[o] = "ready" =>
          /\ AwaitingKitchen(o) = {}
          /\ kotDone' # kotDone => \A t \in Tickets : kotOrder[t] = o => kotDone'[t]
    /\ (\E t \in Tickets : kotOrder[t] # o /\ kotOrder'[t] = o) => zomato'[o] = "preparing"
    /\ zomato[o] # "picked_up" /\ zomato'[o] = "picked_up" => zomato[o] = "ready" /\ AwaitingKitchen(o) = {}

ZomatoBilled(o) == zomato[o] = "picked_up" <=> billStatus[o] # "none"

ZomatoAdvances == [][\A o \in OrderIds : OrderType[o] = "zomato" => ZomatoAdvance(o) /\ ZomatoBilled(o)']_allVars

-----------------------------------------------------------------------------
(* What a guest may rely on (Tabs), and how the hub implements it.         *)

LineFate(i) ==
    CASE rowStatus[i] = "none"      -> "unpunched"
      [] rowStatus[i] = "cancelled" -> "cancelled"
      [] OTHER -> IF billStatus[rowOrder[i]] = "none" THEN "running" ELSE "charged"

Tab == INSTANCE Tabs WITH
    Lines <- Rows,
    Bills <- OrderIds,
    fate  <- [i \in Rows |-> LineFate(i)],
    on    <- [i \in Rows |-> IF LineFate(i) = "charged" THEN rowOrder[i] ELSE None],
    bill  <- billStatus

\* Every step of the hub is a step of the guest's tab or leaves it alone.
ImplementsTabs == Tab!Spec
=============================================================================
