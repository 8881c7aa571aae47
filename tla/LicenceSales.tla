---------------------------- MODULE LicenceSales ----------------------------
(***************************************************************************)
(* The orders of the owner portal: drafted, confirmed, paid for by staff's *)
(* record or through a Razorpay link, fulfilled with licences once they    *)
(* are covered (apps/licensing-worker/src/portal, webhook.ts).  An order   *)
(* gets at most one link; changes of a draft, cheques, invoices and free   *)
(* orders are left out.                                                    *)
(***************************************************************************)
EXTENDS Licences

CONSTANTS
    Price,    \* what the order costs; a trial nothing
    Amounts,  \* amounts staff record
    Days,     \* credit dates an admin may choose
    MaxMoney  \* bound: staff record nothing more once an order has this much

ASSUME SalesAssumption ==
    /\ Price \in [Sales -> Nat]
    /\ \A s \in Sales : Kind[s] = "trial" <=> Price[s] = 0
    /\ Amounts \subseteq Nat \ {0}  /\ Days \subseteq Nat  /\ MaxMoney \in Nat

VARIABLES
    cleared,  \* payments of the order with status 'cleared'
    recorded, \* orders whose link payment is on file (payments.razorpay_payment_id)
    link,     \* payment_links.status of the order's link; "none" while it has no row
    razorpay, \* the link at Razorpay
    owing,    \* its amount
    event     \* Razorpay's payment_link.paid: "none", "due" until answered, "seen" (webhook_events)

money == <<cleared, recorded, link, razorpay, owing, event>>
vars  == <<licenceVars, money>>

Init ==
    /\ LicencesInit
    /\ cleared  = [s \in Sales |-> 0]
    /\ recorded = {}
    /\ link     = [s \in Sales |-> "none"]
    /\ razorpay = [s \in Sales |-> "none"]
    /\ owing    = [s \in Sales |-> 0]
    /\ event    = [s \in Sales |-> "none"]

-----------------------------------------------------------------------------
(* Orders (order-routes.ts).                                               *)

\* POST /orders.  A renewal names counters of the customer that hold a seat; a trial is confirmed at once.
CreateOrder(s, extends) ==
    /\ status[s] = "none"
    /\ Kind[s] = "renewal" <=> extends # {}
    /\ \A c \in extends : seat[c] # None
    /\ status'  = [status EXCEPT ![s] = IF Kind[s] = "trial" THEN "confirmed" ELSE "draft"]
    /\ targets' = [targets EXCEPT ![s] = extends]
    /\ UNCHANGED <<now, known, seat, floor, issued, credit, used, held, post, calls, troubles, money>>

\* POST /orders/:id/confirm of an order with a price.
Confirm(s) ==
    /\ status[s] = "draft"
    /\ status' = [status EXCEPT ![s] = "confirmed"]
    /\ UNCHANGED <<now, known, seat, floor, issued, credit, used, targets, held, post, calls, troubles, money>>

\* POST /orders/:id/credit up to the reading of the licences.
Credit(s, day) ==
    /\ status[s] = "confirmed"  /\ Kind[s] # "trial"
    /\ day > now
    /\ day > credit[s]  \* bound: a later date than before
    /\ Begin([op |-> "credit", phase |-> "looking", order |-> s, day |-> day, seats |-> {c \in Counters : seat[c] = s}, drafts |-> {}])
    /\ UNCHANGED <<now, database, held, post, troubles, money>>

\* Counters that run on credit get the new date.
LookCredit(k) ==
    LET s == calls[k].order  until == Smaller(OrderEnd(s), calls[k].day) IN
    /\ calls[k].op = "credit"  /\ calls[k].phase = "looking"
    /\ calls' = [calls EXCEPT ![k].phase  = "signing",
                              ![k].drafts = {Again(c, until) : c \in {d \in calls[k].seats : until > now /\ Latest(d).until # until}}]
    /\ UNCHANGED <<now, database, held, post, troubles, money>>

WriteCredit(k) ==
    /\ calls[k].op = "credit"  /\ calls[k].phase = "writing"
    /\ IF Unused(calls[k].drafts)
         THEN credit' = [credit EXCEPT ![calls[k].order] = calls[k].day] /\ Insert(calls[k].drafts)
         ELSE UNCHANGED <<credit, issued>>
    /\ Ends(k)
    /\ UNCHANGED <<now, known, seat, floor, status, used, targets, held, post, troubles, money>>

\* cancelOpenLinks: Razorpay cancels the link, unless it was paid or cannot be reached.
LinkCancelled(s) ==
    \/ /\ link[s] = "created"  /\ razorpay[s] = "open"
       /\ link'     = [link EXCEPT ![s] = "cancelled"]
       /\ razorpay' = [razorpay EXCEPT ![s] = "cancelled"]
    \/ UNCHANGED <<link, razorpay>>

\* POST /orders/:id/cancel; its batch checks again what the call read.
Cancel(s) ==
    /\ status[s] \in {"draft", "confirmed"}
    /\ cleared[s] = 0
    /\ status' = [status EXCEPT ![s] = "cancelled"]
    /\ LinkCancelled(s)
    /\ UNCHANGED <<now, known, seat, floor, issued, credit, used, targets, held, post, calls, troubles, cleared, recorded, owing, event>>

-----------------------------------------------------------------------------
(* Payments (payments.ts).                                                 *)

Settle(s, by, phase) == [op |-> "settle", phase |-> phase, order |-> s, by |-> by, amount |-> 0, drafts |-> {}]

\* POST /orders/:id/payments up to the insert.
Pay(s, amount) ==
    /\ status[s] = "confirmed"  /\ Kind[s] # "trial"
    /\ cleared[s] < MaxMoney
    /\ Begin([Settle(s, "staff", "paying") EXCEPT !.amount = amount])
    /\ UNCHANGED <<now, database, held, post, troubles, money>>

\* POST /orders/:id/settle: staff try again.
SettleAgain(s) ==
    /\ status[s] = "confirmed"  /\ Kind[s] # "trial"  /\ cleared[s] >= Price[s]
    /\ Begin(Settle(s, "staff", "settling"))
    /\ UNCHANGED <<now, database, held, post, troubles, money>>

\* The payment is on file whatever happens next.
WritePayment(k) ==
    /\ calls[k].op = "settle"  /\ calls[k].phase = "paying"
    /\ cleared' = [cleared EXCEPT ![calls[k].order] = @ + calls[k].amount]
    /\ Goes(k, "settling")
    /\ UNCHANGED <<now, database, held, post, troubles, recorded, link, razorpay, owing, event>>

\* A call that settles ends, or records the event it was called for.
Settled(k) == IF calls[k].by = "webhook" THEN Goes(k, "recording") ELSE Ends(k)

\* settleOrder reads the order and the payments on file.
ReadOrder(k) ==
    LET s == calls[k].order IN
    /\ calls[k].op = "settle"  /\ calls[k].phase = "settling"
    /\ IF status[s] = "confirmed" /\ cleared[s] >= Price[s] THEN Goes(k, "looking") ELSE Settled(k)
    /\ UNCHANGED <<now, database, held, post, troubles, money>>

\* fulfilmentStatements: counters on credit get the full term, those of a renewal its term on top of what they have.
Fulfilment(s) ==
    IF Kind[s] = "renewal"
    THEN {Draft(c, Larger(Latest(c).until, now) + Term[s], FALSE, s, "order") : c \in targets[s]}
    ELSE {Draft(c, OrderEnd(s), FALSE, s, "order") : c \in {d \in Counters : seat[d] = s /\ Latest(d).until < OrderEnd(s)}}

ReadLicences(k) ==
    /\ calls[k].op = "settle"  /\ calls[k].phase = "looking"
    /\ calls' = [calls EXCEPT ![k].phase = "signing", ![k].drafts = Fulfilment(calls[k].order)]
    /\ UNCHANGED <<now, database, held, post, troubles, money>>

\* Bug: the batch does not ask whether the order still waits for payment.
StillWaitsUnasked(s) == TRUE

\* The first statement of the batch breaks a CHECK unless the order is still confirmed.
StillWaits(s) == status[s] = "confirmed"

WriteSettle(k) ==
    LET s == calls[k].order IN
    /\ calls[k].op = "settle"  /\ calls[k].phase = "writing"
    /\ \/ /\ StillWaits(s)  /\ Unused(calls[k].drafts)
          /\ status' = [status EXCEPT ![s] = "paid"]
          /\ Insert(calls[k].drafts)
          /\ Settled(k)
          /\ LinkCancelled(s)
       \/ /\ ~(StillWaits(s) /\ Unused(calls[k].drafts))
          /\ IF status[s] = "paid" THEN Settled(k) ELSE Ends(k)
          /\ UNCHANGED <<status, issued, link, razorpay>>
    /\ UNCHANGED <<now, known, seat, floor, credit, used, targets, held, post, troubles, cleared, recorded, owing, event>>

\* POST /orders/:id/payment-link: Razorpay makes the link, then it is filed.
CreateLink(s) ==
    /\ status[s] = "confirmed"  /\ Kind[s] # "trial"
    /\ cleared[s] < Price[s]
    /\ razorpay[s] = "none"
    /\ razorpay' = [razorpay EXCEPT ![s] = "open"]
    /\ owing'    = [owing EXCEPT ![s] = Price[s] - cleared[s]]
    /\ Begin([op |-> "link", phase |-> "filing", order |-> s, drafts |-> {}])
    /\ UNCHANGED <<now, database, held, post, troubles, cleared, recorded, link, event>>

FileLink(k) ==
    /\ calls[k].op = "link"  /\ calls[k].phase = "filing"
    /\ link' = [link EXCEPT ![calls[k].order] = "created"]
    /\ Ends(k)
    /\ UNCHANGED <<now, database, held, post, troubles, cleared, recorded, razorpay, owing, event>>

-----------------------------------------------------------------------------
(* Razorpay's webhooks (webhook.ts).                                       *)

PayLink(s) ==
    /\ razorpay[s] = "open"
    /\ razorpay' = [razorpay EXCEPT ![s] = "paid"]
    /\ event'    = [event EXCEPT ![s] = "due"]
    /\ UNCHANGED <<licenceVars, cleared, recorded, link, owing>>

\* Bug: an event whose payment is on file needs nothing more.
OnFileAtOnce == "recording"

\* An event whose payment is on file settles the order again: the attempt that recorded it may have stopped there.
OnFile == "settling"

\* A delivery of payment_link.paid up to the insert.  Razorpay delivers until it is answered, perhaps twice at once.
Deliver(s) ==
    /\ event[s] = "due"
    /\ \/ /\ link[s] = "none"
          /\ event' = [event EXCEPT ![s] = "seen"]
          /\ UNCHANGED <<link, calls>>
       \/ /\ link[s] # "none"  /\ s \notin recorded
          /\ Begin(Settle(s, "webhook", "inserting"))
          /\ UNCHANGED <<link, event>>
       \/ /\ link[s] # "none"  /\ s \in recorded
          /\ link' = [link EXCEPT ![s] = "paid"]
          /\ Begin(Settle(s, "webhook", OnFile))
          /\ UNCHANGED event
    /\ UNCHANGED <<now, database, held, post, troubles, cleared, recorded, razorpay, owing>>

\* The payment is recorded once; a second insert fails, and the event is delivered again.
WriteLinkPayment(k) ==
    LET s == calls[k].order IN
    /\ calls[k].op = "settle"  /\ calls[k].phase = "inserting"
    /\ IF s \in recorded
         THEN Ends(k) /\ UNCHANGED <<cleared, recorded, link>>
         ELSE /\ recorded' = recorded \cup {s}
              /\ cleared'  = [cleared EXCEPT ![s] = @ + owing[s]]
              /\ link'     = [link EXCEPT ![s] = "paid"]
              /\ Goes(k, "settling")
    /\ UNCHANGED <<now, database, held, post, troubles, razorpay, owing, event>>

\* The event is recorded and answered.
RecordEvent(k) ==
    /\ calls[k].op = "settle"  /\ calls[k].phase = "recording"
    /\ event' = [event EXCEPT ![calls[k].order] = "seen"]
    /\ Ends(k)
    /\ UNCHANGED <<now, database, held, post, troubles, cleared, recorded, link, razorpay, owing>>

-----------------------------------------------------------------------------
SalesStep(k) ==
    \/ LookCredit(k) \/ WriteCredit(k)
    \/ WritePayment(k) \/ ReadOrder(k) \/ ReadLicences(k) \/ WriteSettle(k)
    \/ FileLink(k) \/ WriteLinkPayment(k) \/ RecordEvent(k)

SalesNext ==
    \/ \E s \in Sales, extends \in SUBSET Counters : CreateOrder(s, extends)
    \/ \E s \in Sales : Confirm(s) \/ Cancel(s) \/ SettleAgain(s) \/ CreateLink(s) \/ PayLink(s) \/ Deliver(s)
    \/ \E s \in Sales, day \in Days : Credit(s, day)
    \/ \E s \in Sales, amount \in Amounts : Pay(s, amount)
    \/ \E k \in Slots : calls[k] # None /\ SalesStep(k)

Next ==
    \/ LicencesNext /\ UNCHANGED money
    \/ SalesNext

\* Calls run on.  Hubs check every hour, and a reply that is lost again and again arrives once.  Razorpay delivers an
\* event until it is answered.
CallStep(k) ==
    /\ calls[k] # None
    /\ \/ SalesStep(k)
       \/ (Sign(k) \/ CounterStep(k)) /\ UNCHANGED money

Fairness ==
    /\ \A k \in Slots : WF_vars(CallStep(k))
    /\ \A c \in Counters : WF_vars(Check(c) /\ UNCHANGED money) /\ SF_vars(Install(c) /\ UNCHANGED money)
    /\ \A s \in Sales : WF_vars(Deliver(s))

Spec == Init /\ [][Next]_vars /\ Fairness

-----------------------------------------------------------------------------
(* Properties.                                                             *)

\* What an order sells is given once, and only as far as it was sold: a renewal, whoever settles it and how often, extends
\* each of its counters once, after it was paid; every licence another order grants, to whichever counter its seats went
\* round, ends with the one term that began at the order's first activation.
SoldOnce ==
    \A s \in Sales, c \in Counters :
        LET by == {l \in issued[c] : l.order = s}  granted == {l \in by : l.reason = "order"} IN
        /\ Kind[s] = "renewal" =>
              /\ Cardinality(granted) <= 1
              /\ by # {} => status[s] = "paid" /\ cleared[s] >= Price[s]
        /\ Kind[s] # "renewal" => \A l \in granted : l.until <= OrderEnd(s)

\* The counter lacks the newest licence signed for it, which has not run out.
Behind(c) == Latest(c).rev > held[c].rev /\ GraceEnd(Latest(c)) > now
=============================================================================
