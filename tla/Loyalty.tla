------------------------------ MODULE Loyalty ------------------------------
(***************************************************************************)
(* A customer's points: packages/domain/src/loyalty-expiry.ts,             *)
(* apps/server/src/loyalty.ts, and what issuing, voiding and refunding a   *)
(* bill and an adjustment by hand (customers.ts) write to the ledger.      *)
(*                                                                         *)
(* Rows are only ever appended, and what is left of which points is found  *)
(* by replaying them in the order they were written.  One customer's       *)
(* ledger never reads another's, so one customer is modelled; all Bills    *)
(* are theirs.  A handler is one transaction at one reading of the clock,  *)
(* which never goes back (uuidv7 keeps the order of rows when it does).    *)
(***************************************************************************)
EXTENDS CreditNotes

CONSTANTS
    None,
    EarnChoices,    \* points a bill may earn: settings, tiers and totals decide
    RedeemChoices,  \* points a customer may ask to spend on a bill
    AdjustChoices,  \* points staff may give (or take, when negative)
    MaxTime,        \* bound: the last moment
    Months,         \* settings.expiry_months, changed by staff at any time; 0 is never
    MaxAdjusts      \* bound: adjustments

ASSUME LoyaltyAssumption ==
    /\ None \notin Bills
    /\ EarnChoices \subseteq Nat /\ RedeemChoices \subseteq Nat
    /\ AdjustChoices \subseteq Int \ {0}
    /\ Months \subseteq Nat
    /\ {MaxTime, MaxAdjusts} \subseteq Nat

VARIABLES
    ledger,    \* the customer's rows of loyalty_ledger
    now,       \* the hub's clock
    redeemed   \* bills.points_redeemed

pointVars   == <<ledger, now, redeemed>>
loyaltyVars == <<creditVars, pointVars>>

-----------------------------------------------------------------------------
(* Replaying the ledger (openLots).                                        *)

Never == -1
Expired(e, t) == e # Never /\ e <= t
EarnExpiry(months) == IF months > 0 THEN now + months ELSE Never

\* A row written now; `lot` is the row an expire row names in its client_ref, else 0.
Row(kind, points, bill, lot, expires) ==
    [kind |-> kind, points |-> points, bill |-> bill, lot |-> lot, at |-> now, expires |-> expires]

Smaller(a, b) == IF a < b THEN a ELSE b
AtLeastZero(x) == IF x > 0 THEN x ELSE 0

\* Bug: an expire row takes the oldest good points, like a redemption.
OwnLotsOfReverse(L, k) ==
    {i \in 1..k-1 : L[k].kind = "reverse" /\ L[i].kind = "earn" /\ L[i].bill = L[k].bill}

\* The lot row k takes from before any other: the one it expires, or what the bill it reverses had earned.
OwnLots(L, k) ==
    {i \in 1..k-1 : \/ L[k].kind = "expire" /\ i = L[k].lot
                    \/ L[k].kind = "reverse" /\ L[i].kind = "earn" /\ L[i].bill = L[k].bill}
GoodLots(L, k) == {i \in 1..k-1 : ~Expired(L[i].expires, L[k].at)}

\* Points are taken from the lots `from`, the oldest first, as long as any are owed.
Used(t, from, i) ==
    IF i \in from THEN Smaller(t.left[i], AtLeastZero(t.owed - Sum(t.left, {j \in from : j < i}))) ELSE 0
Take(t, from) ==
    [left |-> [i \in DOMAIN t.left |-> t.left[i] - Used(t, from, i)],
     owed |-> AtLeastZero(t.owed - Sum(t.left, from))]

\* Row k, replayed.  Every row is a lot, one of points taken an empty one; points taken that nobody has become a debt.
Apply(L, was, k) ==
    LET points == L[k].points
        pays   == Smaller(was.debt, points)
        taken  == Take(Take([left |-> was.left, owed |-> -points], OwnLots(L, k)), GoodLots(L, k))
    IN IF points > 0 THEN [left |-> Append(was.left, points - pays), debt |-> was.debt - pays]
       ELSE [left |-> Append(taken.left, 0), debt |-> was.debt + taken.owed]

\* What each lot has left, and the debt, after the first k rows.
After(L) ==
    LET after[k \in 0..Len(L)] == IF k = 0 THEN [left |-> <<>>, debt |-> 0] ELSE Apply(L, after[k-1], k)
    IN  after
Replay(L) == After(L)[Len(L)]

PointsOf(L) == [i \in DOMAIN L |-> L[i].points]
SumOf(L, S) == Sum(PointsOf(L), S)
Balance(L)  == SumOf(L, DOMAIN L)

\* expiryDue: the lots that still hold points after their expiry.
Due(L) == LET left == Replay(L).left IN {i \in DOMAIN L : left[i] > 0 /\ Expired(L[i].expires, now)}

\* Bug: what has expired counts until a sweep has written it.
SpendableUnswept(L) == Balance(L)

\* spendableBalance
Spendable(L) == Balance(L) - Sum(Replay(L).left, Due(L))

\* The ledger with a row more for each of S in their order.
Write(L, S, rows) ==
    LET upto[k \in 0..Len(L)] == IF k = 0 THEN L ELSE IF k \in S THEN Append(upto[k-1], rows[k]) ELSE upto[k-1]
    IN  upto[Len(L)]

\* sweepExpiry: an expire row for each lot that is due, unless one names the lot already (INSERT OR IGNORE).
Sweep(L) ==
    LET left == Replay(L).left
    IN  Write(L, {i \in Due(L) : \A k \in DOMAIN L : L[k].lot # i},
              [i \in DOMAIN L |-> Row("expire", -left[i], None, i, Never)])

-----------------------------------------------------------------------------
(* Reversing a bill's points (reverseLoyalty).                             *)

Earned(L, b)    == SumOf(L, {i \in DOMAIN L : L[i].kind = "earn" /\ L[i].bill = b})
TakenBack(L, b) == -SumOf(L, {i \in DOMAIN L : L[i].kind = "reverse" /\ L[i].bill = b /\ L[i].points < 0})
Lapsed(L, b)    == -SumOf(L, {i \in DOMAIN L : L[i].kind = "expire" /\ L[L[i].lot].kind = "earn" /\ L[L[i].lot].bill = b})

\* Bug: points of the bill that have expired are taken back all the same.
TargetWithLapsed(L, b, share) == share

\* What of its earned points a bill credited this far should have given back, those that expired aside.
Target(L, b, share) == IF share > Lapsed(L, b) THEN share - Lapsed(L, b) ELSE 0

\* A void takes all the bill earned, a refund a share as large as the bill's credits are of its total.
Share(L, b, kind, credit) ==
    IF kind = "void" \/ Total(b) <= 0 THEN Earned(L, b)
    ELSE Smaller(Earned(L, b), (Earned(L, b) * credit) \div Total(b))

TakeBack(L, b, share) ==
    LET points == Target(L, b, share) - TakenBack(L, b) IN
    IF points > 0 THEN <<Row("reverse", -points, b, 0, Never)>> ELSE <<>>

\* redeemedLots: points bill b redeemed from each lot.
RedeemedFrom(L, b) ==
    LET k     == CHOOSE k \in DOMAIN L : L[k].kind = "redeem" /\ L[k].bill = b
        after == After(L)
    IN  [i \in DOMAIN L |-> IF i < k THEN after[k-1].left[i] - after[k].left[i] ELSE 0]

\* A void returns redeemed points with the expiry of the lots they came from, and what came from none as new points.
GiveBack(L, b, months) ==
    LET from     == RedeemedFrom(L, b)
        lots     == {i \in DOMAIN L : from[i] > 0}
        alike(i) == {j \in lots : L[j].expires = L[i].expires}
        first    == {i \in lots : \A j \in alike(i) : i <= j}
        loose    == redeemed[b] - Sum(from, lots)
    IN IF redeemed[b] = 0 THEN L
       ELSE Write(L, first, [i \in DOMAIN L |-> Row("reverse", Sum(from, alike(i)), b, 0, L[i].expires)])
            \o (IF loose > 0 THEN <<Row("reverse", loose, b, 0, EarnExpiry(months))>> ELSE <<>>)

Reversed(L, b, kind, credit, months) ==
    LET swept == Sweep(L)
        taken == swept \o TakeBack(swept, b, Share(swept, b, kind, credit))
    IN IF kind = "void" THEN GiveBack(taken, b, months) ELSE taken

-----------------------------------------------------------------------------
Init ==
    /\ CreditsInit
    /\ ledger = <<>>
    /\ now = 0
    /\ redeemed = [b \in Bills |-> 0]

\* issueBill for this customer: r points are spent and e are earned.
IssueBill(b, r, e, months) ==
    LET S == IF r > 0 \/ e > 0 THEN Sweep(ledger) ELSE ledger IN
    /\ Issue(b)
    /\ r > 0 => r <= Spendable(ledger)
    /\ ledger' = S \o (IF r > 0 THEN <<Row("redeem", -r, b, 0, Never)>> ELSE <<>>)
                   \o (IF e > 0 THEN <<Row("earn", e, b, 0, EarnExpiry(months))>> ELSE <<>>)
    /\ redeemed' = [redeemed EXCEPT ![b] = r]
    /\ UNCHANGED now

SettleBill(b, payments) == Settle(b, payments) /\ UNCHANGED pointVars

RefundBill(b, want, asked) ==
    /\ Refund(b, want, asked)
    /\ ledger' = Reversed(ledger, b, "refund", Credited(b)', 0)
    /\ UNCHANGED <<now, redeemed>>

VoidBill(b, asked, months) ==
    /\ Void(b, asked)
    /\ ledger' = Reversed(ledger, b, "void", Credited(b)', months)
    /\ UNCHANGED <<now, redeemed>>

\* POST /api/customers/:id/loyalty-adjustments
Adjust(p, months) ==
    /\ Cardinality({i \in DOMAIN ledger : ledger[i].kind = "adjust"}) < MaxAdjusts
    /\ ledger' = Append(Sweep(ledger), Row("adjust", p, None, 0, IF p > 0 THEN EarnExpiry(months) ELSE Never))
    /\ UNCHANGED <<creditVars, now, redeemed>>

\* sweepAllExpiry, at start-up and every six hours.
SweepAll ==
    /\ Due(ledger) # {}
    /\ ledger' = Sweep(ledger)
    /\ UNCHANGED <<creditVars, now, redeemed>>

TimePasses ==
    /\ now < MaxTime
    /\ now' = now + 1
    /\ UNCHANGED <<creditVars, ledger, redeemed>>

Wants(b) == [LinesOf(b) -> 0..Max({Qty[l] : l \in LinesOf(b)})]

Next ==
    \/ \E b \in Bills, r \in RedeemChoices, e \in EarnChoices, m \in Months : IssueBill(b, r, e, m)
    \/ \E b \in Bills : \E payments \in Amounts(b) : SettleBill(b, payments)
    \/ \E b \in Bills : \E want \in Wants(b), asked \in Amounts(b) : RefundBill(b, want, asked)
    \/ \E b \in Bills : \E asked \in Amounts(b), m \in Months : VoidBill(b, asked, m)
    \/ \E p \in AdjustChoices, m \in Months : Adjust(p, m)
    \/ SweepAll
    \/ TimePasses

Spec == Init /\ [][Next]_loyaltyVars

-----------------------------------------------------------------------------
(* Properties.                                                             *)

\* Points that pay for a bill were there: however many bills redeem at the same time as points expire, are
\* swept, taken back or taken by hand, a redemption never leaves the customer owing points.
RedeemsAreBacked ==
    LET after == After(ledger) IN
    \A k \in DOMAIN ledger : ledger[k].kind = "redeem" => after[k].debt = after[k-1].debt

\* No point a bill earned is taken twice, by refunds and the void after them or by its expiry; and voids undo their
\* bills: when no points have expired and every bill is void, the customer has what staff gave them and nothing else,
\* whatever was spent on what and refunded in between.
TakenBackOnce ==
    /\ \A b \in Bills : TakenBack(ledger, b) + Lapsed(ledger, b) <= Earned(ledger, b)
    /\ (\A b \in Bills : billStatus[b] \in {"none", "void"}) /\ (\A i \in DOMAIN ledger : ledger[i].kind # "expire")
          => Balance(ledger) = SumOf(ledger, {i \in DOMAIN ledger : ledger[i].kind = "adjust"})

\* When expired points are written down makes no difference to a customer: a sweep, by the timer or before a
\* bill, would leave what they can spend as it is, and nothing for another sweep to write.
SweepIsInvisible == LET swept == Sweep(ledger) IN Due(swept) = {} /\ Balance(swept) = Spendable(ledger)

\* customers.ts:54, "Earned points that have since expired are already gone; taking them back again would
\* charge the customer twice": a customer whose bills are all void owes no points.
NotChargedTwice ==
    (\A b \in Bills : billStatus[b] \in {"none", "void"}) /\ (\A i \in DOMAIN ledger : ledger[i].kind # "adjust")
        => Balance(ledger) >= 0
=============================================================================
