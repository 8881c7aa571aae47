------------------------------- MODULE Shifts -------------------------------
(***************************************************************************)
(* The cash drawer and the close of a day: shifts.ts over the payments and *)
(* credit notes of billing.ts and credit-notes.ts, and the day-end report  *)
(* a close saves (reports.ts).                                             *)
(*                                                                         *)
(* The clock counts milliseconds, of which many calls may share one.  Sums *)
(* of the report are kept as the rows they sum.  A bill is paid by one     *)
(* method; the PIN of a refund is in Billing.                              *)
(***************************************************************************)
EXTENDS Integers, FiniteSets, FiniteSetsExt

CONSTANTS
    Cashiers,           \* who opens shifts, settles and refunds
    MaxShifts,          \* bound: shifts of the instance, numbered as they are opened
    Bills, Total,       \* orders with the one bill each gets, and what it comes to
    Parts,              \* what one refund may give back
    Amounts,            \* floats, pay-ins and (negative) pay-outs
    DayLength,          \* clock readings of a business date
    MaxClock,           \* bound: the clock of the instance
    MaxMoved,           \* bound: what pay-ins and pay-outs of a shift may come to, either way
    Never, Nobody

ASSUME ShiftsAssumption ==
    /\ Total \in [Bills -> Nat]  /\ Parts \subseteq Nat  /\ Amounts \subseteq Int
    /\ DayLength \in Nat \ {0}  /\ {MaxShifts, MaxClock, MaxMoved} \subseteq Nat
    /\ Never \notin Int  /\ Nobody \notin Cashiers \cup Nat

Drawers == 1 .. MaxShifts

VARIABLES
    clock,
    cashier, opened, float, closed, expected,  \* shifts, with a null as Never or Nobody
    moved,      \* cash_movements of a shift: pay-ins less pay-outs
    tab,        \* orders.status, and "void" when the bill was voided unpaid
    openedOn, issuedOn, endedOn,               \* the dates of orders.opened_at, bills.created_at, orders.closed_at
    cash,       \* payments and refund_payments: set of [bill, mode, by, at, paise, nr]; a refund is negative
    saved,      \* day_closes: the report of a date, or Never
    drawer,     \* not in the database: the money that lies in the drawer of a shift
    before      \* not in the database: how many payments and refunds there were when a shift was opened

shiftVars == <<cashier, opened, float, closed, expected, moved>>
tabVars   == <<tab, openedOn, issuedOn, endedOn>>
dayVars   == <<clock, shiftVars, tabVars, cash, saved, drawer, before>>

-----------------------------------------------------------------------------
Day(t)       == t \div DayLength
Open(s)      == opened[s] # Never /\ closed[s] = Never
Paise(S)     == MapThenSumSet(LAMBDA p : p.paise, S)
PaidOn(b)    == {p \in cash : p.bill = b}

\* The shift a person has open; one at most.
ShiftOf(c) == IF \E s \in Drawers : Open(s) /\ cashier[s] = c
              THEN CHOOSE s \in Drawers : Open(s) /\ cashier[s] = c ELSE Nobody

\* Cash by the shift's cashier from its opening until a time, both readings included.
CashOf(s, until) == {p \in cash : p.mode = "cash" /\ p.by = cashier[s] /\ opened[s] <= p.at /\ p.at <= until}

\* Bug: cash of the cashier's earlier shifts is expected again.
ExpectedEver(s, until) ==
    float[s] + Paise({p \in cash : p.mode = "cash" /\ p.by = cashier[s] /\ p.at <= until}) + moved[s]

Expected(s, until) == float[s] + Paise(CashOf(s, until)) + moved[s]

-----------------------------------------------------------------------------
OpenShift(s, c, f) ==
    /\ s = 1 + Cardinality({r \in Drawers : opened[r] # Never})
    /\ ShiftOf(c) = Nobody
    /\ cashier' = [cashier EXCEPT ![s] = c]
    /\ opened'  = [opened EXCEPT ![s] = clock]
    /\ float'   = [float EXCEPT ![s] = f]
    /\ drawer'  = [drawer EXCEPT ![s] = f]
    /\ before'  = [before EXCEPT ![s] = Cardinality(cash)]
    /\ UNCHANGED <<clock, closed, expected, moved, tabVars, cash, saved>>

CashMovement(s, paise) ==
    /\ Open(s)  /\ paise # 0  /\ moved[s] + paise \in -MaxMoved .. MaxMoved
    /\ moved'  = [moved EXCEPT ![s] = @ + paise]
    /\ drawer' = [drawer EXCEPT ![s] = @ + paise]
    /\ UNCHANGED <<clock, cashier, opened, float, closed, expected, tabVars, cash, saved, before>>

\* By its cashier, or by whoever may close the day.
CloseShift(s) ==
    /\ Open(s)
    /\ closed'   = [closed EXCEPT ![s] = clock]
    /\ expected' = [expected EXCEPT ![s] = Expected(s, clock)]
    /\ UNCHANGED <<clock, cashier, opened, float, moved, tabVars, cash, saved, drawer, before>>

-----------------------------------------------------------------------------
(* What bills do to the drawer *)

\* A payment, or a refund when paise is negative, that c takes or gives now.
Pass(b, c, mode, paise) ==
    LET p == [bill |-> b, mode |-> mode, by |-> c, at |-> clock, paise |-> paise, nr |-> Cardinality(cash)]
        s == ShiftOf(c)
    IN  /\ cash'   = cash \cup {p}
        /\ drawer' = IF mode = "cash" /\ s # Nobody THEN [drawer EXCEPT ![s] = @ + paise] ELSE drawer

OpenTab(b) ==
    /\ tab[b] = "none"
    /\ tab' = [tab EXCEPT ![b] = "open"]
    /\ openedOn' = [openedOn EXCEPT ![b] = Day(clock)]
    /\ UNCHANGED <<clock, shiftVars, issuedOn, endedOn, cash, saved, drawer, before>>

IssueBill(b) ==
    /\ tab[b] = "open"
    /\ tab' = [tab EXCEPT ![b] = "billed"]
    /\ issuedOn' = [issuedOn EXCEPT ![b] = Day(clock)]
    /\ UNCHANGED <<clock, shiftVars, openedOn, endedOn, cash, saved, drawer, before>>

CancelTab(b) ==
    /\ tab[b] = "open"
    /\ tab' = [tab EXCEPT ![b] = "cancelled"]
    /\ endedOn' = [endedOn EXCEPT ![b] = Day(clock)]
    /\ UNCHANGED <<clock, shiftVars, openedOn, issuedOn, cash, saved, drawer, before>>

SettleBill(b, c, mode) ==
    /\ tab[b] = "billed"
    /\ tab' = [tab EXCEPT ![b] = "settled"]
    /\ endedOn' = [endedOn EXCEPT ![b] = Day(clock)]
    /\ Pass(b, c, mode, Total[b])
    /\ UNCHANGED <<clock, shiftVars, openedOn, issuedOn, saved, before>>

\* A refund by the method the bill was paid with, within what is left of it.
RefundBill(b, c, paise) ==
    /\ tab[b] = "settled"
    /\ paise \in Parts  /\ paise <= Paise(PaidOn(b))
    /\ \E p \in PaidOn(b) : Pass(b, c, p.mode, -paise)
    /\ UNCHANGED <<clock, shiftVars, tabVars, saved, before>>

\* Voiding a bill nobody paid cancels its order.
VoidUnpaid(b) ==
    /\ tab[b] = "billed"
    /\ tab' = [tab EXCEPT ![b] = "void"]
    /\ endedOn' = [endedOn EXCEPT ![b] = Day(clock)]
    /\ UNCHANGED <<clock, shiftVars, openedOn, issuedOn, cash, saved, drawer, before>>

-----------------------------------------------------------------------------
\* The rows each section of the day-end report sums, with the shifts a close adds to it.
Report(d) ==
    [sales         |-> {b \in Bills : issuedOn[b] = d},
     outstanding   |-> {b \in Bills : issuedOn[b] = d /\ tab[b] = "billed"},
     payments      |-> {p \in cash : Day(p.at) = d},
     creditNotes   |-> {b \in Bills : tab[b] = "void" /\ endedOn[b] = d},
     cancellations |-> {b \in Bills : tab[b] \in {"cancelled", "void"} /\ endedOn[b] = d},
     shifts        |-> {<<s, expected[s]>> : s \in {r \in Drawers : opened[r] # Never /\ Day(opened[r]) = d}}]

\* Bug: bills that wait for their payment do not stop the close.
MayCloseDayUnpaid(d) ==
    /\ \A s \in Drawers : Open(s) => Day(opened[s]) > d
    /\ \A b \in Bills : tab[b] = "open" => openedOn[b] > d

\* Every drawer, order and bill opened by the end of the date is closed.
MayCloseDay(d) ==
    /\ \A s \in Drawers : Open(s) => Day(opened[s]) > d
    /\ \A b \in Bills : tab[b] \in {"open", "billed"} => openedOn[b] > d

CloseDay(d) ==
    /\ d <= Day(clock)  /\ saved[d] = Never  /\ MayCloseDay(d)
    /\ saved' = [saved EXCEPT ![d] = [on |-> Day(clock), report |-> Report(d)]]
    /\ UNCHANGED <<clock, shiftVars, tabVars, cash, drawer, before>>

-----------------------------------------------------------------------------
TimePasses ==
    /\ clock < MaxClock
    /\ clock' = clock + 1
    /\ UNCHANGED <<shiftVars, tabVars, cash, saved, drawer, before>>

ShiftsInit ==
    /\ clock = 0
    /\ cashier  = [s \in Drawers |-> Nobody]
    /\ opened   = [s \in Drawers |-> Never]
    /\ float    = [s \in Drawers |-> 0]
    /\ closed   = [s \in Drawers |-> Never]
    /\ expected = [s \in Drawers |-> Never]
    /\ moved    = [s \in Drawers |-> 0]
    /\ tab      = [b \in Bills |-> "none"]
    /\ openedOn = [b \in Bills |-> Never]
    /\ issuedOn = [b \in Bills |-> Never]
    /\ endedOn  = [b \in Bills |-> Never]
    /\ cash     = {}
    /\ saved    = [d \in 0 .. Day(MaxClock) |-> Never]
    /\ drawer   = [s \in Drawers |-> 0]
    /\ before   = [s \in Drawers |-> 0]

ShiftsNext ==
    \/ TimePasses
    \/ \E s \in Drawers :
        \/ CloseShift(s)
        \/ \E c \in Cashiers, f \in Amounts \cap Nat : OpenShift(s, c, f)
        \/ \E paise \in Amounts : CashMovement(s, paise)
    \/ \E b \in Bills :
        \/ OpenTab(b) \/ IssueBill(b) \/ CancelTab(b) \/ VoidUnpaid(b)
        \/ \E c \in Cashiers :
            \/ \E mode \in {"cash", "upi"} : SettleBill(b, c, mode)
            \/ \E paise \in Parts : RefundBill(b, c, paise)
    \/ \E d \in DOMAIN saved : CloseDay(d)

ShiftsSpec == ShiftsInit /\ [][ShiftsNext]_dayVars

-----------------------------------------------------------------------------
\* A drawer nobody miscounts is neither over nor short (docs/operations/cash-drawer-and-day-close.md: opening float, plus
\* cash on bills the cashier settled, less cash refunds, plus pay-ins, less pay-outs): what a closed shift says it should
\* hold is what lies in it.  The one difference is cash the same person took earlier in the millisecond in which the shift
\* was opened: both ends of the window are included, so the shift before it counted that cash too.
DrawerAddsUp ==
    \A s \in Drawers : closed[s] # Never =>
        expected[s] - drawer[s] = Paise({p \in CashOf(s, closed[s]) : p.at = opened[s] /\ p.nr < before[s]})

\* The report saved with a date closed after it ended is the report of that date for ever (reports.ts: "so a closed day
\* never changes"), whatever is settled, refunded, voided or cancelled later.
ClosedDayStands ==
    \A d \in DOMAIN saved :
        saved[d] # Never /\ saved[d].on > d => saved[d].report = Report(d)
=============================================================================
