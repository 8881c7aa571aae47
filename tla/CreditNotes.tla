---------------------------- MODULE CreditNotes ----------------------------
(***************************************************************************)
(* The arithmetic of voids and refunds: packages/domain/src/credit-notes.ts *)
(* as apps/server/src/credit-notes.ts applies it.  A bill's lines and the  *)
(* money they carry are given; a credit takes whole units off them, each   *)
(* field of a line in proportion and rounded, and pays the same sum back   *)
(* by the methods the bill was paid with.                                  *)
(*                                                                         *)
(* The wait for the approver's PIN is in Billing.  What it leaves here is  *)
(* that a request is only checked when it is written: units and amounts    *)
(* asked for are any, whatever the counter saw before.                     *)
(***************************************************************************)
EXTENDS Integers, Sequences, FiniteSets, FiniteSetsExt, SequencesExt

CONSTANTS
    Bills,
    Lines,    \* lines of the bills
    BillOf,   \* the bill a line is on
    Qty,      \* its units as billed
    Fields,   \* "taxablePaise", the taxes and "roundingPaise": each is credited by itself
    Billed,   \* what the line carries in each field
    Modes     \* payment methods

ASSUME CreditNotesAssumption ==
    /\ IsFiniteSet(Lines)  /\ IsFiniteSet(Fields)  /\ IsFiniteSet(Modes)
    /\ BillOf \in [Lines -> Bills]
    /\ Qty \in [Lines -> Nat \ {0}]
    /\ Billed \in [Lines -> [Fields -> Int]]

VARIABLES
    billStatus,  \* bills.status, "none" before the bill is issued
    creditQty,   \* units of a line on credit notes
    credited,    \* what credit notes took off each field of a line
    paid,        \* payments by method
    refunded     \* refund payments by method

creditVars == <<billStatus, creditQty, credited, paid, refunded>>

-----------------------------------------------------------------------------
LinesOf(b)  == {l \in Lines : BillOf[l] = b}
Left(l)     == Qty[l] - creditQty[l]
Sum(f, S)   == MapThenSumSet(LAMBDA x : f[x], S)
MoneyOn(b, f) == Sum([l \in LinesOf(b) |-> Sum(f[l], Fields)], LinesOf(b))
Total(b)    == MoneyOn(b, Billed)
Credited(b) == MoneyOn(b, credited)

\* Money still held (refundableOf); by method it never falls below zero.
Held(b)        == Sum(paid[b], Modes) - Sum(refunded[b], Modes)
HeldBy(b, m)   == IF paid[b][m] > refunded[b][m] THEN paid[b][m] - refunded[b][m] ELSE 0

\* round(value * q / n), half away from zero.
Proportion(value, q, n) ==
    LET size == (2 * (IF value < 0 THEN -value ELSE value) * q + n) \div (2 * n)
    IN  IF value < 0 THEN -size ELSE size

\* Bug: the last units take their share like any others.
CreditOneRounded(l, q) == [f \in Fields |-> Proportion(Billed[l][f], q, Qty[l])]

\* What q more units of a line are credited with; its last units take what is left of it.
CreditOne(l, q) ==
    [f \in Fields |-> IF q = Left(l) THEN Billed[l][f] - credited[l][f]
                      ELSE Proportion(Billed[l][f], q, Qty[l])]

\* creditFor: the credit of want[l] units of each line of the bill is drafted, or the request is refused.
Draftable(b, want) ==
    /\ \E l \in LinesOf(b) : want[l] > 0
    /\ \A l \in LinesOf(b) : want[l] <= Left(l)
Draft(b, want) ==
    [l \in LinesOf(b) |-> IF want[l] > 0 THEN CreditOne(l, want[l]) ELSE [f \in Fields |-> 0]]
DraftTotal(b, want) == MoneyOn(b, Draft(b, want))

\* voidRemainder
Remainder(b) == [l \in LinesOf(b) |-> Left(l)]

\* checkRefundMethods
WithinMethods(b, asked) == \A m \in Modes : asked[m] <= HeldBy(b, m)

\* checkRefundAmounts, checkVoidRefunds
RefundMatches(b, want, asked) == Sum(asked, Modes) = DraftTotal(b, want) /\ WithinMethods(b, asked)
VoidMatches(b, asked) ==
    IF billStatus[b] = "unpaid" THEN Sum(asked, Modes) = 0
    ELSE /\ Held(b) = DraftTotal(b, Remainder(b))
         /\ RefundMatches(b, Remainder(b), asked)

\* writeCreditNote
WriteCreditNote(b, want, asked) ==
    /\ creditQty' = [l \in Lines |-> IF l \in LinesOf(b) THEN creditQty[l] + want[l] ELSE creditQty[l]]
    /\ credited'  = [l \in Lines |-> IF l \in LinesOf(b)
                       THEN [f \in Fields |-> credited[l][f] + Draft(b, want)[l][f]] ELSE credited[l]]
    /\ refunded'  = [refunded EXCEPT ![b] = [m \in Modes |-> @[m] + asked[m]]]
    /\ UNCHANGED paid

-----------------------------------------------------------------------------
CreditsInit ==
    /\ billStatus = [b \in Bills |-> "none"]
    /\ creditQty  = [l \in Lines |-> 0]
    /\ credited   = [l \in Lines |-> [f \in Fields |-> 0]]
    /\ paid       = [b \in Bills |-> [m \in Modes |-> 0]]
    /\ refunded   = [b \in Bills |-> [m \in Modes |-> 0]]

Issue(b) ==
    /\ billStatus[b] = "none"
    /\ billStatus' = [billStatus EXCEPT ![b] = "unpaid"]
    /\ UNCHANGED <<creditQty, credited, paid, refunded>>

\* settleBill: the payments make the bill's total.
Settle(b, payments) ==
    /\ billStatus[b] = "unpaid"
    /\ Sum(payments, Modes) = Total(b)
    /\ billStatus' = [billStatus EXCEPT ![b] = "paid"]
    /\ paid' = [paid EXCEPT ![b] = payments]
    /\ UNCHANGED <<creditQty, credited, refunded>>

\* POST /api/bills/:id/refund
Refund(b, want, asked) ==
    /\ billStatus[b] = "paid"
    /\ Draftable(b, want)
    /\ RefundMatches(b, want, asked)
    /\ WriteCreditNote(b, want, asked)
    /\ UNCHANGED billStatus

\* POST /api/bills/:id/void
Void(b, asked) ==
    /\ billStatus[b] \in {"unpaid", "paid"}
    /\ Draftable(b, Remainder(b))
    /\ VoidMatches(b, asked)
    /\ WriteCreditNote(b, Remainder(b), asked)
    /\ billStatus' = [billStatus EXCEPT ![b] = "void"]

Amounts(b) == [Modes -> 0..Total(b)]

-----------------------------------------------------------------------------
\* Whatever units are refunded in whatever portions and by whatever methods, the money a paid bill still
\* holds is exactly what voiding the rest of it would give back (the "defensive" refusal of
\* checkVoidRefunds never strands a bill), no method gives back more than it took, and a void bill has
\* been credited, and has given back, all of it.
CreditsMatchMoney ==
    \A b \in Bills :
        /\ billStatus[b] = "paid" => Held(b) = DraftTotal(b, Remainder(b))
        /\ \A m \in Modes : refunded[b][m] <= paid[b][m]
        /\ billStatus[b] = "void" => Held(b) = 0 /\ Credited(b) = Total(b)
=============================================================================
