----------------------------- MODULE MCLoyalty -----------------------------
(* A bill of two samosas for three paise, paid in two ways, and one that  *)
(* points paid in full; staff may give the customer a point or take one.   *)
EXTENDS Loyalty, TLC
CONSTANTS a, b, samosa, tea, cash, upi

MCBills  == {a, b}
MCLines  == {samosa, tea}
MCBillOf == (samosa :> a) @@ (tea :> b)
MCQty    == (samosa :> 2) @@ (tea :> 1)
MCBilled == (samosa :> [taxable |-> 2, rounding |-> 1])
            @@ (tea :> [taxable |-> 0, rounding |-> 0])
MCAdjusts == {1, -1}
MCSymmetry == Permutations({cash, upi})
=============================================================================
