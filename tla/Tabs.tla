-------------------------------- MODULE Tabs --------------------------------
(***************************************************************************)
(* What the restaurant promises about a guest's tab, whatever counters,    *)
(* kitchens and retries do: a dish that was ordered is either taken off    *)
(* the tab or charged on exactly one bill, never both and never twice; a   *)
(* bill is drawn up once over running dishes, and what happens to it later *)
(* (paid, void) changes no dish on it.                                     *)
(***************************************************************************)
CONSTANTS Lines, Bills, None

VARIABLES
    fate,   \* of a line: "unpunched", "running", "cancelled" or "charged"
    on,     \* the bill a line is charged on, or None
    bill    \* of a bill: "none", "unpaid", "paid" or "void"

tabVars == <<fate, on, bill>>

Init ==
    /\ fate = [i \in Lines |-> "unpunched"]
    /\ on   = [i \in Lines |-> None]
    /\ bill = [b \in Bills |-> "none"]

Become(S, f) == fate' = [i \in Lines |-> IF i \in S THEN f ELSE fate[i]]

Punch(S) ==
    /\ \A i \in S : fate[i] = "unpunched"
    /\ Become(S, "running")
    /\ UNCHANGED <<on, bill>>

TakeOff(S) ==
    /\ \A i \in S : fate[i] = "running"
    /\ Become(S, "cancelled")
    /\ UNCHANGED <<on, bill>>

\* A bill at a counter waits for payment; a Zomato bill is paid as it is drawn up.
Charge(b, S, paid) ==
    /\ bill[b] = "none"
    /\ \A i \in S : fate[i] = "running"
    /\ Become(S, "charged")
    /\ on'   = [i \in Lines |-> IF i \in S THEN b ELSE on[i]]
    /\ bill' = [bill EXCEPT ![b] = IF paid THEN "paid" ELSE "unpaid"]

Pay(b) ==
    /\ bill[b] = "unpaid"
    /\ bill' = [bill EXCEPT ![b] = "paid"]
    /\ UNCHANGED <<fate, on>>

Void(b) ==
    /\ bill[b] \in {"unpaid", "paid"}
    /\ bill' = [bill EXCEPT ![b] = "void"]
    /\ UNCHANGED <<fate, on>>

Next ==
    \/ \E S \in (SUBSET Lines) \ {{}} : Punch(S) \/ TakeOff(S)
    \/ \E b \in Bills, S \in (SUBSET Lines) \ {{}}, paid \in BOOLEAN : Charge(b, S, paid)
    \/ \E b \in Bills : Pay(b) \/ Void(b)

Spec == Init /\ [][Next]_tabVars
=============================================================================
