---------------------------- MODULE MCBillingTabs ----------------------------
(* Two parties that may be merged, a cooked dish and a bottle; two bill     *)
(* requests and two calls that wait at the same time, settles and voids.    *)
EXTENDS Billing, TLC
CONSTANTS oa, ob, dal, cola, tandoor, r1, r2, c1, c2

MCOrders   == {oa, ob}
MCRows     == {dal, cola}
MCStations == {tandoor}
MCType     == [o \in MCOrders |-> "dine_in"]
MCParent   == [i \in MCRows |-> None]
MCPerCombo == [i \in MCRows |-> 1]
MCChoices  == (dal :> {tandoor}) @@ (cola :> {None})
MCPrice    == (dal :> 100) @@ (cola :> 160)
MCSymmetry == Permutations(MCOrders) \cup Permutations({r1, r2}) \cup Permutations({c1, c2})
=============================================================================
