---------------------------- MODULE MCComboZomato ----------------------------
(* One Zomato order with a combo of a burger and two drinks: holds, Fire,   *)
(* edits, cuts, cancels and station changes, from the desk to Picked up.    *)
EXTENDS Billing, TLC
CONSTANTS z, meal, burger, drink, rice, grill, bar, r1

MCOrders   == {z}
MCRows     == {meal, burger, drink, rice}
MCStations == {grill, bar}
MCType     == (z :> "zomato")
MCParent   == (meal :> None) @@ (burger :> meal) @@ (drink :> meal) @@ (rice :> None)
MCPerCombo == (meal :> 1) @@ (burger :> 1) @@ (drink :> 2) @@ (rice :> 1)
MCChoices  == (meal :> {None}) @@ (burger :> {grill}) @@ (drink :> {bar, None}) @@ (rice :> {grill})
MCPrice    == (meal :> 100) @@ (burger :> 0) @@ (drink :> 0) @@ (rice :> 70)
=============================================================================
