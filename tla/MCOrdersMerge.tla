---------------------------- MODULE MCOrdersMerge ----------------------------
(* Three parties whose orders are merged in any order while two dishes are  *)
(* punched, cooked, cut and cancelled: chains of merges happen.             *)
EXTENDS Orders, TLC
CONSTANTS oa, ob, oc, naan, dal, tandoor

MCOrders   == {oa, ob, oc}
MCRows     == {naan, dal}
MCStations == {tandoor}
MCType     == [o \in MCOrders |-> "dine_in"]
MCParent   == [i \in MCRows |-> None]
MCPerCombo == [i \in MCRows |-> 1]
MCChoices  == (naan :> {tandoor}) @@ (dal :> {tandoor, None})
MCSymmetry == Permutations(MCOrders)
=============================================================================
