----------------------------- MODULE MCOffline ------------------------------
(* Two windows of one counter, two staff members and their actions on one   *)
(* order.                                                                   *)
EXTENDS OfflineQueue, FiniteSets, TLC
CONSTANTS w1, w2, sa, sb, oa

MCWindows   == {w1, w2}
MCOneWindow == {w1}
MCStaff     == {sa, sb}
MCLanes     == {oa}
MCSymmetry  == Permutations(MCWindows) \cup Permutations(MCStaff)

(* Bound: once there is a backup to restore, one staff member is at work    *)
(* and discards nothing.                                                    *)
AtWork == ({by[i] : i \in Entries} \cup {actor[w] : w \in Windows}
            \cup (IF token = None THEN {} ELSE {token[1]})) \ {None}
Bounded == Cardinality(AtWork) <= 1 /\ dialog = None /\ discarded = {}
MCNext == Next /\ (backup' # None => Bounded')
MCSpec == Init /\ [][MCNext]_vars
=============================================================================
