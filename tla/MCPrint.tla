------------------------------- MODULE MCPrint -------------------------------
(* The kitchen's printer on the network, the counter's on a COM port.        *)
EXTENDS PrintQueue
CONSTANTS kitchen, counter

CounterIdle == counter \notin locked \cup wake /\ \A j \in Jobs : printer[j] # counter

\* Bound: the counter's printer is used in behaviours without a backup and with at most one trouble.  It shares
\* nothing with the kitchen's but the trim and the wait for the loops to end.
MCNext == Next /\ (snapshot' # None \/ troubles' = MaxTroubles => CounterIdle')

MCSpec == Init /\ [][MCNext]_vars /\ Fairness
=============================================================================
