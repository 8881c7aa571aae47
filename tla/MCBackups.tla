------------------------------ MODULE MCBackups -------------------------------
(* Two backups of which one can never be uploaded, two accounts, a restore   *)
(* and a crash.  The two halves meet in the hub's starts and ends only, so   *)
(* the instance follows a restore while no backup waits for an upload.       *)
EXTENDS HubData, TLC
CONSTANTS mon, tue, a, b

MCNext == Next /\ (source' # None \/ promised' # 0 => taken' = {} /\ drive' = NoAccount)
MCSpec == Init /\ [][MCNext]_vars /\ Fairness
=============================================================================
