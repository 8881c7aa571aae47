------------------------------- MODULE HubData -------------------------------
(***************************************************************************)
(* The hub's data folder over its starts and ends: Restore puts databases  *)
(* in place before the hub serves, CloudUploads works while it does, and   *)
(* an updated hub takes a backup in between (main.ts, startup.ts).         *)
(***************************************************************************)
EXTENDS Restore, CloudUploads

vars == <<restoreVars, cloudVars>>

Init == RestoreInit /\ CloudInit

\* A start up to the point where the database is opened.
Start == Begin \/ RestoreStep \/ Refuse \/ GiveUp

\* The database is opened and prepared, with a backup first when the app is newer than the one that ran last.
Open ==
    /\ Serve
    /\ UNCHANGED cloudVars \/ \E name \in Snapshots : BackupAtUpdate(name)

End == (Stop \/ Crash) /\ CloudGone

Next ==
    \/ Start /\ UNCHANGED cloudVars
    \/ Open \/ End
    \/ hub = "serving" /\ CloudNext /\ UNCHANGED restoreVars

\* A start runs on by itself and the hub is started again.  While it serves, its timer and its worker run; an upload that
\* is tried again and again is confirmed once.
Fairness ==
    /\ RestoreFairness
    /\ WF_vars(hub = "serving" /\ Minute /\ UNCHANGED restoreVars)
    /\ WF_vars(hub = "serving" /\ (Continue \/ Pruned) /\ UNCHANGED restoreVars)
    /\ WF_vars(hub = "serving" /\ (Confirm \/ Fail) /\ UNCHANGED restoreVars)
    /\ \A name \in Snapshots \ Unreadable : SF_vars(hub = "serving" /\ worker.name = name /\ Confirm /\ UNCHANGED restoreVars)

Spec == Init /\ [][Next]_vars /\ Fairness

-----------------------------------------------------------------------------
\* A backup that waits for its upload leaves the queue, uploaded, although another one fails every time: as long as the
\* hub serves, the account stays linked and the file is there.
HealthyIsUploaded ==
    \A name \in Snapshots \ Unreadable : \A account \in Accounts :
        <<name, account>> \in Queued
            ~> <<name, account>> \notin Queued \/ hub # "serving" \/ ~Ready \/ name \notin disk
=============================================================================
