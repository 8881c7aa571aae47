------------------------------- MODULE Restore -------------------------------
(***************************************************************************)
(* How the hub puts a backup in the place of its database, and what is left*)
(* of that when the computer stops half way (apps/server/src/recovery.ts,  *)
(* called by main.ts before the database is opened).                       *)
(*                                                                         *)
(* A database is three files, the database itself and the two kinds of file*)
(* SQLite keeps beside it: the write-ahead log (-wal, with its -shm) of an *)
(* open database and the rollback journal (-journal) of a transaction.  A  *)
(* file is modelled by the database it belongs to.  Every rename and every *)
(* write of a small file is one step, and the hub may crash between any    *)
(* two; renames and synced writes survive a crash in the order they were   *)
(* made.                                                                   *)
(***************************************************************************)
EXTENDS Integers

CONSTANTS
    None,        \* no file, no restore
    Torn,        \* a file that was being copied when the hub stopped
    Blank,       \* a database SQLite creates because there is none
    MaxRestores, \* restores staff may ask for
    MaxCrashes   \* crashes of the hub

ASSUME RestoreAssumption ==
    /\ MaxRestores \in Nat /\ MaxCrashes \in Nat
    /\ None # Torn /\ None # Blank /\ Torn # Blank
    /\ None \notin Int /\ Torn \notin Int /\ Blank \notin Int
    /\ None \notin [restore : Int, phase : {"archive", "install", "done"}]

Restores  == 1..MaxRestores     \* the backup a restore installs bears the number of the restore
Databases == 0..MaxRestores     \* 0 is the database the restaurant began with
Openable  == Databases \cup {Blank}
Parts     == {"db", "wal", "journal"}
NoFiles   == [part \in Parts |-> None]
Phases    == {"archive", "install", "done"}

VARIABLES
    hub,         \* the hub's process: "down", where it is in starting, "serving"
    source,      \* MASALAPOS_RESTORE: the backup this start is asked to restore
    live,        \* masalapos.db and the files beside it
    staged,      \* restore-staged.db
    archive,     \* recovery/<uuid>/ of every restore
    pending,     \* restore-pending.json: the restore and its phase
    signedOut,   \* databases whose sessions were deleted
    generation,  \* recovery-generation.json
    \* histories
    promised,    \* the database the hub has to serve
    logged,      \* databases with committed work in a write-ahead log
    served,      \* databases served under each generation, as pairs
    crashes

restoreVars == <<hub, source, live, staged, archive, pending, signedOut, generation,
                 promised, logged, served, crashes>>

RestoreInit ==
    /\ hub = "down"  /\ source = None
    /\ live = [NoFiles EXCEPT !["db"] = 0]
    /\ staged = None  /\ archive = [r \in Restores |-> NoFiles]
    /\ pending = None
    /\ signedOut = {}  /\ generation = 0
  
    /\ promised = 0  /\ logged = {}  /\ served = {}  /\ crashes = 0

-----------------------------------------------------------------------------
(* Starting.                                                               *)

\* The desktop starts the hub, with a backup to restore when staff confirmed one.
Launch(backup) ==
    /\ hub = "down"
    /\ backup # None => backup = promised + 1
    /\ hub' = "starting"  /\ source' = backup
    /\ UNCHANGED <<live, staged, archive, pending, signedOut, generation, promised, logged, served, crashes>>

\* The backup is checked and copied; an unfinished restore was finished before (the guard on `pending`).
Copy ==
    /\ hub = "starting"  /\ pending = None  /\ source # None
    /\ staged' = Torn  /\ hub' = "copying"
    /\ UNCHANGED <<source, live, archive, pending, signedOut, generation, promised, logged, served, crashes>>

Copied ==
    /\ hub = "copying"
    /\ staged' = source  /\ hub' = "copied"
    /\ UNCHANGED <<source, live, archive, pending, signedOut, generation, promised, logged, served, crashes>>

\* From here on the restore is finished whatever happens.
Announce ==
    /\ hub = "copied"
    /\ pending' = [restore |-> source, phase |-> "archive"]
    /\ promised' = source
    /\ hub' = "starting"  /\ source' = None
    /\ UNCHANGED <<live, staged, archive, signedOut, generation, logged, served, crashes>>

\* A backup that is not a whole, supported database: the start fails and nothing has changed.
Refuse ==
    /\ hub \in {"starting", "copying"}  /\ source # None  /\ pending = None
    /\ hub' = "down"  /\ source' = None
    /\ UNCHANGED <<live, staged, archive, pending, signedOut, generation, promised, logged, served, crashes>>

-----------------------------------------------------------------------------
(* Finishing a restore: what is left to do is read off the files.          *)

InPhase(phase) == hub = "starting" /\ pending # None /\ pending.phase = phase

\* The files to put away, in this order.
\* Bug: the write-ahead log stays beside the database that takes the old one's place.
MovableDbOnly == IF live["db"] # None THEN {"db"} ELSE {}
Movable ==
    IF live["db"] # None THEN {"db"} ELSE IF live["wal"] # None THEN {"wal"} ELSE
    IF live["journal"] # None THEN {"journal"} ELSE {}

\* A file already there is never replaced.
\* Bug: the archive has to be empty, which it is not when the second file comes or an earlier start came this far.
FreeEmpty(part) == archive[pending.restore] = NoFiles
Free(part) == archive[pending.restore][part] = None

PutAway ==
    /\ InPhase("archive")  /\ staged \in Databases
    /\ \E part \in Movable :
          /\ Free(part)
          /\ archive' = [archive EXCEPT ![pending.restore][part] = live[part]]
          /\ live' = [live EXCEPT ![part] = None]
    /\ UNCHANGED <<hub, source, staged, pending, signedOut, generation, promised, logged, served, crashes>>

AllPutAway ==
    /\ InPhase("archive")  /\ staged \in Databases  /\ Movable = {}
    /\ pending' = [pending EXCEPT !.phase = "install"]
    /\ UNCHANGED <<hub, source, live, staged, archive, signedOut, generation, promised, logged, served, crashes>>

Install ==
    /\ InPhase("install")  /\ staged # None
    /\ live' = [live EXCEPT !["db"] = staged]
    /\ staged' = None
    /\ UNCHANGED <<hub, source, archive, pending, signedOut, generation, promised, logged, served, crashes>>

\* verifyBackup opens the file for reading only, and SQLite then refuses one with a rollback journal beside it.
Verified == live["db"] \in Databases /\ live["journal"] = None

\* The sign-ins of the backup are deleted in a transaction, which has a rollback journal until it commits.
StartSignOut ==
    /\ InPhase("install")  /\ staged = None  /\ Verified
    /\ live' = [live EXCEPT !["journal"] = live["db"]]
    /\ hub' = "signing out"
    /\ UNCHANGED <<source, staged, archive, pending, signedOut, generation, promised, logged, served, crashes>>

SignOut ==
    /\ hub = "signing out"
    /\ live' = [live EXCEPT !["journal"] = None]
    /\ signedOut' = signedOut \cup {live["db"]}
    /\ hub' = "signed out"
    /\ UNCHANGED <<source, staged, archive, pending, generation, promised, logged, served, crashes>>

\* A new generation: screens throw away what they saved for the database that was replaced.
\* Bug: the generation is kept.
NextGenerationKept == generation
NextGeneration == generation + 1

Renew ==
    /\ hub = "signed out"
    /\ generation' = NextGeneration
    /\ hub' = "renewed"
    /\ UNCHANGED <<source, live, staged, archive, pending, signedOut, promised, logged, served, crashes>>

Finish ==
    /\ hub = "renewed"
    /\ pending' = [pending EXCEPT !.phase = "done"]
    /\ hub' = "starting"
    /\ UNCHANGED <<source, live, staged, archive, signedOut, generation, promised, logged, served, crashes>>

Forget ==
    /\ InPhase("done")
    /\ pending' = None
    /\ UNCHANGED <<hub, source, live, staged, archive, signedOut, generation, promised, logged, served, crashes>>

\* What a start cannot get past, and neither can a later one: nothing removes that file.
Stuck ==
    IF pending.phase = "archive" THEN staged \notin Databases \/ \E part \in Movable : ~Free(part)
    ELSE pending.phase = "install" /\ staged = None /\ ~Verified

GiveUp ==
    /\ hub = "starting"  /\ pending # None  /\ Stuck
    /\ hub' = "down"  /\ source' = None
    /\ UNCHANGED <<live, staged, archive, pending, signedOut, generation, promised, logged, served, crashes>>

-----------------------------------------------------------------------------
(* Serving, and how it ends.                                               *)

\* The start may open the database: no restore is unfinished.
\* Bug: an interrupted restore is left for later.
MayServeAnyway == source = None
MayServe == source = None /\ pending = None

\* The database is opened, a new one if there is none; what a log beside it says counts.
Serve ==
    /\ hub = "starting"  /\ MayServe
    /\ LET db == IF live["db"] = None THEN Blank ELSE live["db"]
       IN  /\ live' = [live EXCEPT !["db"] = db, !["wal"] = IF live["wal"] = None THEN db ELSE live["wal"],
                                   !["journal"] = None]
           /\ logged' = logged \cup {db}
           /\ served' = served \cup {<<generation, db>>}
    /\ hub' = "serving"
    /\ UNCHANGED <<source, staged, archive, pending, signedOut, generation, promised, crashes>>

\* A clean end writes the log back and removes it.
Stop ==
    /\ hub = "serving"
    /\ live' = [live EXCEPT !["wal"] = None]
    /\ logged' = logged \ {live["db"]}
    /\ hub' = "down"
    /\ UNCHANGED <<source, staged, archive, pending, signedOut, generation, promised, served, crashes>>

Crash ==
    /\ hub # "down"  /\ crashes < MaxCrashes
    /\ hub' = "down"  /\ source' = None  /\ crashes' = crashes + 1
    /\ UNCHANGED <<live, staged, archive, pending, signedOut, generation, promised, logged, served>>

Begin == Launch(None) \/ \E backup \in Restores : Launch(backup)

\* One step of a start that has not opened the database yet.
RestoreStep ==
    \/ Copy \/ Copied \/ Announce
    \/ PutAway \/ AllPutAway \/ Install \/ StartSignOut \/ SignOut \/ Renew \/ Finish \/ Forget

RestoreNext ==
    \/ Begin \/ RestoreStep \/ Refuse \/ GiveUp
    \/ Serve \/ Stop \/ Crash

\* A start runs on by itself, and a hub that is down is started again: by the desktop, or by staff.
RestoreFairness ==
    /\ WF_restoreVars(RestoreStep)
    /\ WF_restoreVars(Begin)

RestoreSpec == RestoreInit /\ [][RestoreNext]_restoreVars /\ RestoreFairness

-----------------------------------------------------------------------------
\* Types of the files and of the process.
RestoreTypeOK ==
    /\ hub \in {"down", "starting", "copying", "copied", "signing out", "signed out", "renewed", "serving"}
    /\ source = None \/ source \in Restores
    /\ live \in [Parts -> Openable \cup {None}]
    /\ staged = None \/ staged = Torn \/ staged \in Databases
    /\ archive \in [Restores -> [Parts -> Openable \cup {None}]]
    /\ pending \in [restore : Restores, phase : Phases] \cup {None}
    /\ signedOut \subseteq Openable
    /\ generation \in Nat
    /\ promised \in 0..MaxRestores
    /\ logged \subseteq Openable
    /\ served \subseteq Nat \X Openable
    /\ crashes \in Nat

\* Nothing of a database is lost, and nothing of two databases is mixed: a log or journal lies beside a database only if
\* it is its own, and the database with work in its log has that log beside it (or on its way to the same archive).
NothingLost ==
    /\ live["db"] # None => \A part \in Parts : live[part] \in {None, live["db"]}
    /\ \A d \in logged :
          \/ live["db"] = d /\ live["wal"] = d
          \/ \E r \in Restores :
                /\ archive[r]["db"] = d
                /\ \/ archive[r]["wal"] = d
                   \/ live["db"] = None /\ live["wal"] = d /\ pending = [restore |-> r, phase |-> "archive"]
    /\ \A d \in 0..promised :
          \/ live["db"] = d
          \/ \E r \in Restores : archive[r]["db"] = d
          \/ staged = d /\ pending # None /\ pending.phase # "done"

\* The hub that takes orders serves what staff were promised last, with every sign-in of the backup gone and no restore
\* left half done; it never starts on an empty database.
ServesWhatWasPromised ==
    hub = "serving" =>
        /\ pending = None  /\ live["db"] = promised
        /\ promised # 0 => promised \in signedOut

\* A restore that was announced is finished by this start or a later one, whatever the crashes between.  The exception: a
\* crash inside the transaction that deletes the sign-ins leaves the rollback journal no later start can get past.
RestoreFinishes == pending # None ~> pending = None \/ live["journal"] # None

\* A generation names one database for good, so a screen that saved actions for it cannot replay them into another.
OneDatabasePerGeneration == \A p, q \in served : p[1] = q[1] => p[2] = q[2]
=============================================================================
