---------------------------- MODULE HubDataProofs ----------------------------
(***************************************************************************)
(* The hub's data folder, for any backups, restores, accounts and crashes. *)
(* First Restore alone: no database is lost or mixed with another, the hub *)
(* serves the database it was promised to, and a generation names one      *)
(* database.  Then the whole folder: nothing the upload worker, the screens*)
(* or a backup at an update do is a step of a restore.  Last the upload    *)
(* worker: its uploads go to the account that is linked.                   *)
(***************************************************************************)
EXTENDS HubData, TLAPS, FiniteSetTheorems, WellFoundedInduction

-----------------------------------------------------------------------------
(* Restore                                                                 *)


\* The database a restore puts away.
Old == promised - 1

In(phase) == pending # None /\ pending.phase = phase

\* Outside of a restore the promised database is in place, its sign-ins are gone, and every log lies beside its database.
Settled ==
    pending = None =>
        /\ live["db"] = promised
        /\ live["wal"] \in {None, promised}  /\ live["journal"] = None
        /\ promised \in logged => live["wal"] = promised
        /\ promised # 0 => promised \in signedOut
        /\ \A q \in served : q[1] = generation => q[2] = promised

\* The restore that is under way is the last one, and no earlier start left another.
Underway ==
    pending # None =>
        /\ promised # 0  /\ pending.restore = promised
        /\ promised \notin logged
        /\ source # None => source = promised + 1

\* While the old database is put away each of its files is here or in the archive.
PuttingAway ==
    In("archive") =>
        /\ staged = promised
        /\ live["db"] \in {None, Old}  /\ live["wal"] \in {None, Old}  /\ live["journal"] = None
        /\ live["db"] = Old => archive[promised] = NoFiles
        /\ live["db"] = None => archive[promised]["db"] = Old
        /\ live["wal"] = Old => archive[promised]["wal"] = None
        /\ Old \in logged => Old \in {live["wal"], archive[promised]["wal"]}

\* Then the backup takes its place.
Installing ==
    In("install") =>
        \/ staged = promised  /\ live = NoFiles
        \/ /\ staged = None  /\ live["db"] = promised
           /\ live["wal"] = None  /\ live["journal"] \in {None, promised}

Done ==
    In("done") =>
        /\ live["db"] = promised  /\ live["wal"] = None  /\ live["journal"] = None
        /\ promised \in signedOut

\* Every earlier restore has its archive, and the last one unless its old database is still in place.
Archived ==
    /\ \A r \in 1..promised :
          r # promised \/ ~In("archive") =>
              /\ archive[r]["db"] = r - 1
              /\ r - 1 \in logged => archive[r]["wal"] = r - 1
    /\ \A r \in Restores : r > promised => archive[r] = NoFiles
    /\ \A d \in logged : d \in 0..promised

\* Where the process is says how far the restore got.
Process ==
    /\ source # None => source = promised + 1
    /\ hub \in {"copying", "copied"} => pending = None /\ source # None
    /\ hub = "copied" => staged = source
    /\ hub = "serving" => pending = None /\ live["wal"] = promised
    /\ hub \in {"signing out", "signed out", "renewed"} => In("install") /\ staged = None
    /\ hub = "signing out" => live["journal"] = promised
    /\ hub \in {"signed out", "renewed"} => live["journal"] = None /\ promised \in signedOut

\* A generation that is about to be used was never used.
Generations ==
    /\ \A q \in served : q[1] <= generation
    /\ hub = "renewed" \/ In("done") => \A q \in served : q[1] < generation

RestoreIInv ==
    /\ RestoreTypeOK
    /\ Settled /\ Underway /\ PuttingAway /\ Installing /\ Done
    /\ Archived /\ Process /\ Generations
    /\ OneDatabasePerGeneration

-----------------------------------------------------------------------------
USE RestoreAssumption DEF In, Old, Databases, Restores, Parts, NoFiles, Phases

\* Any database of the restaurant may be opened, the promised one among them.
LEMMA DatabasesOpen == \A n \in Databases : n \in Openable
  BY DEF Openable

LEMMA PromisedOpens == RestoreTypeOK => promised \in Openable
  BY DatabasesOpen DEF RestoreTypeOK

\* The restaurant begins with its database in place and nothing pending.
LEMMA RestoreInitInv == RestoreInit => RestoreIInv
  BY DatabasesOpen DEF RestoreInit, RestoreIInv, RestoreTypeOK, Settled, Underway, PuttingAway, Installing, Done, Archived, Process, Generations,
         OneDatabasePerGeneration

\* A start alone changes no file.
LEMMA LaunchInv ==
  ASSUME NEW backup, backup = None \/ backup \in Restores, RestoreIInv, Launch(backup)
  PROVE  RestoreIInv'
<1>1. RestoreTypeOK'
  BY DEF RestoreIInv, Launch, RestoreTypeOK
<1>2. Settled'
  BY DEF RestoreIInv, Launch, RestoreTypeOK, Settled
<1>3. Underway' /\ PuttingAway' /\ Installing' /\ Done'
  BY DEF RestoreIInv, Launch, RestoreTypeOK, Underway, PuttingAway, Installing, Done
<1>4. Archived'
  BY DEF RestoreIInv, Launch, RestoreTypeOK, Archived
<1>5. Process'
  BY DEF RestoreIInv, Launch, RestoreTypeOK, Process
<1>6. Generations' /\ OneDatabasePerGeneration'
  BY DEF RestoreIInv, Launch, RestoreTypeOK, Generations, OneDatabasePerGeneration
<1> QED BY <1>1, <1>2, <1>3, <1>4, <1>5, <1>6 DEF RestoreIInv

\* While the backup is copied the database stays in place.
LEMMA CopyInv ==
  ASSUME RestoreIInv, Copy
  PROVE  RestoreIInv'
<1>1. RestoreTypeOK'
  BY DEF RestoreIInv, Copy, RestoreTypeOK
<1>2. Settled'
  BY DEF RestoreIInv, Copy, RestoreTypeOK, Settled
<1>3. Underway' /\ PuttingAway' /\ Installing' /\ Done'
  BY DEF RestoreIInv, Copy, RestoreTypeOK, Underway, PuttingAway, Installing, Done
<1>4. Archived'
  BY DEF RestoreIInv, Copy, RestoreTypeOK, Archived
<1>5. Process'
  BY DEF RestoreIInv, Copy, RestoreTypeOK, Process
<1>6. Generations' /\ OneDatabasePerGeneration'
  BY DEF RestoreIInv, Copy, RestoreTypeOK, Generations, OneDatabasePerGeneration
<1> QED BY <1>1, <1>2, <1>3, <1>4, <1>5, <1>6 DEF RestoreIInv

\* The copy is whole before anything is announced.
LEMMA CopiedInv ==
  ASSUME RestoreIInv, Copied
  PROVE  RestoreIInv'
<1>1. RestoreTypeOK'
  BY DEF RestoreIInv, Copied, RestoreTypeOK
<1>2. Settled'
  BY DEF RestoreIInv, Copied, RestoreTypeOK, Settled
<1>3. Underway' /\ PuttingAway' /\ Installing' /\ Done'
  BY DEF RestoreIInv, Copied, RestoreTypeOK, Underway, PuttingAway, Installing, Done, Process, Settled
<1>4. Archived'
  BY DEF RestoreIInv, Copied, RestoreTypeOK, Archived
<1>5. Process'
  BY DEF RestoreIInv, Copied, RestoreTypeOK, Process
<1>6. Generations' /\ OneDatabasePerGeneration'
  BY DEF RestoreIInv, Copied, RestoreTypeOK, Generations, OneDatabasePerGeneration
<1> QED BY <1>1, <1>2, <1>3, <1>4, <1>5, <1>6 DEF RestoreIInv

\* From the journal on, the staged copy is what is promised.
LEMMA AnnounceInv ==
  ASSUME RestoreIInv, Announce
  PROVE  RestoreIInv'
<1>0. source \in Restores /\ source = promised + 1 /\ staged = source
  BY DEF RestoreIInv, Announce, RestoreTypeOK, Process
<1>1. RestoreTypeOK'
  BY <1>0 DEF RestoreIInv, Announce, RestoreTypeOK
<1>2. Settled'
  BY <1>0 DEF RestoreIInv, Announce, RestoreTypeOK, Settled
<1>3. Underway' /\ PuttingAway' /\ Installing' /\ Done'
  BY <1>0 DEF RestoreIInv, Announce, RestoreTypeOK, Underway, PuttingAway, Installing, Done, Process, Settled, Archived
<1>4. Archived'
  BY <1>0 DEF RestoreIInv, Announce, RestoreTypeOK, Archived, Process, Settled
<1>5. Process'
  BY DEF RestoreIInv, Announce, RestoreTypeOK, Process
<1>6. Generations' /\ OneDatabasePerGeneration'
  BY DEF RestoreIInv, Announce, RestoreTypeOK, Generations, OneDatabasePerGeneration
<1> QED BY <1>1, <1>2, <1>3, <1>4, <1>5, <1>6 DEF RestoreIInv

\* A refused backup changes nothing.
LEMMA RefuseInv ==
  ASSUME RestoreIInv, Refuse
  PROVE  RestoreIInv'
<1>1. RestoreTypeOK'
  BY DEF RestoreIInv, Refuse, RestoreTypeOK
<1>2. Settled'
  BY DEF RestoreIInv, Refuse, RestoreTypeOK, Settled
<1>3. Underway' /\ PuttingAway' /\ Installing' /\ Done'
  BY DEF RestoreIInv, Refuse, RestoreTypeOK, Underway, PuttingAway, Installing, Done
<1>4. Archived'
  BY DEF RestoreIInv, Refuse, RestoreTypeOK, Archived
<1>5. Process'
  BY DEF RestoreIInv, Refuse, RestoreTypeOK, Process
<1>6. Generations' /\ OneDatabasePerGeneration'
  BY DEF RestoreIInv, Refuse, RestoreTypeOK, Generations, OneDatabasePerGeneration
<1> QED BY <1>1, <1>2, <1>3, <1>4, <1>5, <1>6 DEF RestoreIInv

\* Each file of the old database goes to the archive of this restore, also after an interruption.
LEMMA PutAwayInv ==
  ASSUME RestoreIInv, PutAway
  PROVE  RestoreIInv'
<1>1. RestoreTypeOK'
  BY DEF RestoreIInv, PutAway, InPhase, Movable, Free, RestoreTypeOK
<1>2. Settled'
  BY DEF RestoreIInv, PutAway, InPhase, Movable, Free, RestoreTypeOK, Settled
<1>3. Underway' /\ PuttingAway' /\ Installing' /\ Done'
  BY DEF RestoreIInv, PutAway, InPhase, Movable, Free, RestoreTypeOK, Underway, PuttingAway, Installing, Done
<1>4. Archived'
  <2>1. PICK part \in Movable : archive' = [archive EXCEPT ![pending.restore][part] = live[part]]
    BY DEF PutAway
  <2>2. pending' = pending /\ promised' = promised /\ logged' = logged /\ In("archive")
    BY DEF PutAway, InPhase
  <2>3. pending.restore = promised
    BY <2>2 DEF RestoreIInv, Underway
  <2>4. \A r \in Restores : r # promised => archive'[r] = archive[r]
    BY <2>1, <2>3 DEF RestoreIInv, RestoreTypeOK
  <2>5. promised \in 0..MaxRestores
    BY DEF RestoreIInv, RestoreTypeOK
  <2> QED
    BY <2>2, <2>4, <2>5 DEF RestoreIInv, Archived
<1>5. Process'
  BY DEF RestoreIInv, PutAway, InPhase, Movable, Free, RestoreTypeOK, Process
<1>6. Generations' /\ OneDatabasePerGeneration'
  BY DEF RestoreIInv, PutAway, InPhase, Movable, Free, RestoreTypeOK, Generations, OneDatabasePerGeneration
<1> QED BY <1>1, <1>2, <1>3, <1>4, <1>5, <1>6 DEF RestoreIInv

\* The phase moves on only when nothing of the old database is left.
LEMMA AllPutAwayInv ==
  ASSUME RestoreIInv, AllPutAway
  PROVE  RestoreIInv'
<1>1. RestoreTypeOK'
  BY DEF RestoreIInv, AllPutAway, InPhase, Movable, RestoreTypeOK
<1>2. Settled'
  BY DEF RestoreIInv, AllPutAway, InPhase, Movable, RestoreTypeOK, Settled
<1>3. Underway' /\ PuttingAway' /\ Installing' /\ Done'
  BY DEF RestoreIInv, AllPutAway, InPhase, Movable, RestoreTypeOK, Underway, PuttingAway, Installing, Done
<1>4. Archived'
  BY DEF RestoreIInv, AllPutAway, InPhase, Movable, RestoreTypeOK, Settled, Underway, PuttingAway, Installing, Done, Archived, Process
<1>5. Process'
  BY DEF RestoreIInv, AllPutAway, InPhase, Movable, RestoreTypeOK, Process
<1>6. Generations' /\ OneDatabasePerGeneration'
  BY DEF RestoreIInv, AllPutAway, InPhase, Movable, RestoreTypeOK, Generations, OneDatabasePerGeneration
<1> QED BY <1>1, <1>2, <1>3, <1>4, <1>5, <1>6 DEF RestoreIInv

\* The copy takes an empty place.
LEMMA InstallInv ==
  ASSUME RestoreIInv, Install
  PROVE  RestoreIInv'
<1>0. staged = promised
  BY DEF RestoreIInv, Install, InPhase, Installing
<1>1. RestoreTypeOK'
  BY <1>0, PromisedOpens DEF RestoreIInv, Install, RestoreTypeOK
<1>2. Settled'
  BY DEF RestoreIInv, Install, InPhase, RestoreTypeOK, Settled
<1>3. Underway' /\ PuttingAway' /\ Installing' /\ Done'
  BY DEF RestoreIInv, Install, InPhase, RestoreTypeOK, Underway, PuttingAway, Installing, Done
<1>4. Archived'
  BY DEF RestoreIInv, Install, InPhase, RestoreTypeOK, Archived
<1>5. Process'
  BY DEF RestoreIInv, Install, InPhase, RestoreTypeOK, Process
<1>6. Generations' /\ OneDatabasePerGeneration'
  BY DEF RestoreIInv, Install, InPhase, RestoreTypeOK, Generations, OneDatabasePerGeneration
<1> QED BY <1>1, <1>2, <1>3, <1>4, <1>5, <1>6 DEF RestoreIInv

\* The transaction's journal belongs to the installed database.
LEMMA StartSignOutInv ==
  ASSUME RestoreIInv, StartSignOut
  PROVE  RestoreIInv'
<1>1. RestoreTypeOK'
  BY DEF RestoreIInv, StartSignOut, InPhase, Verified, RestoreTypeOK
<1>2. Settled'
  BY DEF RestoreIInv, StartSignOut, InPhase, Verified, RestoreTypeOK, Settled
<1>3. Underway' /\ PuttingAway' /\ Installing' /\ Done'
  BY DEF RestoreIInv, StartSignOut, InPhase, Verified, RestoreTypeOK, Underway, PuttingAway, Installing, Done
<1>4. Archived'
  BY DEF RestoreIInv, StartSignOut, InPhase, Verified, RestoreTypeOK, Archived
<1>5. Process'
  BY DEF RestoreIInv, StartSignOut, InPhase, Verified, RestoreTypeOK, Settled, Underway, PuttingAway, Installing, Done, Archived, Process
<1>6. Generations' /\ OneDatabasePerGeneration'
  BY DEF RestoreIInv, StartSignOut, InPhase, Verified, RestoreTypeOK, Generations, OneDatabasePerGeneration
<1> QED BY <1>1, <1>2, <1>3, <1>4, <1>5, <1>6 DEF RestoreIInv

\* The commit removes the journal with the sign-ins.
LEMMA SignOutInv ==
  ASSUME RestoreIInv, SignOut
  PROVE  RestoreIInv'
<1>0. live["db"] = promised
  BY DEF RestoreIInv, SignOut, RestoreTypeOK, Process, Installing
<1>1. RestoreTypeOK'
  <2>1. signedOut' \subseteq Openable
    BY <1>0, PromisedOpens DEF RestoreIInv, SignOut, RestoreTypeOK
  <2>2. live' \in [Parts -> Openable \cup {None}]
    BY DEF RestoreIInv, SignOut, RestoreTypeOK
  <2> QED BY <2>1, <2>2 DEF RestoreIInv, SignOut, RestoreTypeOK
<1>2. Settled'
  BY DEF RestoreIInv, SignOut, RestoreTypeOK, Settled
<1>3. Underway' /\ PuttingAway' /\ Installing' /\ Done'
  BY DEF RestoreIInv, SignOut, RestoreTypeOK, Underway, PuttingAway, Installing, Done
<1>4. Archived'
  BY DEF RestoreIInv, SignOut, RestoreTypeOK, Archived
<1>5. Process'
  BY DEF RestoreIInv, SignOut, RestoreTypeOK, Settled, Underway, PuttingAway, Installing, Done, Archived, Process
<1>6. Generations' /\ OneDatabasePerGeneration'
  BY DEF RestoreIInv, SignOut, RestoreTypeOK, Generations, OneDatabasePerGeneration
<1> QED BY <1>1, <1>2, <1>3, <1>4, <1>5, <1>6 DEF RestoreIInv

\* The new generation has served nothing.
LEMMA RenewInv ==
  ASSUME RestoreIInv, Renew
  PROVE  RestoreIInv'
<1>1. RestoreTypeOK'
  <2>1. generation' \in Nat
    <3>1. generation \in Nat
      BY DEF RestoreIInv, RestoreTypeOK
    <3>2. generation' = generation + 1
      BY DEF Renew, NextGeneration
    <3> QED BY <3>1, <3>2
  <2>2. hub' \in {"down", "starting", "copying", "copied", "signing out", "signed out", "renewed", "serving"}
    BY DEF Renew
  <2>3. UNCHANGED <<source, live, staged, archive, pending, signedOut, promised, logged, served, crashes>>
    BY DEF Renew
  <2> QED BY <2>1, <2>2, <2>3 DEF RestoreIInv, RestoreTypeOK
<1>2. Settled'
  BY DEF RestoreIInv, Renew, NextGeneration, RestoreTypeOK, Settled, Process
<1>3. Underway' /\ PuttingAway' /\ Installing' /\ Done'
  BY DEF RestoreIInv, Renew, NextGeneration, RestoreTypeOK, Underway, PuttingAway, Installing, Done
<1>4. Archived'
  BY DEF RestoreIInv, Renew, NextGeneration, RestoreTypeOK, Archived
<1>5. Process'
  BY DEF RestoreIInv, Renew, NextGeneration, RestoreTypeOK, Process
<1>6. Generations' /\ OneDatabasePerGeneration'
  <2>1. \A q \in served : q[1] \in Nat /\ q[1] <= generation
    BY DEF RestoreIInv, RestoreTypeOK, Generations
  <2>2. generation \in Nat /\ generation' = generation + 1 /\ served' = served
    BY DEF RestoreIInv, Renew, NextGeneration, RestoreTypeOK
  <2>3. \A q \in served' : q[1] < generation'
    BY <2>1, <2>2
  <2> QED BY <2>1, <2>2, <2>3 DEF RestoreIInv, Generations, OneDatabasePerGeneration
<1> QED BY <1>1, <1>2, <1>3, <1>4, <1>5, <1>6 DEF RestoreIInv

\* The restore is done when signed out and renewed.
LEMMA FinishInv ==
  ASSUME RestoreIInv, Finish
  PROVE  RestoreIInv'
<1>1. RestoreTypeOK'
  BY DEF RestoreIInv, Finish, RestoreTypeOK, Process
<1>2. Settled'
  BY DEF RestoreIInv, Finish, RestoreTypeOK, Settled
<1>3. Underway' /\ PuttingAway' /\ Installing' /\ Done'
  BY DEF RestoreIInv, Finish, RestoreTypeOK, Underway, PuttingAway, Installing, Done, Process
<1>4. Archived'
  BY DEF RestoreIInv, Finish, RestoreTypeOK, Archived, Process
<1>5. Process'
  BY DEF RestoreIInv, Finish, RestoreTypeOK, Process
<1>6. Generations' /\ OneDatabasePerGeneration'
  BY DEF RestoreIInv, Finish, RestoreTypeOK, Generations, OneDatabasePerGeneration
<1> QED BY <1>1, <1>2, <1>3, <1>4, <1>5, <1>6 DEF RestoreIInv

\* What is forgotten was done.
LEMMA ForgetInv ==
  ASSUME RestoreIInv, Forget
  PROVE  RestoreIInv'
<1>1. RestoreTypeOK'
  BY DEF RestoreIInv, Forget, InPhase, RestoreTypeOK
<1>2. Settled'
  BY DEF RestoreIInv, Forget, InPhase, RestoreTypeOK, Settled, Done, Process, Underway, Generations
<1>3. Underway' /\ PuttingAway' /\ Installing' /\ Done'
  BY DEF RestoreIInv, Forget, InPhase, RestoreTypeOK, Underway, PuttingAway, Installing, Done
<1>4. Archived'
  BY DEF RestoreIInv, Forget, InPhase, RestoreTypeOK, Archived
<1>5. Process'
  BY DEF RestoreIInv, Forget, InPhase, RestoreTypeOK, Process
<1>6. Generations' /\ OneDatabasePerGeneration'
  BY DEF RestoreIInv, Forget, InPhase, RestoreTypeOK, Generations, OneDatabasePerGeneration
<1> QED BY <1>1, <1>2, <1>3, <1>4, <1>5, <1>6 DEF RestoreIInv

\* A start that gives up changes no file.
LEMMA GiveUpInv ==
  ASSUME RestoreIInv, GiveUp
  PROVE  RestoreIInv'
<1>1. RestoreTypeOK'
  BY DEF RestoreIInv, GiveUp, RestoreTypeOK
<1>2. Settled'
  BY DEF RestoreIInv, GiveUp, RestoreTypeOK, Settled
<1>3. Underway' /\ PuttingAway' /\ Installing' /\ Done'
  BY DEF RestoreIInv, GiveUp, RestoreTypeOK, Underway, PuttingAway, Installing, Done
<1>4. Archived'
  BY DEF RestoreIInv, GiveUp, RestoreTypeOK, Archived
<1>5. Process'
  BY DEF RestoreIInv, GiveUp, RestoreTypeOK, Process
<1>6. Generations' /\ OneDatabasePerGeneration'
  BY DEF RestoreIInv, GiveUp, RestoreTypeOK, Generations, OneDatabasePerGeneration
<1> QED BY <1>1, <1>2, <1>3, <1>4, <1>5, <1>6 DEF RestoreIInv

\* Serving opens the promised database under a generation of its own.
LEMMA ServeInv ==
  ASSUME RestoreIInv, Serve
  PROVE  RestoreIInv'
<1>0. /\ pending = None  /\ live["db"] = promised  /\ promised # None
      /\ live["wal"] = None \/ live["wal"] = promised
  BY DEF RestoreIInv, RestoreTypeOK, Serve, MayServe, Settled
<1>a. /\ hub = "starting"  /\ source = None  /\ hub' = "serving"
      /\ live' = [live EXCEPT !["wal"] = promised, !["journal"] = None]
      /\ logged' = logged \cup {promised}
      /\ served' = served \cup {<<generation, promised>>}
      /\ UNCHANGED <<source, staged, archive, pending, signedOut, generation, promised, crashes>>
  BY <1>0 DEF Serve, MayServe, RestoreIInv, RestoreTypeOK
<1>1. RestoreTypeOK'
  BY <1>a, PromisedOpens DEF RestoreIInv, RestoreTypeOK
<1>2. Settled'
  BY <1>0, <1>a DEF RestoreIInv, RestoreTypeOK, Settled
<1>3. Underway' /\ PuttingAway' /\ Installing' /\ Done'
  BY <1>0, <1>a DEF RestoreIInv, RestoreTypeOK, Underway, PuttingAway, Installing, Done
<1>4. Archived'
  BY <1>0, <1>a DEF RestoreIInv, RestoreTypeOK, Archived
<1>5. Process'
  BY <1>0, <1>a DEF RestoreIInv, RestoreTypeOK, Process
<1>6. Generations' /\ OneDatabasePerGeneration'
  <2>1. \A q \in served : q[1] = generation => q[2] = promised
    BY <1>0 DEF RestoreIInv, Settled
  <2>2. \A q \in served' : q \in served \/ (q[1] = generation /\ q[2] = promised)
    BY <1>a
  <2>3. OneDatabasePerGeneration'
    <3> SUFFICES ASSUME NEW p \in served', NEW q \in served', p[1] = q[1]
                 PROVE  p[2] = q[2]
      BY DEF OneDatabasePerGeneration
    <3> QED BY <2>1, <2>2 DEF RestoreIInv, OneDatabasePerGeneration
  <2>4. Generations'
    BY <1>0, <1>a, <2>2 DEF RestoreIInv, RestoreTypeOK, Generations
  <2> QED BY <2>3, <2>4
<1> QED BY <1>1, <1>2, <1>3, <1>4, <1>5, <1>6 DEF RestoreIInv

\* A clean end folds the log into the database.
LEMMA StopInv ==
  ASSUME RestoreIInv, Stop
  PROVE  RestoreIInv'
<1>1. RestoreTypeOK'
  BY DEF RestoreIInv, Stop, RestoreTypeOK
<1>2. Settled'
  BY DEF RestoreIInv, Stop, RestoreTypeOK, Settled
<1>3. Underway' /\ PuttingAway' /\ Installing' /\ Done'
  BY DEF RestoreIInv, Stop, RestoreTypeOK, Underway, PuttingAway, Installing, Done, Process, Settled
<1>4. Archived'
  BY DEF RestoreIInv, Stop, RestoreTypeOK, Archived
<1>5. Process'
  BY DEF RestoreIInv, Stop, RestoreTypeOK, Process
<1>6. Generations' /\ OneDatabasePerGeneration'
  BY DEF RestoreIInv, Stop, RestoreTypeOK, Generations, OneDatabasePerGeneration
<1> QED BY <1>1, <1>2, <1>3, <1>4, <1>5, <1>6 DEF RestoreIInv

\* A crash changes no file.
LEMMA CrashInv ==
  ASSUME RestoreIInv, Crash
  PROVE  RestoreIInv'
<1>1. RestoreTypeOK'
  <2>1. crashes' \in Nat
    <3>1. crashes \in Nat
      BY DEF RestoreIInv, RestoreTypeOK
    <3> QED BY <3>1 DEF Crash
  <2>2. hub' \in {"down", "starting", "copying", "copied", "signing out", "signed out", "renewed", "serving"} /\ source' = None
    BY DEF Crash
  <2>3. UNCHANGED <<live, staged, archive, pending, signedOut, generation, promised, logged, served>>
    BY DEF Crash
  <2> QED BY <2>1, <2>2, <2>3 DEF RestoreIInv, RestoreTypeOK
<1>2. Settled'
  BY DEF RestoreIInv, Crash, RestoreTypeOK, Settled
<1>3. Underway' /\ PuttingAway' /\ Installing' /\ Done'
  BY DEF RestoreIInv, Crash, RestoreTypeOK, Underway, PuttingAway, Installing, Done
<1>4. Archived'
  BY DEF RestoreIInv, Crash, RestoreTypeOK, Archived
<1>5. Process'
  BY DEF RestoreIInv, Crash, RestoreTypeOK, Process
<1>6. Generations' /\ OneDatabasePerGeneration'
  BY DEF RestoreIInv, Crash, RestoreTypeOK, Generations, OneDatabasePerGeneration
<1> QED BY <1>1, <1>2, <1>3, <1>4, <1>5, <1>6 DEF RestoreIInv

\* The strengthened invariant holds from start to start.
THEOREM RestoreInvariant == RestoreSpec => []RestoreIInv
<1>1. RestoreInit => RestoreIInv
  BY RestoreInitInv
<1>2. RestoreIInv /\ [RestoreNext]_restoreVars => RestoreIInv'
  <2> SUFFICES ASSUME RestoreIInv, [RestoreNext]_restoreVars PROVE RestoreIInv'
    OBVIOUS
  <2>1. CASE Begin
    BY <2>1, LaunchInv DEF Begin
  <2>2. CASE Copy \/ Copied \/ Announce
    BY <2>2, CopyInv, CopiedInv, AnnounceInv
  <2>3. CASE PutAway \/ AllPutAway \/ Install
    BY <2>3, PutAwayInv, AllPutAwayInv, InstallInv
  <2>4. CASE StartSignOut \/ SignOut \/ Renew \/ Finish \/ Forget
    BY <2>4, StartSignOutInv, SignOutInv, RenewInv, FinishInv, ForgetInv
  <2>5. CASE Refuse \/ GiveUp
    BY <2>5, RefuseInv, GiveUpInv
  <2>6. CASE Serve \/ Stop \/ Crash
    BY <2>6, ServeInv, StopInv, CrashInv
  <2>7. CASE UNCHANGED restoreVars
    <3>1. RestoreTypeOK'
      BY <2>7 DEF restoreVars, RestoreIInv, RestoreTypeOK
    <3>2. Settled' /\ Underway' /\ PuttingAway' /\ Installing' /\ Done'
      BY <2>7 DEF restoreVars, RestoreIInv, Settled, Underway, PuttingAway, Installing, Done
    <3>3. Archived' /\ Process' /\ Generations' /\ OneDatabasePerGeneration'
      BY <2>7 DEF restoreVars, RestoreIInv, Archived, Process, Generations, OneDatabasePerGeneration
    <3> QED BY <3>1, <3>2, <3>3 DEF RestoreIInv
  <2> QED BY <2>1, <2>2, <2>3, <2>4, <2>5, <2>6, <2>7 DEF RestoreNext, RestoreStep
<1> QED BY <1>1, <1>2, PTL DEF RestoreSpec

\* No database, and nothing written in its log, is lost or mixed with another's.
THEOREM NothingIsLost == RestoreSpec => []NothingLost
<1>1. RestoreIInv => NothingLost
  <2> SUFFICES ASSUME RestoreIInv PROVE NothingLost
    OBVIOUS
  <2>1. live["db"] # None => \A part \in Parts : live[part] \in {None, live["db"]}
    BY DEF RestoreIInv, RestoreTypeOK, Settled, PuttingAway, Installing, Done
  <2>2. ASSUME NEW d \in logged
        PROVE  \/ live["db"] = d /\ live["wal"] = d
               \/ \E r \in Restores :
                     /\ archive[r]["db"] = d
                     /\ \/ archive[r]["wal"] = d
                        \/ live["db"] = None /\ live["wal"] = d /\ pending = [restore |-> r, phase |-> "archive"]
    <3>1. CASE d = promised
      BY <2>2, <3>1 DEF RestoreIInv, RestoreTypeOK, Settled, Underway
    <3>2. CASE d # promised /\ ~(In("archive") /\ d = Old)
      <4>1. promised \in 0..MaxRestores /\ d \in 0..promised
        BY <2>2 DEF RestoreIInv, RestoreTypeOK, Archived
      <4> DEFINE r == d + 1
      <4>2. r \in 1..promised /\ r \in Restores /\ r - 1 = d /\ (r # promised \/ ~In("archive"))
        BY <3>2, <4>1
      <4>3. archive[r]["db"] = d /\ archive[r]["wal"] = d
        <5> HIDE DEF r
        <5> QED BY <2>2, <4>2 DEF RestoreIInv, Archived
      <4> QED BY <4>2, <4>3
    <3>3. CASE In("archive") /\ d = Old
      <4>1. promised \in Restores /\ pending = [restore |-> promised, phase |-> "archive"]
        BY <3>3 DEF RestoreIInv, RestoreTypeOK, Underway
      <4> QED BY <2>2, <3>3, <4>1 DEF RestoreIInv, RestoreTypeOK, PuttingAway
    <3> QED BY <3>1, <3>2, <3>3
  <2>3. ASSUME NEW d \in 0..promised
        PROVE  \/ live["db"] = d
               \/ \E r \in Restores : archive[r]["db"] = d
               \/ staged = d /\ pending # None /\ pending.phase # "done"
    <3>1. CASE d = promised
      BY <3>1 DEF RestoreIInv, RestoreTypeOK, Settled, PuttingAway, Installing, Done
    <3>2. CASE d # promised
      <4>1. promised \in 0..MaxRestores
        BY DEF RestoreIInv, RestoreTypeOK
      <4> DEFINE r == d + 1
      <4>2. r \in 1..promised /\ r \in Restores /\ r - 1 = d /\ (r = promised => d = Old)
        BY <2>3, <3>2, <4>1
      <4>3. (r # promised \/ ~In("archive")) => archive[r]["db"] = d
        <5> HIDE DEF r
        <5> QED BY <4>2 DEF RestoreIInv, Archived
      <4>4. r = promised /\ In("archive") => live["db"] = d \/ archive[r]["db"] = d
        <5> HIDE DEF r
        <5> QED BY <4>2 DEF RestoreIInv, PuttingAway
      <4> QED BY <4>2, <4>3, <4>4
    <3> QED BY <3>1, <3>2
  <2> QED BY <2>1, <2>2, <2>3 DEF NothingLost
<1> QED BY <1>1, RestoreInvariant, PTL

\* A hub that takes orders serves the database staff were promised, with no sign-in of the backup left.
THEOREM ServesThePromised == RestoreSpec => []ServesWhatWasPromised
<1>1. RestoreIInv => ServesWhatWasPromised
  BY DEF RestoreIInv, Process, Settled, ServesWhatWasPromised
<1> QED BY <1>1, RestoreInvariant, PTL

\* A generation names one database, for any number of restores and crashes.
THEOREM GenerationsAreDistinct == RestoreSpec => []OneDatabasePerGeneration
<1>1. RestoreIInv => OneDatabasePerGeneration
  BY DEF RestoreIInv
<1> QED BY <1>1, RestoreInvariant, PTL

-----------------------------------------------------------------------------
(* The whole data folder                                                   *)

\* Every step of the hub is a step of Restore or leaves its files alone.
LEMMA HubStep == [Next]_vars => [RestoreNext]_restoreVars
<1> SUFFICES ASSUME [Next]_vars PROVE [RestoreNext]_restoreVars
  OBVIOUS
<1>1. CASE Start /\ UNCHANGED cloudVars
  BY <1>1 DEF Start, RestoreNext
<1>2. CASE Open
  BY <1>2 DEF Open, RestoreNext
<1>3. CASE End
  BY <1>3 DEF End, RestoreNext
<1>4. CASE hub = "serving" /\ CloudNext /\ UNCHANGED restoreVars
  BY <1>4
<1>5. CASE UNCHANGED vars
  BY <1>5 DEF vars
<1> QED BY <1>1, <1>2, <1>3, <1>4, <1>5 DEF Next

\* The hub with its upload worker implements Restore, fairness included.
THEOREM HubImplementsRestore == Spec => RestoreSpec
BY HubStep, PTL DEF Spec, Init, Fairness, RestoreSpec

\* So no database is lost, whatever else goes on in the data folder.
THEOREM HubLosesNothing == Spec => []NothingLost
BY HubImplementsRestore, NothingIsLost, PTL

-----------------------------------------------------------------------------
(* The queue of uploads is a sequence, of which entries are taken out.     *)

\* Every set of naturals has a least one.
LEMMA LeastNatural ==
    ASSUME NEW S \in SUBSET Nat, S # {}
    PROVE  \E n \in S : \A m \in S : n <= m
<1> DEFINE R == {p \in Nat \X Nat : p[1] < p[2]}
<1>1. R = OpToRel(<, Nat)
  BY DEF OpToRel
<1>2. IsWellFoundedOn(R, Nat)
  BY <1>1, NatLessThanWellFounded
<1>3. \A m, n \in Nat : m < n => <<m, n>> \in R
  OBVIOUS
<1> HIDE DEF R
<1>4. \E n \in S : \A m \in S : ~ (<<m, n>> \in R)
  BY <1>2, WFMin
<1>5. PICK n \in S : \A m \in S : ~ (<<m, n>> \in R)
  BY <1>4
<1>6. ASSUME NEW m \in S PROVE n <= m
  <2>1. m \in Nat /\ n \in Nat
    OBVIOUS
  <2>2. ~ (m < n)
    BY <1>3, <1>5, <2>1
  <2> QED
    BY <2>1, <2>2
<1> QED
  BY <1>6

\* Picking entries one position after another defines a sequence for every number of positions.
PicksUpTo(entries, positions, n, upTo) ==
    upTo = [k \in 0..n |->
              IF k = 0 THEN <<>>
              ELSE IF k \in positions THEN Append(upTo[k - 1], entries[k]) ELSE upTo[k - 1]]

LEMMA PicksExist ==
    ASSUME NEW entries, NEW positions, NEW n \in Nat
    PROVE  \E upTo : PicksUpTo(entries, positions, n, upTo)
<1> DEFINE Missing == {m \in Nat : ~ \E upTo : PicksUpTo(entries, positions, m, upTo)}
<1> SUFFICES ASSUME Missing # {} PROVE FALSE
  OBVIOUS
<1>1. PICK m \in Missing : \A k \in Missing : m <= k
  BY LeastNatural
<1>2. CASE m = 0
  <2> DEFINE none == [k \in 0..0 |-> <<>>]
  <2>1. PicksUpTo(entries, positions, 0, none)
    BY DEF PicksUpTo
  <2> QED
    BY <1>2, <2>1
<1>3. CASE m # 0
  <2>1. m \in Nat /\ m - 1 \in Nat /\ ~ (m <= m - 1)
    BY <1>3
  <2>2. m - 1 \notin Missing
    BY <1>1, <2>1
  <2>3. PICK before : PicksUpTo(entries, positions, m - 1, before)
    BY <2>1, <2>2
  <2> DEFINE last == IF m \in positions THEN Append(before[m - 1], entries[m]) ELSE before[m - 1]
             all == [k \in 0..m |-> IF k = m THEN last ELSE before[k]]
  <2>4. ASSUME NEW k \in 0..m
        PROVE  all[k] = IF k = 0 THEN <<>>
                        ELSE IF k \in positions THEN Append(all[k - 1], entries[k]) ELSE all[k - 1]
    <3>1. CASE k = m
      <4>1. all[k - 1] = before[m - 1]
        BY <2>1, <3>1
      <4>2. all[k] = last
        BY <3>1
      <4> QED
        BY <1>3, <3>1, <4>1, <4>2
    <3>2. CASE k # m
      <4>1. k \in 0..(m - 1)
        BY <2>1, <3>2
      <4>2. before[k] = IF k = 0 THEN <<>>
                        ELSE IF k \in positions THEN Append(before[k - 1], entries[k]) ELSE before[k - 1]
        BY <2>3, <4>1 DEF PicksUpTo
      <4>3. all[k] = before[k]
        BY <3>2
      <4>4. k # 0 => all[k - 1] = before[k - 1]
        BY <2>1, <3>2, <4>1
      <4> QED
        BY <4>2, <4>3, <4>4
    <3> QED
      BY <3>1, <3>2
  <2> HIDE DEF last
  <2>5. PicksUpTo(entries, positions, m, all)
    BY <2>4 DEF PicksUpTo
  <2> QED
    BY <2>5
<1> QED
  BY <1>2, <1>3

\* What is picked from a sequence is a sequence of its entries.
LEMMA EntriesAtIsASeq ==
    ASSUME NEW S, NEW entries \in Seq(S), NEW positions
    PROVE  EntriesAt(entries, positions) \in Seq(S)
<1> DEFINE n == Len(entries)
           upTo == CHOOSE f : PicksUpTo(entries, positions, n, f)
<1>1. n \in Nat
  OBVIOUS
<1>2. PicksUpTo(entries, positions, n, upTo)
  BY <1>1, PicksExist
<1>3. EntriesAt(entries, positions) = upTo[n]
  BY DEF EntriesAt, PicksUpTo
<1> HIDE DEF upTo
<1> DEFINE Bad == {k \in 0..n : upTo[k] \notin Seq(S)}
<1>4. Bad = {}
  <2> SUFFICES ASSUME Bad # {} PROVE FALSE
    OBVIOUS
  <2>1. Bad \in SUBSET Nat
    BY <1>1
  <2>2. PICK k \in Bad : \A j \in Bad : k <= j
    BY <2>1, LeastNatural
  <2>3. k \in 0..n /\ upTo[k] \notin Seq(S)
    OBVIOUS
  <2>4. upTo[k] = IF k = 0 THEN <<>>
                  ELSE IF k \in positions THEN Append(upTo[k - 1], entries[k]) ELSE upTo[k - 1]
    BY <1>2, <2>3 DEF PicksUpTo
  <2>5. k # 0
    BY <2>3, <2>4
  <2>6. k - 1 \in 0..n /\ ~ (k <= k - 1)
    BY <1>1, <2>3, <2>5
  <2>7. upTo[k - 1] \in Seq(S)
    BY <2>2, <2>6
  <2>8. entries[k] \in S
    BY <1>1, <2>3, <2>5
  <2> QED
    BY <2>3, <2>4, <2>5, <2>7, <2>8
<1> QED
  BY <1>1, <1>3, <1>4

-----------------------------------------------------------------------------
(* The account of the uploads *)

\* Entries of one account; there are none of no account.
EntriesOf(account) == [name : Snapshots, account : {account} \cap Accounts, attempts : Int, rest : Int]

\* The queue is one account's, and while the worker sends or prunes its account is linked.
CloudInv ==
    /\ disk \subseteq Snapshots  /\ IsFiniteSet(disk)
    /\ drive \in Accounts \cup {NoAccount}
    /\ queue \in Seq(EntriesOf(owner))
    /\ worker = [at |-> worker.at, account |-> worker.account, name |-> worker.name]
    /\ worker.at \in {"sending", "pruning"} => drive \in Accounts /\ drive = worker.account

\* A finite set in some order is a sequence of its elements.
LEMMA SetToSeqIsASeq ==
    ASSUME NEW S, IsFiniteSet(S)
    PROVE  SetToSeq(S) \in Seq(S)
<1>1. Cardinality(S) \in Nat /\ \E f \in [1..Cardinality(S) -> S] : IsInjective(f)
  BY FS_CardinalityType DEF ExistsBijection, Bijection, Injection
<1>2. SetToSeq(S) \in [1..Cardinality(S) -> S]
  BY <1>1 DEF SetToSeq
<1> QED
  BY <1>1, <1>2

\* The snapshots that enter the queue enter it for the linked account.
LEMMA AddedEntries ==
    ASSUME drive \in Accounts, NEW names, names \subseteq Snapshots, IsFiniteSet(names)
    PROVE  SetToSeq({Entry(n) : n \in names}) \in Seq(EntriesOf(drive))
<1> DEFINE new == {Entry(n) : n \in names}
           enter == [n \in names |-> Entry(n)]
<1>1. enter \in Surjection(names, new)
  BY DEF Surjection
<1>2. IsFiniteSet(new)
  BY <1>1, FS_Surjection
<1>3. new \subseteq EntriesOf(drive)
  BY DEF Entry, EntriesOf
<1> HIDE DEF new
<1>4. SetToSeq(new) \in Seq(new)
  BY <1>2, SetToSeqIsASeq
<1> QED
  BY <1>3, <1>4 DEF new

\* Two queues of one account in a row, of which the first may be empty for want of an owner.
LEMMA QueuedForDrive ==
    ASSUME CloudAssumption, CloudInv, Ready, NEW added \in Seq(EntriesOf(drive))
    PROVE  /\ queue \in Seq(EntriesOf(drive))
           /\ queue \o added \in Seq(EntriesOf(drive))
<1>1. queue \in Seq(EntriesOf(drive))
  <2>1. CASE owner = drive
    BY <2>1 DEF CloudInv
  <2>2. CASE owner = NoAccount
    <3>1. EntriesOf(owner) = {}
      BY <2>2 DEF EntriesOf, CloudAssumption
    <3>2. queue = <<>>
      <4>1. queue \in Seq({})
        BY <3>1 DEF CloudInv
      <4> QED
        BY <4>1
    <3> QED
      BY <3>2
  <2> QED
    BY <2>1, <2>2 DEF Ready
<1> QED
  BY <1>1

\* What the worker takes next it takes for the account it was given, and it leaves that account's queue.
LEMMA TakesForAccount ==
    ASSUME NEW account, NEW owned, NEW entries \in Seq(EntriesOf(owned)), TakeNext(entries, account)
    PROVE  /\ queue' \in Seq(EntriesOf(owned))
           /\ worker' = [at |-> worker'.at, account |-> worker'.account, name |-> worker'.name]
           /\ worker'.at \in {"idle", "sending"}
           /\ worker'.at = "sending" => worker'.account = account
<1>1. PICK positions : queue' = EntriesAt(entries, positions)
  BY DEF TakeNext, Present
<1>2. queue' \in Seq(EntriesOf(owned))
  BY <1>1, EntriesAtIsASeq
<1>3. \/ worker' = Idle
      \/ \E name : worker' = [at |-> "sending", account |-> account, name |-> name]
  BY DEF TakeNext
<1> QED
  BY <1>2, <1>3 DEF Idle

\* A snapshot is one, and a finite set of snapshots stays finite with it.
LEMMA BackupsStayFinite ==
    ASSUME CloudInv, NEW name \in Snapshots, NEW gone, disk' = (disk \ gone) \cup {name}
    PROVE  disk' \subseteq Snapshots /\ IsFiniteSet(disk')
<1>1. IsFiniteSet(disk \ gone)
  BY FS_Difference DEF CloudInv
<1>2. IsFiniteSet(disk')
  BY <1>1, FS_AddElement
<1> QED
  BY <1>2 DEF CloudInv

\* An entry may change in its place, for the account it is of.
LEMMA EntriesMayChange ==
    ASSUME CloudInv, NEW changed, changed = [i \in DOMAIN queue |-> changed[i]],
           \A i \in DOMAIN queue : queue[i] \in EntriesOf(owner) => changed[i] \in EntriesOf(owner)
    PROVE  changed \in Seq(EntriesOf(owner))
<1>1. Len(queue) \in Nat /\ DOMAIN queue = 1..Len(queue)
  BY DEF CloudInv
<1>2. \A i \in DOMAIN queue : queue[i] \in EntriesOf(owner)
  BY DEF CloudInv
<1> QED
  BY <1>1, <1>2

LEMMA RestedQueue == CloudInv => Rested \in Seq(EntriesOf(owner))
<1>1. \A i \in DOMAIN queue : queue[i] \in EntriesOf(owner) => Rested[i] \in EntriesOf(owner)
  BY DEF EntriesOf, Rested
<1>2. Rested = [i \in DOMAIN queue |-> Rested[i]]
  BY DEF Rested
<1> QED
  BY <1>1, <1>2, EntriesMayChange

LEMMA BegunWorker ==
    ASSUME CloudInv, worker' \in {worker, Begun, Idle}
    PROVE  /\ worker' = [at |-> worker'.at, account |-> worker'.account, name |-> worker'.name]
           /\ worker'.at \in {"sending", "pruning"} => worker' = worker
<1>1. Begun = worker \/ Begun = [at |-> "begun", account |-> NoAccount, name |-> NoAccount]
  BY DEF Begun, Idle
<1>2. worker' = worker \/ worker' = Idle \/ worker' = [at |-> "begun", account |-> NoAccount, name |-> NoAccount]
  BY <1>1
<1> QED
  BY <1>2 DEF CloudInv, Idle

LEMMA BackupInv ==
    ASSUME CloudAssumption, CloudInv, NEW name \in Snapshots, NEW now \in BOOLEAN, Backup(name, now)
    PROVE  CloudInv'
<1>1. PICK gone : disk' = (disk \ gone) \cup {name}
  BY DEF Backup
<1>2. disk' \subseteq Snapshots /\ IsFiniteSet(disk')
  BY <1>1, BackupsStayFinite
<1>3. queue' \in Seq(EntriesOf(owner'))
  <2>1. CASE Ready /\ (automatic \/ now)
    <3> DEFINE added == SetToSeq({Entry(n) : n \in Wanted({name})})
    <3>1. drive \in Accounts
      BY <2>1 DEF Ready, CloudInv
    <3>2. Wanted({name}) \subseteq {name} /\ IsFiniteSet({name})
      BY FS_Singleton DEF Wanted
    <3>3. Wanted({name}) \subseteq Snapshots /\ IsFiniteSet(Wanted({name}))
      BY <3>2, FS_Subset
    <3>4. added \in Seq(EntriesOf(drive))
      BY <3>1, <3>3, AddedEntries
    <3>5. queue' = queue \o added
      BY <2>1 DEF Backup, Enqueue
    <3>6. CASE Wanted({name}) = {}
      <4>1. {Entry(n) : n \in Wanted({name})} = {}
        BY <3>6
      <4>2. added \in Seq({})
        BY <4>1, SetToSeqIsASeq, FS_EmptySet
      <4>3. added = <<>>
        BY <4>2
      <4> HIDE DEF added
      <4>4. queue' = queue
        BY <3>5, <4>3 DEF CloudInv
      <4>5. owner' = owner
        BY <2>1, <3>6 DEF Backup, Enqueue
      <4> QED
        BY <4>4, <4>5 DEF CloudInv
    <3>7. CASE Wanted({name}) # {}
      <4>1. owner' = drive
        BY <2>1, <3>7 DEF Backup, Enqueue
      <4> HIDE DEF added
      <4> QED
        BY <2>1, <3>4, <3>5, <4>1, QueuedForDrive
    <3> QED
      BY <3>6, <3>7
  <2>2. CASE ~ (Ready /\ (automatic \/ now))
    BY <2>2 DEF Backup, CloudInv
  <2> QED
    BY <2>1, <2>2
<1>4. worker' \in {worker, Begun} /\ drive' = drive
  BY DEF Backup
<1> QED
  BY <1>2, <1>3, <1>4, BegunWorker DEF CloudInv

LEMMA BackupAtUpdateInv ==
    ASSUME CloudInv, NEW name \in Snapshots, BackupAtUpdate(name)
    PROVE  CloudInv'
<1>1. PICK gone : disk' = (disk \ gone) \cup {name}
  BY DEF BackupAtUpdate
<1>2. disk' \subseteq Snapshots /\ IsFiniteSet(disk')
  BY <1>1, BackupsStayFinite
<1> QED
  BY <1>2 DEF CloudInv, BackupAtUpdate

LEMMA ScreensInv ==
    ASSUME CloudAssumption, CloudInv,
           \/ SetAutomatic \/ CredentialRefused \/ Retry
           \/ \E account \in Accounts : SignIn(account)
           \/ \E c \in Disconnects : Disconnect(c) \/ Unlink(c) \/ Disconnected(c)
    PROVE  CloudInv'
<1>1. CASE SetAutomatic \/ CredentialRefused
  BY <1>1 DEF SetAutomatic, CredentialRefused, CloudInv
<1>2. CASE Retry
  <2>1. queue' \in Seq(EntriesOf(owner)) /\ owner' = owner
    BY <1>2, RestedQueue DEF Retry
  <2>2. worker' \in {worker, Begun} /\ drive' = drive /\ disk' = disk
    BY <1>2 DEF Retry
  <2> QED
    BY <2>1, <2>2, BegunWorker DEF CloudInv
<1>3. CASE \E account \in Accounts : SignIn(account)
  BY <1>3 DEF SignIn, MayLink, CloudInv, CloudAssumption
<1>4. CASE \E c \in Disconnects : Disconnect(c)
  BY <1>4 DEF Disconnect, CloudInv
<1>5. CASE \E c \in Disconnects : Unlink(c)
  BY <1>5 DEF Unlink, WorkerDone, Idle, CloudInv
<1>6. CASE \E c \in Disconnects : Disconnected(c)
  <2>1. queue' \in Seq(EntriesOf(owner'))
    BY <1>6 DEF Disconnected
  <2> QED
    BY <1>6, <2>1 DEF Disconnected, CloudInv
<1> QED
  BY <1>1, <1>2, <1>3, <1>4, <1>5, <1>6

LEMMA MinuteInv == ASSUME CloudInv, Minute PROVE CloudInv'
<1> DEFINE less == [i \in DOMAIN queue |-> [queue[i] EXCEPT !.rest = IF @ = 0 THEN 0 ELSE @ - 1]]
<1>1. \A i \in DOMAIN queue : queue[i] \in EntriesOf(owner) => less[i] \in EntriesOf(owner)
  BY DEF EntriesOf
<1>2. less = [i \in DOMAIN queue |-> less[i]]
  OBVIOUS
<1>3. queue' = less /\ owner' = owner
  BY DEF Minute
<1> HIDE DEF less
<1>4. queue' \in Seq(EntriesOf(owner'))
  BY <1>1, <1>2, <1>3, EntriesMayChange
<1>5. worker' \in {worker, Begun} /\ drive' = drive /\ disk' = disk
  BY DEF Minute
<1> QED
  BY <1>4, <1>5, BegunWorker DEF CloudInv

LEMMA ContinueInv == ASSUME CloudAssumption, CloudInv, Continue PROVE CloudInv'
<1>1. disk' = disk /\ drive' = drive
  BY DEF Continue
<1>2. CASE ~Ready
  <2>1. worker' = Idle /\ queue' = queue /\ owner' = owner
    BY <1>2 DEF Continue
  <2> QED
    BY <1>1, <2>1, BegunWorker DEF CloudInv, Idle
<1>3. CASE Ready
  <2> DEFINE names == IF automatic THEN Wanted(disk) ELSE {}
             added == SetToSeq({Entry(n) : n \in names})
  <2>1. drive \in Accounts
    BY <1>3 DEF Ready, CloudInv
  <2>2. names \subseteq disk
    BY DEF Wanted
  <2>3. names \subseteq Snapshots /\ IsFiniteSet(names)
    BY <2>2, FS_Subset DEF CloudInv
  <2>4. added \in Seq(EntriesOf(drive))
    BY <2>1, <2>3, AddedEntries
  <2>5. /\ owner' = IF added = <<>> THEN owner ELSE drive
        /\ TakeNext(queue \o added, drive)
    BY <1>3 DEF Continue
  <2> HIDE DEF added, names
  <2>6. queue \o added \in Seq(EntriesOf(owner'))
    <3>1. CASE added = <<>>
      BY <2>5, <3>1 DEF CloudInv
    <3>2. CASE added # <<>>
      BY <1>3, <2>4, <2>5, <3>2, QueuedForDrive
    <3> QED
      BY <3>1, <3>2
  <2>7. /\ queue' \in Seq(EntriesOf(owner'))
        /\ worker' = [at |-> worker'.at, account |-> worker'.account, name |-> worker'.name]
        /\ worker'.at \in {"idle", "sending"}
        /\ worker'.at = "sending" => worker'.account = drive
    BY <2>5, <2>6, TakesForAccount
  <2> QED
    BY <1>1, <2>1, <2>7 DEF CloudInv
<1> QED
  BY <1>2, <1>3

LEMMA ConfirmInv == ASSUME CloudInv, Confirm PROVE CloudInv'
<1>1. PICK positions : queue' = EntriesAt(queue, positions)
  BY DEF Confirm
<1>2. queue' \in Seq(EntriesOf(owner))
  BY <1>1, EntriesAtIsASeq DEF CloudInv
<1>3. worker' = [worker EXCEPT !.at = "pruning"] /\ worker.at = "sending"
  BY DEF Confirm
<1>4. /\ worker' = [at |-> worker'.at, account |-> worker'.account, name |-> worker'.name]
      /\ worker'.account = worker.account
  BY <1>3 DEF CloudInv
<1>5. disk' = disk /\ drive' = drive /\ owner' = owner
  BY DEF Confirm
<1> QED
  BY <1>2, <1>3, <1>4, <1>5 DEF CloudInv

LEMMA FailInv == ASSUME CloudAssumption, CloudInv, Fail PROVE CloudInv'
<1>1. \A n \in Int : RestAfter(n) \in Int
  BY DEF RestAfter, CloudAssumption
<1>2. ASSUME NEW i \in DOMAIN queue, queue[i] \in EntriesOf(owner)
      PROVE  queue'[i] \in EntriesOf(owner)
  <2>1. MaxRest \in Int /\ queue[i].attempts \in Int
    BY <1>2 DEF CloudAssumption, EntriesOf
  <2>2. PICK attempts, rest :
           /\ attempts = IF queue[i].attempts = MaxRest THEN queue[i].attempts ELSE queue[i].attempts + 1
           /\ rest = RestAfter(IF queue[i].attempts = MaxRest THEN MaxRest ELSE queue[i].attempts + 1)
    OBVIOUS
  <2>3. attempts \in Int
    BY <2>1, <2>2
  <2>4. rest \in Int
    BY <1>1, <2>1, <2>2
  <2>5. queue'[i] = IF ~Sending(queue[i]) THEN queue[i]
                    ELSE [queue[i] EXCEPT !.attempts = attempts, !.rest = rest]
    BY <2>2 DEF Fail
  <2>6. [queue[i] EXCEPT !.attempts = attempts, !.rest = rest] \in EntriesOf(owner)
    BY <1>2, <2>3, <2>4 DEF EntriesOf
  <2> QED
    BY <1>2, <2>5, <2>6
<1>3. queue' = [i \in DOMAIN queue |-> queue'[i]]
  BY DEF Fail
<1>4. queue' \in Seq(EntriesOf(owner))
  BY <1>2, <1>3, EntriesMayChange
<1>5. worker' = Idle /\ disk' = disk /\ drive' = drive /\ owner' = owner
  BY DEF Fail
<1> QED
  BY <1>4, <1>5 DEF CloudInv, Idle

LEMMA PrunedInv == ASSUME CloudInv, Pruned PROVE CloudInv'
<1>1. disk' = disk /\ drive' = drive /\ owner' = owner
  BY DEF Pruned
<1>2. CASE Ready /\ drive = worker.account
  <2>1. worker.at = "pruning" /\ TakeNext(queue, drive)
    BY <1>2 DEF Pruned
  <2>2. /\ queue' \in Seq(EntriesOf(owner))
        /\ worker' = [at |-> worker'.at, account |-> worker'.account, name |-> worker'.name]
        /\ worker'.at \in {"idle", "sending"}
        /\ worker'.at = "sending" => worker'.account = drive
    BY <2>1, TakesForAccount DEF CloudInv
  <2> QED
    BY <1>1, <2>1, <2>2 DEF CloudInv
<1>3. CASE ~ (Ready /\ drive = worker.account)
  BY <1>1, <1>3 DEF Pruned, CloudInv, Idle
<1> QED
  BY <1>2, <1>3

LEMMA CloudGoneInv == ASSUME CloudInv, CloudGone PROVE CloudInv'
<1>1. queue' \in Seq(EntriesOf(owner))
  BY RestedQueue DEF CloudGone, CloudInv
<1> QED
  BY <1>1 DEF CloudGone, CloudInv, Idle

\* The invariant of the upload worker, in the hub.
LEMMA CloudInvHolds == Spec => []CloudInv
<1>1. Init => CloudInv
  <2> SUFFICES ASSUME Init PROVE CloudInv
    OBVIOUS
  <2>1. queue \in Seq(EntriesOf(owner)) /\ IsFiniteSet(disk)
    BY FS_EmptySet DEF Init, CloudInit
  <2> QED
    BY <2>1 DEF Init, CloudInit, CloudInv, Idle
<1>2. CloudInv /\ [Next]_vars => CloudInv'
  <2> SUFFICES ASSUME CloudInv, [Next]_vars PROVE CloudInv'
    OBVIOUS
  <2>1. CASE UNCHANGED cloudVars
    BY <2>1 DEF cloudVars, CloudInv
  <2>2. CASE \E name \in Snapshots : BackupAtUpdate(name)
    BY <2>2, BackupAtUpdateInv
  <2>3. CASE CloudGone
    BY <2>3, CloudGoneInv
  <2>4. CASE CloudNext
    BY <2>4, CloudAssumption, BackupInv, ScreensInv, MinuteInv, ContinueInv, ConfirmInv, FailInv, PrunedInv
       DEF CloudNext
  <2> QED
    BY <2>1, <2>2, <2>3, <2>4 DEF Next, vars, Open, End
<1> QED
  BY <1>1, <1>2, PTL DEF Spec

\* Whatever the screens, overlapping disconnects and crashes do, the worker sends for the account that is linked, and one
\* queue is one account's.
THEOREM UploadsGoToOwnAccount == Spec => []UploadsOwnAccount
<1>1. CloudInv => UploadsOwnAccount
  <2> SUFFICES ASSUME CloudInv PROVE UploadsOwnAccount
    OBVIOUS
  <2>1. \A i \in DOMAIN queue : queue[i] \in EntriesOf(owner)
    BY DEF CloudInv
  <2>2. \A e \in ToSet(queue) : e.account = owner
    BY <2>1 DEF ToSet, EntriesOf
  <2> QED
    BY <2>2 DEF CloudInv, UploadsOwnAccount
<1> QED
  BY <1>1, CloudInvHolds, PTL
=============================================================================
