---------------------------- MODULE CloudUploads -----------------------------
(***************************************************************************)
(* The worker that copies the hub's local backups to the Google Drive of   *)
(* the owner (apps/server/src/cloud-backups.ts, with the account kept by   *)
(* google-drive.ts and the folder of snapshots kept by backups.ts).        *)
(*                                                                         *)
(* The worker is one promise at a time (`active`), begun in a microtask and*)
(* cut where it waits: while a snapshot is sent, and while old copies are  *)
(* pruned.  Calls from the screens run between two of its steps.  What is  *)
(* saved is saved in the same step as it changes, so a crash loses only    *)
(* where the worker and the calls were.  Google Drive is external: an      *)
(* upload is confirmed or it is not; one that arrived although its answer  *)
(* was lost counts as not confirmed, and the next upload of that snapshot  *)
(* finds it.  Time is the worker's one-minute timer.                       *)
(***************************************************************************)
EXTENDS Integers, Sequences, SequencesExt

CONSTANTS
    NoAccount,    \* no linked account
    Snapshots,    \* names of local backups
    Accounts,     \* Google accounts
    Unreadable,   \* snapshots no upload of which ever succeeds
    MaxRest,      \* longest wait before another try, in minutes (an hour in the code)
    Disconnects,  \* calls of Disconnect that may overlap
    MaxRetryAsks  \* times staff press Retry

ASSUME CloudAssumption ==
    /\ NoAccount \notin Accounts  /\ Unreadable \subseteq Snapshots
    /\ MaxRest \in Nat \ {0}  /\ MaxRetryAsks \in Nat

VARIABLES
    disk,      \* snapshots in the backups folder
    taken,     \* snapshots ever taken: a name is never used again
    drive,     \* google-drive.json: the linked account
    expired,   \* its credential was refused: staff must sign in again
    automatic, \* the setting "upload every backup"
    queue,     \* snapshots to upload: name, account, attempts, and the minutes before the next
    owner,     \* the account whose queue it is
    uploaded,  \* confirmed uploads, as pairs of name and account
    worker,    \* the promise: where it is, for which account and snapshot
    leaving,   \* the calls of Disconnect
    stopping,  \* the flag `disconnecting`
    asks       \* times Retry was pressed

cloudVars == <<disk, taken, drive, expired, automatic, queue, owner, uploaded, worker, leaving, stopping, asks>>

Idle == [at |-> "idle", account |-> NoAccount, name |-> NoAccount]

CloudInit ==
    /\ disk = {}  /\ taken = {}
    /\ drive = NoAccount  /\ expired = FALSE  /\ automatic = TRUE
    /\ queue = <<>>  /\ owner = NoAccount  /\ uploaded = {}
    /\ worker = Idle
    /\ leaving = [c \in Disconnects |-> "none"]  /\ stopping = FALSE
    /\ asks = 0

Queued == {<<e.name, e.account>> : e \in ToSet(queue)}

\* The queue is at work for the linked account, and nobody is disconnecting it.
Ready == ~stopping /\ drive # NoAccount /\ ~expired /\ owner \in {NoAccount, drive}

\* A snapshot enters the queue once.
Entry(name) == [name |-> name, account |-> drive, attempts |-> 0, rest |-> 0]
Wanted(names) == {n \in names : <<n, drive>> \notin Queued \cup uploaded}
Enqueue(names) ==
    /\ queue' = queue \o SetToSeq({Entry(n) : n \in Wanted(names)})
    /\ owner' = IF Wanted(names) = {} THEN owner ELSE drive

\* The queue when every entry may be tried again.
Rested == [i \in DOMAIN queue |-> [queue[i] EXCEPT !.rest = 0]]

\* A promise is begun when there is none.
Begun == IF worker = Idle THEN [Idle EXCEPT !.at = "begun"] ELSE worker

-----------------------------------------------------------------------------
(* Local backups.                                                          *)

\* Snapshots retention may remove after a backup: not the newest, and none that waits for its upload.
Prunable(names, waiting) == SUBSET (names \ waiting)

\* A scheduled backup, a click on Back up now, or Upload now, which queues its backup although uploads are not automatic.
Backup(name, now) ==
    /\ name \in Snapshots \ taken
    /\ now => Ready
    /\ taken' = taken \cup {name}
    /\ IF Ready /\ (automatic \/ now)
       THEN Enqueue({name}) /\ worker' = Begun
       ELSE UNCHANGED <<queue, owner, worker>>
    /\ \E gone \in Prunable(disk, {e.name : e \in ToSet(queue')}) : disk' = (disk \ gone) \cup {name}
    /\ UNCHANGED <<drive, expired, automatic, uploaded, leaving, stopping, asks>>

\* The backup an updated hub takes before it migrates: the queue is not read yet, so it protects nothing.
BackupAtUpdate(name) ==
    /\ name \in Snapshots \ taken
    /\ taken' = taken \cup {name}
    /\ \E gone \in Prunable(disk, {}) : disk' = (disk \ gone) \cup {name}
    /\ UNCHANGED <<drive, expired, automatic, queue, owner, uploaded, worker, leaving, stopping, asks>>

-----------------------------------------------------------------------------
(* The screens.                                                            *)

SetAutomatic ==
    /\ automatic' = ~automatic
    /\ UNCHANGED <<disk, taken, drive, expired, queue, owner, uploaded, worker, leaving, stopping, asks>>

\* A sign-in ends in the browser.  While an account is linked no other one is taken.
MayLink(account) == drive \in {NoAccount, account}

SignIn(account) ==
    /\ MayLink(account)
    /\ drive' = account  /\ expired' = FALSE
    /\ UNCHANGED <<disk, taken, automatic, queue, owner, uploaded, worker, leaving, stopping, asks>>

CredentialRefused ==
    /\ drive # NoAccount  /\ ~expired
    /\ expired' = TRUE
    /\ UNCHANGED <<disk, taken, drive, automatic, queue, owner, uploaded, worker, leaving, stopping, asks>>

Retry ==
    /\ Ready  /\ asks < MaxRetryAsks
    /\ asks' = asks + 1
    /\ queue' = Rested  /\ worker' = Begun
    /\ UNCHANGED <<disk, taken, drive, expired, automatic, owner, uploaded, leaving, stopping>>

\* Disconnect stops the upload and waits for the worker.
Disconnect(c) ==
    /\ leaving[c] = "none"
    /\ leaving' = [leaving EXCEPT ![c] = "waiting"]
    /\ stopping' = TRUE
    /\ UNCHANGED <<disk, taken, drive, expired, automatic, queue, owner, uploaded, worker, asks>>

\* Bug: it does not wait.
WorkerDoneUnawaited == TRUE
WorkerDone == worker = Idle

\* The account is forgotten at once, and Google is told if there was a credential.
Unlink(c) ==
    /\ leaving[c] = "waiting"  /\ WorkerDone
    /\ leaving' = [leaving EXCEPT ![c] = "revoking"]
    /\ drive' = NoAccount  /\ expired' = FALSE
    /\ UNCHANGED <<disk, taken, automatic, queue, owner, uploaded, worker, stopping, asks>>

\* The queue is dropped when Google answered, even when another call ended meanwhile and a new account signed in.
Disconnected(c) ==
    /\ leaving[c] = "revoking"
    /\ leaving' = [leaving EXCEPT ![c] = "none"]
    /\ queue' = <<>>  /\ owner' = NoAccount  /\ stopping' = FALSE
    /\ UNCHANGED <<disk, taken, drive, expired, automatic, uploaded, worker, asks>>

-----------------------------------------------------------------------------
(* The worker.                                                             *)

\* The timer begins a promise every minute (a microtask never waits for it).
Minute ==
    /\ worker.at # "begun"
    /\ queue' = [i \in DOMAIN queue |-> [queue[i] EXCEPT !.rest = IF @ = 0 THEN 0 ELSE @ - 1]]
    /\ worker' = IF Ready THEN Begun ELSE worker
    /\ UNCHANGED <<disk, taken, drive, expired, automatic, owner, uploaded, leaving, stopping, asks>>

\* The entries of a queue at the given positions, in its order.
EntriesAt(entries, positions) ==
    LET upTo[n \in 0..Len(entries)] ==
            IF n = 0 THEN <<>>
            ELSE IF n \in positions THEN Append(upTo[n - 1], entries[n]) ELSE upTo[n - 1]
    IN  upTo[Len(entries)]

\* The queue after the entries whose snapshot is gone, in front of the first that can be sent, are dropped.
Due(e, account) == e.account = account /\ e.rest = 0
Present(entries, account) ==
    LET first == SelectInSeq(entries, LAMBDA e : Due(e, account) /\ e.name \in disk)
        stale(i) == Due(entries[i], account) /\ entries[i].name \notin disk /\ (first = 0 \/ i < first)
    IN  [left  |-> EntriesAt(entries, {i \in DOMAIN entries : ~stale(i)}),
         first |-> IF first = 0 THEN <<>> ELSE <<entries[first]>>]

\* Takes the first entry that is due, or ends.
TakeNext(entries, account) ==
    LET found == Present(entries, account)
    IN  /\ queue' = found.left
        /\ worker' = IF found.first = <<>> THEN Idle
                     ELSE [at |-> "sending", account |-> account, name |-> found.first[1].name]

Continue ==
    /\ worker.at = "begun"
    /\ IF ~Ready THEN worker' = Idle /\ UNCHANGED <<queue, owner>>
       ELSE LET added == SetToSeq({Entry(n) : n \in IF automatic THEN Wanted(disk) ELSE {}})
            IN  /\ owner' = IF added = <<>> THEN owner ELSE drive
                /\ TakeNext(queue \o added, drive)
    /\ UNCHANGED <<disk, taken, drive, expired, automatic, uploaded, leaving, stopping, asks>>

Sending(e) == e.name = worker.name /\ e.account = worker.account

\* Google has the copy and its answer arrives: the entry is done and the confirmations of snapshots that are gone are dropped.
Confirm ==
    /\ worker.at = "sending"  /\ ~expired
    /\ worker.name \in disk \ Unreadable
    /\ queue' = EntriesAt(queue, {i \in DOMAIN queue : ~Sending(queue[i])})
    /\ uploaded' = {u \in uploaded \cup {<<worker.name, worker.account>>} : u[1] \in disk}
    /\ worker' = [worker EXCEPT !.at = "pruning"]
    /\ UNCHANGED <<disk, taken, drive, expired, automatic, owner, leaving, stopping, asks>>

\* The rest after the n-th failure: a minute, then twice as long each time, to an hour.
\* Bug: always a minute.
RestAfterFixed(n) == 1
RestAfter(n) == IF 2 ^ (n - 1) > MaxRest THEN MaxRest ELSE 2 ^ (n - 1)

\* No answer, an abort or a snapshot that cannot be read: the entry rests and the worker ends.
Fail ==
    /\ worker.at = "sending"
    /\ queue' = [i \in DOMAIN queue |->
          IF ~Sending(queue[i]) THEN queue[i]
          ELSE [queue[i] EXCEPT !.attempts = IF @ = MaxRest THEN @ ELSE @ + 1,
                                !.rest = RestAfter(IF queue[i].attempts = MaxRest THEN MaxRest ELSE queue[i].attempts + 1)]]
    /\ worker' = Idle
    /\ UNCHANGED <<disk, taken, drive, expired, automatic, owner, uploaded, leaving, stopping, asks>>

\* Old copies are pruned, or not; the worker goes on while the account is the same and nobody disconnects.
Pruned ==
    /\ worker.at = "pruning"
    /\ IF Ready /\ drive = worker.account
       THEN TakeNext(queue, drive)
       ELSE worker' = Idle /\ UNCHANGED queue
    /\ UNCHANGED <<disk, taken, drive, expired, automatic, owner, uploaded, leaving, stopping, asks>>

\* The hub ends: calls and worker are gone, files stay, and entries may have rested long enough when it is back.
CloudGone ==
    /\ worker' = Idle
    /\ leaving' = [c \in Disconnects |-> "none"]  /\ stopping' = FALSE
    /\ queue' \in {queue, Rested}
    /\ UNCHANGED <<disk, taken, drive, expired, automatic, owner, uploaded, asks>>

CloudNext ==
    \/ \E name \in Snapshots, now \in BOOLEAN : Backup(name, now)
    \/ SetAutomatic \/ CredentialRefused \/ Retry
    \/ \E account \in Accounts : SignIn(account)
    \/ \E c \in Disconnects : Disconnect(c) \/ Unlink(c) \/ Disconnected(c)
    \/ Minute \/ Continue \/ Confirm \/ Fail \/ Pruned

-----------------------------------------------------------------------------
\* Types of the worker's state.
CloudTypeOK ==
    /\ disk \subseteq taken  /\ taken \subseteq Snapshots
    /\ drive \in Accounts \cup {NoAccount}  /\ owner \in Accounts \cup {NoAccount}
    /\ expired \in BOOLEAN  /\ automatic \in BOOLEAN  /\ stopping \in BOOLEAN
    /\ ToSet(queue) \subseteq [name : Snapshots, account : Accounts, attempts : 0..MaxRest, rest : 0..MaxRest]
    /\ uploaded \subseteq Snapshots \X Accounts
    /\ worker.at \in {"idle", "begun", "sending", "pruning"}
    /\ leaving \in [Disconnects -> {"none", "waiting", "revoking"}]
    /\ asks \in 0..MaxRetryAsks

\* Pending restaurant files never go into a different Google account: the worker sends and prunes for the account that is
\* linked while it does so, and one queue never holds entries of two accounts, however sign-ins, disconnects that overlap
\* and crashes meet.
UploadsOwnAccount ==
    /\ worker.at \in {"sending", "pruning"} => drive = worker.account
    /\ \A e \in ToSet(queue) : e.account = owner
=============================================================================
