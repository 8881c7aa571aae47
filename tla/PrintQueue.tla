----------------------------- MODULE PrintQueue -----------------------------
(***************************************************************************)
(* The hub's print queue, apps/server/src/print/queue.ts.                  *)
(*                                                                         *)
(* A slip is a job in SQLite, saved in the transaction of the bill or the  *)
(* ticket it belongs to.  One loop per printer takes the oldest queued job,*)
(* marks it printing, hands its bytes to the printer and saves the result. *)
(* What one loop does between two awaits is one action; requests, other    *)
(* loops and microtasks run between them.  The hub may stop anywhere and   *)
(* may be started again on the same database or on a restored backup.      *)
(*                                                                         *)
(* A job is its number in sequence order.  Power loss, which may take the  *)
(* last commits with it, is not modelled.                                  *)
(***************************************************************************)
EXTENDS Integers, FiniteSets

CONSTANTS
    Printers,
    Untimed,        \* printers whose transport has no time limit (Bluetooth)
    Copies,         \* numbers of copies a printer profile may ask for
    KeepDone,       \* KEEP_DONE_JOBS
    KeepUnresolved, \* KEEP_UNRESOLVED_JOBS
    None,
    MaxJobs,        \* bound: jobs ever saved
    MaxRetries,     \* bound: retries of one job
    MaxTroubles,    \* bound: crashes and storage errors together
    MaxRestores     \* bound: restored backups

ASSUME PrintAssumption ==
    /\ Untimed \subseteq Printers
    /\ None \notin Printers \cup Nat
    /\ Copies \subseteq Nat \ {0}
    /\ {KeepDone, KeepUnresolved, MaxJobs, MaxRetries, MaxTroubles, MaxRestores} \subseteq Nat

Jobs     == 1..MaxJobs
Statuses == {"none", "queued", "printing", "done", "failed", "unknown", "gone"}

VARIABLES
    printer,     \* print_jobs.printer_id
    status,      \* print_jobs.status; "none" not saved yet, "gone" deleted
    attempts,    \* retries the job's row knows of
    savedGen,    \* print_queue_state.generation
    fileGen,     \* recovery-generation.json, renewed by every restore
    snapshot,    \* the database in the newest backup, None before the first
    hub,         \* "down", "opening" (in the constructor) or "up"
    restored,    \* the constructor's `restored`
    stopped,     \* the queue's `stopped`
    locked,      \* printers in the queue's `locks`
    loops,       \* the loops at work: printer, phase, job
    wake,        \* printers with a queueMicrotask pending
    last,        \* history: number of jobs saved so far
    sent,        \* history: how often the printer got the whole slip
    asked,       \* history: how often staff asked to print the job again
    stalled,     \* history: printers whose last loop ended with a storage error
    troubles     \* history: crashes and storage errors so far

database == <<printer, status, attempts, savedGen>>
files    == <<fileGen, snapshot>>
process  == <<hub, restored, stopped>>
workers  == <<locked, loops, wake, stalled>>
history  == <<last, sent, asked, troubles>>
vars     == <<database, files, process, workers, history>>

Phases == {"due", "sending", "ended", "broken"}
Loop   == [printer : Printers, phase : Phases, job : Jobs \cup {None}]

Queued(p, s) == {j \in Jobs : s[j] = "queued" /\ printer[j] = p}

-----------------------------------------------------------------------------
Init ==
    /\ printer  = [j \in Jobs |-> None]
    /\ status   = [j \in Jobs |-> "none"]
    /\ attempts = [j \in Jobs |-> 0]
    /\ savedGen = 0  /\ fileGen = 0  /\ snapshot = None
    /\ hub = "up"    /\ restored = FALSE  /\ stopped = FALSE
    /\ locked = {}   /\ loops = {}  /\ wake = {}  /\ stalled = {}
    /\ last = 0      /\ troubles = 0
    /\ sent  = [j \in Jobs |-> 0]
    /\ asked = [j \in Jobs |-> 0]

\* Bug: a printer that has a loop gets another.
FreshUnlocked(p) == {q \in {p} : ~stopped}

\* The printers for which schedule(p) starts a loop: p, unless it has one.
Fresh(p) == {q \in {p} : ~stopped /\ q \notin locked}

Due(p) == [printer |-> p, phase |-> "due", job |-> None]

Schedule(p) ==
    /\ locked'  = locked \cup Fresh(p)
    /\ loops'   = loops \cup {Due(q) : q \in Fresh(p)}
    /\ stalled' = stalled \ Fresh(p)

-----------------------------------------------------------------------------
\* enqueue: n copies for printer p, saved with the caller's transaction or rolled back with it; the microtask runs anyway.
Enqueue(p, n) ==
    /\ hub = "up"
    /\ ~stopped
    /\ last + n <= MaxJobs
    /\ wake' = wake \cup {p}
    /\ \/ /\ status'  = [j \in Jobs |-> IF j \in last + 1 .. last + n THEN "queued" ELSE status[j]]
          /\ printer' = [j \in Jobs |-> IF j \in last + 1 .. last + n THEN p ELSE printer[j]]
          /\ last' = last + n
       \/ UNCHANGED <<status, printer, last>>
    /\ UNCHANGED <<attempts, savedGen, files, process, locked, loops, stalled, sent, asked, troubles>>

\* The microtask of enqueue.
Wake(p) ==
    /\ p \in wake
    /\ wake' = wake \ {p}
    /\ Schedule(p)
    /\ UNCHANGED <<database, files, process, history>>

MayRetry(j, checkedPaper) == status[j] = "failed" \/ (status[j] = "unknown" /\ checkedPaper)

\* POST /api/print-jobs/:id/retry.
Retry(j, checkedPaper) ==
    /\ hub = "up"
    /\ ~stopped
    /\ MayRetry(j, checkedPaper)
    /\ asked[j] < MaxRetries
    /\ status'   = [status EXCEPT ![j] = "queued"]
    /\ attempts' = [attempts EXCEPT ![j] = @ + 1]
    /\ asked'    = [asked EXCEPT ![j] = @ + 1]
    /\ Schedule(printer[j])
    /\ UNCHANGED <<printer, savedGen, files, process, wake, last, sent, troubles>>

\* POST /api/print-jobs/:id/confirm-printed.  Staff confirm only a slip they hold.
ConfirmPrinted(j) ==
    /\ hub = "up"
    /\ status[j] = "unknown"
    /\ sent[j] > 0
    /\ status' = [status EXCEPT ![j] = "done"]
    /\ UNCHANGED <<printer, attempts, savedGen, files, process, workers, history>>

-----------------------------------------------------------------------------
Newest(S, n) == {j \in S : Cardinality({k \in S : k > j}) < n}

\* Bug: jobs that wait are trimmed with the unresolved ones.
TrimmedWaiting(s) ==
    LET done == {j \in Jobs : s[j] = "done"}
        open == {j \in Jobs : s[j] \in {"failed", "unknown", "queued"}}
        kept == Newest(done, KeepDone) \cup Newest(open, KeepUnresolved)
    IN  [j \in Jobs |-> IF j \in (done \cup open) \ kept THEN "gone" ELSE s[j]]

\* trim: the statuses s after it deleted all but the newest settled jobs.
Trimmed(s) ==
    LET done == {j \in Jobs : s[j] = "done"}
        open == {j \in Jobs : s[j] \in {"failed", "unknown"}}
        kept == Newest(done, KeepDone) \cup Newest(open, KeepUnresolved)
    IN  [j \in Jobs |-> IF j \in (done \cup open) \ kept THEN "gone" ELSE s[j]]

Becomes(l, phase, j) == loops' = (loops \ {l}) \cup {[l EXCEPT !.phase = phase, !.job = j]}

\* Bug: any queued job of the printer comes next.
NextJobAny(p, s) == Queued(p, s)

\* The job a loop takes next, as a set of one or none.
NextJob(p, s) == {j \in Queued(p, s) : \A k \in Queued(p, s) : j <= k}

\* The head of the loop: take the oldest queued job and start to send it, or leave the loop.
LoopHead(l, s) ==
    \/ /\ ~stopped
       /\ \E j \in NextJob(l.printer, s) :
             /\ status' = [s EXCEPT ![j] = "printing"]
             /\ Becomes(l, "sending", j)
    \/ /\ stopped \/ Queued(l.printer, s) = {}
       /\ status' = s
       /\ Becomes(l, "ended", None)

Take(l) ==
    /\ l.phase = "due"
    /\ LoopHead(l, status)
    /\ UNCHANGED <<printer, attempts, savedGen, files, process, locked, wake, stalled, history>>

\* What the send can come to, and how often the whole slip may have reached the printer by then.
Outcomes == {"done", "unknown", "failed"}
Reached(outcome) == CASE outcome = "done"    -> {1}
                      [] outcome = "unknown" -> {0, 1}
                      [] outcome = "failed"  -> {0}

Saved(l, outcome) == [status EXCEPT ![l.job] = outcome]

\* The send is answered, fails or times out; the loop saves the result, trims and goes on, all before it waits again.
Finish(l, outcome) ==
    /\ l.phase = "sending"
    /\ \E n \in Reached(outcome) : sent' = [sent EXCEPT ![l.job] = @ + n]
    /\ LoopHead(l, Trimmed(Saved(l, outcome)))
    /\ UNCHANGED <<printer, attempts, savedGen, files, process, locked, wake, stalled, last, asked, troubles>>

\* SQLite throws in the loop: at its head, when it saves the result, when it trims, or at the next head.
StorageFails(l) ==
    /\ troubles < MaxTroubles
    /\ troubles' = troubles + 1
    /\ \/ l.phase = "due" /\ UNCHANGED <<status, sent>>
       \/ /\ l.phase = "sending"
          /\ \E outcome \in Outcomes :
                /\ \E n \in Reached(outcome) : sent' = [sent EXCEPT ![l.job] = @ + n]
                /\ status' \in {status, Saved(l, outcome), Trimmed(Saved(l, outcome))}
    /\ Becomes(l, "broken", None)
    /\ UNCHANGED <<printer, attempts, savedGen, files, process, locked, wake, stalled, last, asked>>

\* Bug: the printer is released without a look at what was queued meanwhile.
MoreToDoNever(l) == FALSE

\* Bug: a queue that is stopping starts its loops again.
MoreToDoStopping(l) == l.phase = "ended" /\ Queued(l.printer, status) # {}

MoreToDo(l) == ~stopped /\ l.phase = "ended" /\ Queued(l.printer, status) # {}

\* The finally of the loop: release the printer, and start over when a job was queued after the last look.
Finally(l) ==
    /\ l.phase \in {"ended", "broken"}
    /\ LET rest == loops \ {l}  p == l.printer IN
       IF MoreToDo(l)
         THEN /\ loops' = rest \cup {Due(p)}
              /\ UNCHANGED <<locked, stalled>>
         ELSE /\ loops'   = rest
              /\ locked'  = locked \ {p}
              /\ stalled' = IF l.phase = "broken" THEN stalled \cup {p} ELSE stalled
    /\ UNCHANGED <<database, files, process, wake, history>>

-----------------------------------------------------------------------------
ForgetMemory ==
    /\ hub' = "down"
    /\ restored' = FALSE  /\ stopped' = FALSE
    /\ locked' = {}  /\ loops' = {}  /\ wake' = {}  /\ stalled' = {}

\* close(), awaited before the hub closes its database.
Close ==
    /\ hub = "up"
    /\ ~stopped
    /\ stopped' = TRUE
    /\ UNCHANGED <<database, files, hub, restored, workers, history>>

Closed ==
    /\ stopped
    /\ loops = {}
    /\ ForgetMemory
    /\ UNCHANGED <<database, files, history>>

\* The hub dies.  Of the slips it was sending, any may have come out.
Crash ==
    /\ hub # "down"
    /\ troubles < MaxTroubles
    /\ troubles' = troubles + 1
    /\ \E out \in SUBSET {l.job : l \in {m \in loops : m.phase = "sending"}} :
          sent' = [j \in Jobs |-> IF j \in out THEN sent[j] + 1 ELSE sent[j]]
    /\ ForgetMemory
    /\ UNCHANGED <<database, files, last, asked>>

\* Bug: the new generation is saved before the copies in doubt are.
OpenSavesFirst ==
    /\ hub = "down"
    /\ hub' = "opening"
    /\ restored' = (savedGen # fileGen)
    /\ savedGen' = fileGen
    /\ UNCHANGED <<printer, status, attempts, files, stopped, workers, history>>

\* The constructor: is this the database the hub last ran on?
Open ==
    /\ hub = "down"
    /\ hub' = "opening"
    /\ restored' = (savedGen # fileGen)
    /\ UNCHANGED <<database, files, stopped, workers, history>>

\* A copy that may be on paper already.
InDoubt(j) == status[j] = "printing" \/ (restored /\ status[j] = "queued")

\* Bug: an interrupted copy is taken as printed.
HoldDone(j) ==
    /\ hub = "opening"
    /\ InDoubt(j)
    /\ status' = [status EXCEPT ![j] = "done"]
    /\ UNCHANGED <<printer, attempts, savedGen, files, process, workers, history>>

\* The constructor holds one copy in doubt; every one is a commit of its own.
Hold(j) ==
    /\ hub = "opening"
    /\ InDoubt(j)
    /\ status' = [status EXCEPT ![j] = "unknown"]
    /\ UNCHANGED <<printer, attempts, savedGen, files, process, workers, history>>

\* The constructor saves the generation; start() gives every printer with queued jobs a loop.
Start ==
    /\ hub = "opening"
    /\ \A j \in Jobs : ~InDoubt(j)
    /\ hub' = "up"
    /\ savedGen' = fileGen
    /\ LET busy == {p \in Printers : Queued(p, status) # {}} IN
          /\ locked' = busy
          /\ loops'  = {Due(p) : p \in busy}
    /\ UNCHANGED <<printer, status, attempts, files, restored, stopped, wake, stalled, history>>

\* A backup copies the database at any moment of a running hub.
Backup ==
    /\ hub = "up"
    /\ fileGen < MaxRestores
    /\ snapshot' = [status |-> status, attempts |-> attempts, generation |-> savedGen]
    /\ UNCHANGED <<database, fileGen, process, workers, history>>

\* restoreDatabase: the backup replaces the database and the generation is renewed.
Restore ==
    /\ hub = "down"
    /\ snapshot # None
    /\ fileGen < MaxRestores
    /\ fileGen'  = fileGen + 1
    /\ savedGen' = snapshot.generation
    /\ status'   = [j \in Jobs |-> IF snapshot.status[j] = "none" /\ j <= last THEN "gone" ELSE snapshot.status[j]]
    /\ attempts' = snapshot.attempts
    /\ UNCHANGED <<printer, snapshot, process, workers, history>>

-----------------------------------------------------------------------------
LoopStep(l) ==
    \/ Take(l)
    \/ \E outcome \in Outcomes : Finish(l, outcome)
    \/ Finally(l)

Next ==
    \/ \E p \in Printers, n \in Copies : Enqueue(p, n)
    \/ \E p \in Printers : Wake(p)
    \/ \E j \in Jobs, checkedPaper \in BOOLEAN : Retry(j, checkedPaper)
    \/ \E j \in Jobs : ConfirmPrinted(j) \/ Hold(j)
    \/ \E l \in loops : LoopStep(l) \/ StorageFails(l)
    \/ Close \/ Closed \/ Crash \/ Open \/ Start \/ Backup \/ Restore

\* Microtasks run, and a send ends by itself: 5 s over the network, 15 s through Windows.  Only a COM port may hang.
Fairness ==
    /\ \A p \in Printers : WF_vars(Wake(p))
    /\ \A p \in Printers : WF_vars(\E l \in loops : l.printer = p /\ (Take(l) \/ Finally(l)))
    /\ \A p \in Printers \ Untimed :
          WF_vars(\E l \in loops, outcome \in Outcomes : l.printer = p /\ Finish(l, outcome))
    /\ WF_vars(Closed)

Spec == Init /\ [][Next]_vars /\ Fairness

-----------------------------------------------------------------------------
\* Types of the tables, the queue's memory and the histories.
TypeOK ==
    /\ printer  \in [Jobs -> Printers \cup {None}]
    /\ status   \in [Jobs -> Statuses]
    /\ attempts \in [Jobs -> Nat]
    /\ savedGen \in Nat  /\ fileGen \in Nat
    /\ snapshot \in [status : [Jobs -> Statuses], attempts : [Jobs -> Nat], generation : Nat] \cup {None}
    /\ hub \in {"down", "opening", "up"}
    /\ restored \in BOOLEAN  /\ stopped \in BOOLEAN
    /\ locked \subseteq Printers  /\ loops \subseteq Loop
    /\ wake \subseteq Printers    /\ stalled \subseteq Printers
    /\ last \in 0..MaxJobs        /\ troubles \in Nat
    /\ sent  \in [Jobs -> Nat]
    /\ asked \in [Jobs -> Nat]

\* The bytes of two slips never meet on one printer: one loop per printer, and it holds the printer's lock.
OneLoopPerPrinter ==
    /\ locked = {l.printer : l \in loops}
    /\ \A l, m \in loops : l.printer = m.printer => l = m

\* A slip comes out once, and once more for every time staff asked: no crash, restart, restored backup, storage error
\* or overlapping loop prints a copy on its own account.
NoUnaskedCopy == \A j \in Jobs : sent[j] <= 1 + asked[j]

\* A job is never shown as printed when no printer got it, whatever stopped the hub while it was sending.
DoneWasSent == \A j \in Jobs : status[j] = "done" => sent[j] > 0

\* No lost wake-up: on a hub that is up, a queued job has a loop or a microtask that will start one.  The exception is a
\* printer whose loop ended with a storage error; it waits for the next job, retry or start.
QueuedHasWorker ==
    hub = "up" /\ ~stopped =>
        \A j \in Jobs : status[j] = "queued" => printer[j] \in locked \cup wake \cup stalled

\* Slips reach a printer in the order they were saved: none overtakes one that still waits for its first attempt.
InSavedOrder ==
    hub = "up" => \A j, k \in Jobs :
        /\ j < k  /\ printer[j] = printer[k]
        /\ status[j] = "queued"  /\ asked[j] = 0
        => status[k] \in {"queued", "none"}

\* Every queued job is tried while the hub stays up, also when the transport of another printer hangs.
QueuedIsTried ==
    \A j \in Jobs :
        (status[j] = "queued" /\ printer[j] \notin Untimed)
            ~> \/ status[j] \in {"printing", "done", "failed", "unknown"}
               \/ hub # "up" \/ stopped \/ printer[j] \in stalled

\* Closing the hub comes to an end, unless a COM port hangs: loops finish the slip they send and take no other.
StopEnds ==
    stopped ~> \/ ~stopped
               \/ \E l \in loops : l.phase = "sending" /\ l.printer \in Untimed
=============================================================================
