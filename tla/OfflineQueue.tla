---------------------------- MODULE OfflineQueue ----------------------------
(* The counter's queue of saved actions (queue-core.ts, retry-queue.ts).    *)
(* Every action is saved in the browser first, and one window at a time     *)
(* sends what is due: it asks the hub for the generation of its database,   *)
(* then sends the first action of every lane and writes down each reply.    *)
(* The hub is here what the queue relies on: it applies a reference once,   *)
(* checks the session, and may be restored from a backup.                   *)
(* The browser keeps one session, but a window remembers who works at it:   *)
(* each sees and sends the actions of its own staff member only.            *)
(* Actions are numbered in the order they were saved, as createdAt does.    *)
EXTENDS Naturals

CONSTANTS None,
    Windows,         \* windows and tabs of one counter: they share one storage
    Staff,           \* staff members who sign in there
    Lanes,           \* one lane per order
    MaxEntries,      \* bound: actions saved
    MaxRestores      \* bound: restores of the hub's database

ASSUME QueueAssumption ==
    /\ MaxEntries \in Nat /\ MaxRestores \in Nat
    /\ None \notin Windows \cup Staff \cup Lanes \cup Nat \cup (Staff \X Nat)

Entries     == 1..MaxEntries
Generations == 0..MaxRestores
Sessions    == Staff \X Generations  \* whose, and the generation it was opened in

VARIABLES
    last,       \* how many actions were saved so far
    by,         \* who saved each action, None until it is saved
    lane,       \* the lane of each action, None until it is saved
    chained,    \* the actions that wait for the one saved just before them
    gen,        \* the generation of the database each action was meant for
    entry,      \* "none" (not in storage), "pending" or "attention"
    result,     \* result records of the actions others wait for
    aged,       \* results older than a day
    known,      \* the generation this browser last heard of
    token,      \* the session in storage, or None
    lease       \* the window that may send
saving  == <<last, by, lane, chained, gen>>
storage == <<saving, entry, result, aged, known, token, lease>>

VARIABLES
    actor,      \* who works at each window, or None
    phase,      \* what each window's pump is doing
    sender,     \* who worked there, and the session, when it asked; None once it sends
    told,       \* the generation the hub answered it
    using,      \* the generation of the session its requests carry
    flight,     \* what has become of each request it waits for
    dialog      \* the window that asks before it discards, and what, or None
pump    == <<phase, sender, told, using>>
windows == <<actor, pump, flight, dialog>>

VARIABLES
    stray,      \* requests on the wire that nobody waits for any more
    hubGen,     \* the generation of the hub's database
    applied,    \* the actions in it
    backup      \* those in the last backup, or None
hub == <<stray, hubGen, applied, backup>>

VARIABLES reached, discarded, dropped  \* history, for the properties
history == <<reached, discarded, dropped>>

vars == <<storage, windows, hub, history>>

Saved == 1..last

Init ==
    /\ last = 0 /\ chained = {}
    /\ by = [i \in Entries |-> None] /\ lane = [i \in Entries |-> None]
    /\ gen = [i \in Entries |-> 0]
    /\ entry = [i \in Entries |-> "none"]
    /\ result = [i \in Entries |-> "none"] /\ aged = {}
    /\ known = 0 /\ token = None /\ lease = None
    /\ actor = [w \in Windows |-> None]
    /\ phase = [w \in Windows |-> "idle"] /\ sender = [w \in Windows |-> None]
    /\ told = [w \in Windows |-> 0] /\ using = [w \in Windows |-> None]
    /\ flight = [w \in Windows |-> [i \in Entries |-> "none"]]
    /\ dialog = None
    /\ stray = {} /\ hubGen = 0 /\ applied = {} /\ backup = None
    /\ reached = {} /\ discarded = {} /\ dropped = {}

Blocked(w) == dialog # None /\ dialog[1] = w  \* by the dialog of Discard

(***************************************************************************)
(* Staff save actions: one alone, or a bill and the payment that waits for *)
(* it (BillingPanel.issueAndPay).                                          *)
(***************************************************************************)

(* What is saved belongs to the database this browser last heard of. *)
Save(w, l, n) ==
    LET new == last + 1 .. n
    IN  /\ actor[w] # None /\ ~Blocked(w)
        /\ n \in Entries /\ last' = n
        /\ by' = [i \in Entries |-> IF i \in new THEN actor[w] ELSE by[i]]
        /\ lane' = [i \in Entries |-> IF i \in new THEN l ELSE lane[i]]
        /\ gen' = [i \in Entries |-> IF i \in new THEN known ELSE gen[i]]
        /\ entry' = [i \in Entries |-> IF i \in new THEN "pending" ELSE entry[i]]
        /\ UNCHANGED <<result, aged, known, token, lease, windows, hub, history>>

SaveOne(w, l)  == Save(w, l, last + 1) /\ UNCHANGED chained
SavePair(w, l) == Save(w, l, last + 2) /\ chained' = chained \cup {last + 2}

(* What waits for action i, and the storage once i was refused or given up. *)
Dependents(i) == {j \in chained : j = i + 1}
Stopped(i, e) == [j \in Entries |->
                    IF j \in Dependents(i) /\ e[j] = "pending" THEN "attention" ELSE e[j]]

(* The result record of a finished action, if another waits for it: the     *)
(* others are read by the screens only.                                     *)
Leaves(i, r) ==
    /\ result' = IF Dependents(i) # {} THEN [result EXCEPT ![i] = r] ELSE result
    /\ aged' = aged \ {i}

(* A window lists the saved actions of its own staff member. *)
Lists(w, i) == i \in Saved /\ by[i] = actor[w] /\ ~Blocked(w)

(* Retry, or Try now, in that list. *)
(* Bug: brings back what was discarded in another window meanwhile. *)
RetryBlindly(w, i) ==
    /\ Lists(w, i)
    /\ entry' = [entry EXCEPT ![i] = "pending"]
    /\ UNCHANGED <<saving, result, aged, known, token, lease, windows, hub, history>>

Retry(w, i) ==
    /\ Lists(w, i) /\ entry[i] # "none"
    /\ entry' = [j \in Entries |-> IF j = i \/ (j \in Dependents(i) /\ entry[j] = "attention")
                                   THEN "pending" ELSE entry[j]]
    /\ UNCHANGED <<saving, result, aged, known, token, lease, windows, hub, history>>

(* Discard is offered for actions that need attention, and asks first. The *)
(* dialog blocks its window, not the others. One is open at a time.         *)
AskDiscard(w, i) ==
    /\ Lists(w, i) /\ dialog = None /\ entry[i] = "attention"
    /\ dialog' = <<w, i>>
    /\ UNCHANGED <<storage, actor, pump, flight, hub, history>>

InFlight(i) == \E w \in Windows : flight[w][i] # "none"

Discard(i) ==
    /\ dialog # None /\ dialog[2] = i /\ entry[i] # "none"
    /\ dialog' = None
    /\ entry' = Stopped(i, [entry EXCEPT ![i] = "none"])
    /\ Leaves(i, "discarded")
    /\ discarded' = discarded \cup {i}
    /\ dropped' = IF InFlight(i) THEN dropped ELSE dropped \cup {i}
    /\ UNCHANGED <<saving, known, token, lease,
                   actor, pump, flight, hub, reached>>

CloseDialog ==
    /\ dialog # None /\ dialog' = None
    /\ UNCHANGED <<storage, actor, pump, flight, hub, history>>

(* A restore deletes the sessions of the databases before it (recovery.ts). *)
(* Bug: the restored hub keeps the sessions of the backup. *)
SessionOpenStill(g) == g # None
SessionOpen(g) == g = hubGen

(***************************************************************************)
(* The pump of a window.                                                   *)
(***************************************************************************)

Runs(w, p) == ~Blocked(w) /\ phase[w] = p
Forgets(w) == /\ phase' = [phase EXCEPT ![w] = "idle"] /\ sender' = [sender EXCEPT ![w] = None]
              /\ told' = [told EXCEPT ![w] = 0] /\ using' = [using EXCEPT ![w] = None]
(* The end of a run releases the lease, whoever holds it by now. *)
Ends(w) == Forgets(w) /\ lease' = None

(* The window takes the lease and asks the hub for its generation: on its   *)
(* way to the hub the question changes nothing, so this is one step.        *)
StartPump(w) ==
    /\ Runs(w, "idle") /\ actor[w] # None /\ lease = None
    /\ token # None /\ SessionOpen(token[2])
    /\ lease' = w
    /\ phase' = [phase EXCEPT ![w] = "told"] /\ sender' = [sender EXCEPT ![w] = <<actor[w], token>>]
    /\ told' = [told EXCEPT ![w] = hubGen] /\ using' = [using EXCEPT ![w] = token[2]]
    /\ UNCHANGED <<saving, entry, result, aged, known, token,
                   actor, flight, dialog, hub, history>>

(* The browser forgets its session, but only this window goes to the        *)
(* sign-in screen: the others keep their staff member (session.clear).      *)
Leave(w) == token' = None /\ actor' = [actor EXCEPT ![w] = None]

(* 401. *)
CheckRefused(w) ==
    /\ Runs(w, "idle") /\ actor[w] # None /\ lease = None
    /\ token # None /\ ~SessionOpen(token[2])
    /\ Leave(w)
    /\ UNCHANGED <<saving, entry, result, aged, known, lease, pump, flight, dialog, hub, history>>

(* Thirty seconds are over: a request that hung, a dialog left open, a PC   *)
(* that slept, or a window that was closed while it sent.                   *)
LeaseRunsOut ==
    /\ lease # None /\ lease' = None
    /\ UNCHANGED <<saving, entry, result, aged, known, token, windows, hub, history>>

(* The answer is lost, or finds that somebody else has signed in.           *)
CheckFails(w) ==
    /\ Runs(w, "told")
    /\ Ends(w)
    /\ UNCHANGED <<saving, entry, result, aged, known, token,
                   actor, flight, dialog, hub, history>>

(* Bug: an answer is used even after somebody else signed in. *)
StillCurrentAlways(w) == TRUE
StillCurrent(w) == sender[w] = <<actor[w], token>>

(* A page that finds a session when it is loaded goes on as its owner, also *)
(* while the hub cannot be reached (App.tsx).                               *)
Enters(w) == actor' = [actor EXCEPT ![w] = IF token = None THEN None ELSE token[1]]

(* The database was restored: what was meant for the old one is archived,   *)
(* whoever saved it, and the page is loaded again.                          *)
Archive(w) ==
    /\ Runs(w, "told") /\ StillCurrent(w) /\ told[w] # known
    /\ entry' = [i \in Entries |-> "none"]
    /\ known' = told[w]
    /\ Ends(w) /\ Enters(w)
    /\ UNCHANGED <<saving, result, aged, token,
                   flight, dialog, hub, history>>

(* The first action a staff member saved in each lane, unless it stopped    *)
(* for review or waits for an earlier one that has not finished. What       *)
(* others saved for the same order does not count.                          *)
Ahead(i) == {j \in Entries : j < i /\ lane[j] = lane[i] /\ by[j] = by[i]}
(* Bug: steps over what needs attention. *)
HeadPending(i) == entry[i] # "none" /\ \A j \in Ahead(i) : entry[j] # "pending"
Head(i) == entry[i] # "none" /\ \A j \in Ahead(i) : entry[j] = "none"
Due(u) == {i \in Saved : /\ by[i] = u /\ Head(i) /\ entry[i] = "pending"
                         /\ i \in chained => result[i - 1] # "none"}

(* What is sent of the actions that are due; the others stop for review.    *)
(* Bug: goes on after an earlier step that was discarded. *)
SendableAfterAll(i, g) == gen[i] = g
Sendable(i, g) == gen[i] = g /\ (i \in chained => result[i - 1] = "done")

(* ds: what is due and not backing off. *)
SendDue(w, ds) ==
    /\ Runs(w, "told") /\ StillCurrent(w) /\ told[w] = known
    /\ ds \subseteq Due(actor[w])
    /\ flight' = [flight EXCEPT ![w] = [i \in Entries |->
                    IF i \in ds /\ Sendable(i, told[w]) THEN "sent" ELSE "none"]]
    /\ entry' = [i \in Entries |->
                    IF i \in ds /\ ~Sendable(i, told[w]) THEN "attention" ELSE entry[i]]
    /\ phase' = [phase EXCEPT ![w] = "sending"] /\ sender' = [sender EXCEPT ![w] = None]
    /\ UNCHANGED <<saving, result, aged, known, token, lease,
                   actor, told, using, dialog, hub, history>>

(* Requests on the wire are followed while they can still change something: *)
(* nobody hears their answers, and 401 or a repeat is no more than that.    *)
Straying(w, is) == {<<i, using[w]>> : i \in
    {j \in is \ applied : flight[w][j] = "sent" /\ SessionOpen(using[w])}}

Landed(w, i) == flight' = [flight EXCEPT ![w][i] = "none"]

Done(w, i) ==
    /\ Runs(w, "sending") /\ flight[w][i] = "ok"
    /\ Landed(w, i)
    /\ entry' = [entry EXCEPT ![i] = "none"]
    /\ Leaves(i, "done")
    /\ UNCHANGED <<saving, known, token, lease, actor, pump, dialog, hub, history>>

Refused(w, i) ==
    /\ Runs(w, "sending") /\ flight[w][i] = "refused"
    /\ Landed(w, i)
    /\ entry' = Stopped(i, [entry EXCEPT ![i] = "attention"])
    /\ UNCHANGED <<saving, result, aged, known, token, lease, actor, pump, dialog, hub, history>>

(* The action goes back as it was when it was sent: the reply was lost, the *)
(* request timed out and may still arrive, or the hub answered 401, which   *)
(* ends the session of the browser.                                         *)
TryLater(w, i) ==
    /\ Runs(w, "sending") /\ flight[w][i] # "none"
    /\ Landed(w, i)
    /\ entry' = [entry EXCEPT ![i] = "pending"]
    /\ \/ UNCHANGED <<token, actor>> /\ stray' = stray \cup Straying(w, {i})
       \/ /\ flight[w][i] = "sent" /\ ~SessionOpen(using[w])
          /\ Leave(w) /\ UNCHANGED stray
    /\ UNCHANGED <<saving, result, aged, known, lease, pump, dialog, hubGen, applied, backup, history>>

(* All replies are in: results older than a day are dropped (pruneResults). *)
EndRun(w) ==
    /\ Runs(w, "sending") /\ \A i \in Entries : flight[w][i] = "none"
    /\ Ends(w)
    /\ result' = [i \in Entries |-> IF i \in aged THEN "none" ELSE result[i]] /\ aged' = {}
    /\ UNCHANGED <<saving, entry, known, token,
                   actor, flight, dialog, hub, history>>

(* The page is loaded, again or in a window just opened: nobody hears the   *)
(* replies it waited for, and the lease stays behind.                       *)
Reload(w) ==
    /\ Forgets(w) /\ Enters(w)
    /\ flight' = [flight EXCEPT ![w] = [i \in Entries |-> "none"]]
    /\ dialog' = IF Blocked(w) THEN None ELSE dialog
    /\ stray' = stray \cup Straying(w, Entries)
    /\ UNCHANGED <<storage, hubGen, applied, backup, history>>

(* A day is longer than any run: requests give up after 15 s. *)
DayPasses ==
    /\ \A w \in Windows : phase[w] = "idle"
    /\ aged' = {i \in Entries : result[i] # "none"} /\ aged' # aged
    /\ UNCHANGED <<saving, entry, result, known, token, lease, windows, hub, history>>

(***************************************************************************)
(* The hub.                                                                *)
(***************************************************************************)

(* The hub carries an action out once: a repeat, known by its reference, is *)
(* answered and changes nothing. It may refuse a first call, and sometimes  *)
(* even a repeat: that of a punch whose order was merged away (orders.ts).  *)
(* Without a session nothing happens (TryLater).                            *)
Handle(i, answer, wire) ==
    /\ \/ answer = "ok" /\ applied' = applied \cup {i} /\ reached' = reached \cup {i}
          /\ stray' = {m \in wire : m[1] # i}
       \/ answer = "refused" /\ stray' = wire /\ UNCHANGED <<applied, reached>>
    /\ UNCHANGED <<hubGen, backup, discarded, dropped>>

Receive(w, i) ==
    /\ flight[w][i] = "sent" /\ SessionOpen(using[w])
    /\ \E answer \in {"ok", "refused"} :
        /\ flight' = [flight EXCEPT ![w][i] = answer]
        /\ Handle(i, answer, stray)
    /\ UNCHANGED <<storage, actor, pump, dialog>>

ReceiveStray(m) ==
    /\ \E answer \in {"ok", "refused"} : Handle(m[1], answer, stray \ {m})
    /\ UNCHANGED <<storage, windows>>

(* Signing out, or a 401 of any screen. Sessions of one generation are      *)
(* alike: requests of an earlier one may be handled, as if just before its  *)
(* end.                                                                     *)
SignOut(w) ==
    /\ token # None \/ actor[w] # None
    /\ ~Blocked(w) /\ Leave(w)
    /\ UNCHANGED <<saving, entry, result, aged, known, lease, pump, flight, dialog, hub, history>>

(* The session of who signs in takes the place of the one in storage, also  *)
(* of one that another window works with.                                   *)
SignIn(w, u) ==
    /\ actor[w] = None
    /\ token' = <<u, hubGen>> /\ actor' = [actor EXCEPT ![w] = u]
    /\ UNCHANGED <<saving, entry, result, aged, known, lease, pump, flight, dialog, hub, history>>

Backup ==
    /\ hubGen < MaxRestores
    /\ backup' = applied
    /\ UNCHANGED <<storage, windows, stray, hubGen, applied, history>>

(* The backup is installed and a new generation drawn.                      *)
Restore ==
    /\ backup # None /\ hubGen < MaxRestores
    /\ hubGen' = hubGen + 1 /\ applied' = backup
    /\ stray' = {m \in stray : SessionOpen(m[2])'}
    /\ UNCHANGED <<storage, windows, backup, history>>

-----------------------------------------------------------------------------

WindowStep(w) ==
    \/ StartPump(w) \/ CheckFails(w) \/ CheckRefused(w) \/ Archive(w)
    \/ \E ds \in SUBSET Due(actor[w]) : SendDue(w, ds)
    \/ \E i \in Entries : Receive(w, i) \/ Done(w, i) \/ Refused(w, i) \/ TryLater(w, i)
    \/ EndRun(w) \/ Reload(w)

StaffStep(w) ==
    \/ \E l \in Lanes : SaveOne(w, l) \/ SavePair(w, l)
    \/ \E i \in Entries : Retry(w, i) \/ AskDiscard(w, i)
    \/ \E u \in Staff : SignIn(w, u)
    \/ SignOut(w)

Next ==
    \/ \E w \in Windows : WindowStep(w)
    \/ \E w \in Windows : StaffStep(w)
    \/ CloseDialog \/ \E i \in Entries : Discard(i)
    \/ \E m \in stray : ReceiveStray(m)
    \/ LeaseRunsOut \/ DayPasses \/ Backup \/ Restore

Spec == Init /\ [][Next]_vars

-----------------------------------------------------------------------------
(* Properties. *)

SameDatabase(i, j) == lane[i] = lane[j] /\ gen[i] = gen[j]
SameQueue(i, j)    == SameDatabase(i, j) /\ by[i] = by[j]

(* The hub gets what one staff member saved for one order in the order it   *)
(* was saved, however many windows send, whoever signs in meanwhile,        *)
(* replies are lost or runs overlap: an action has happened only if every   *)
(* earlier one has, or staff gave it up (dueEntries). Between two staff     *)
(* members the code keeps no order: who signs in next sends past what the   *)
(* one before saved, though queue-core.ts says of lanes that entries for    *)
(* the same order go in order.                                              *)
LaneInOrder ==
    \A i, j \in Saved :
        i < j /\ SameQueue(i, j) /\ j \in applied => i \in applied \cup discarded

(* A payment saved with its bill is recorded only after that very bill,     *)
(* even when the bill was discarded while a reply was on its way (the       *)
(* `after` of sendEntry).                                                   *)
PaymentFollowsBill == \A j \in chained : j \in applied => j - 1 \in applied

(* An action leaves the browser's storage only when the hub has done it,    *)
(* staff discarded it, or a restore archived it: never through a dropped    *)
(* connection, a reload or a second window.                                 *)
NothingLost ==
    \A i \in Saved : entry[i] = "none" => i \in reached \cup discarded \/ gen[i] < known

(* A database that was restored never carries out an action meant for the   *)
(* one before it (QueueEntry.generation, and the sessions recovery.ts       *)
(* deletes): also not one that was on the wire during the restore.          *)
RestoredNeverReceivesOlder ==
    [][\A i \in applied' \ applied : hubGen' = hubGen => gen[i] = hubGen]_vars

(* An action that was discarded while no window waited for its reply does   *)
(* not come back (discardEntry).                                            *)
DiscardHolds == \A i \in dropped : entry[i] = "none" /\ ~InFlight(i)

(* "Sends a stopped entry again on the next run" (retryEntry): an action    *)
(* that waits for an earlier one can go only while that one is in storage,  *)
(* or its result. Refuted: pruneResults drops the result after a day, then  *)
(* the action is never due, holds up its order and is not offered for       *)
(* discarding.                                                              *)
RetriedCanGo ==
    [][\A j \in chained : entry[j] = "attention" /\ entry'[j] = "pending" =>
            entry'[j - 1] # "none" \/ result'[j - 1] # "none"]_vars

(* The values the variables have.                                           *)
TypeOK ==
    /\ last \in 0..MaxEntries /\ by \in [Entries -> Staff \cup {None}]
    /\ lane \in [Entries -> Lanes \cup {None}]
    /\ chained \subseteq 2..last
    /\ gen \in [Entries -> Generations]
    /\ entry \in [Entries -> {"none", "pending", "attention"}]
    /\ result \in [Entries -> {"none", "done", "discarded"}] /\ aged \subseteq Entries
    /\ known \in Generations /\ token \in Sessions \cup {None}
    /\ lease \in Windows \cup {None}
    /\ actor \in [Windows -> Staff \cup {None}] /\ sender \in [Windows -> (Staff \X Sessions) \cup {None}]
    /\ phase \in [Windows -> {"idle", "told", "sending"}]
    /\ told \in [Windows -> Generations] /\ using \in [Windows -> Generations \cup {None}]
    /\ flight \in [Windows -> [Entries -> {"none", "sent", "ok", "refused"}]]
    /\ dialog \in (Windows \X Entries) \cup {None}
    /\ stray \subseteq Entries \X Generations
    /\ hubGen \in Generations /\ applied \subseteq Entries
    /\ backup \in (SUBSET Entries) \cup {None}
    /\ reached \subseteq Entries /\ discarded \subseteq Entries /\ dropped \subseteq Entries
=============================================================================
