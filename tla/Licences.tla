------------------------------ MODULE Licences ------------------------------
(***************************************************************************)
(* Licences of the counters: the licensing service (a Worker over a D1     *)
(* database, apps/licensing-worker/src) and the part of a counter's hub    *)
(* that fetches and installs them (apps/server/src/licensing.ts).          *)
(*                                                                         *)
(* A call of the service reads, signs the next revision for each counter   *)
(* and writes one batch, with awaits between; other calls run there, and   *)
(* the Worker may die there.  A batch is a transaction: it fails as a      *)
(* whole when a revision is taken (primary key) or a CHECK on seats_used   *)
(* breaks.  The time is a day; calls take milliseconds, so a day ends      *)
(* between calls.  What a call reads before its first await counts as one  *)
(* step.  There is one customer; what a licence allows (plan, modules,     *)
(* devices), the end dates staff set by hand and the secret a hub shows    *)
(* are left out.                                                           *)
(***************************************************************************)
EXTENDS Integers, FiniteSets

CONSTANTS
    Counters,
    Sales,       \* orders of the portal
    Kind,        \* "new", "renewal" or "trial"
    Term,        \* days the order sells
    Outlets,     \* seats it sells; a renewal none
    GraceDays,
    Slots,       \* bound: calls in flight
    None,
    MaxNow,      \* bound: days
    MaxRevision, \* bound: a counter with this revision enrols on no other order
    MaxTroubles  \* bound: steps outside the usual course: what staff ask for a counter, and what goes wrong

ASSUME LicencesAssumption ==
    /\ Kind \in [Sales -> {"new", "renewal", "trial"}]
    /\ Term \in [Sales -> Nat \ {0}]  /\ Outlets \in [Sales -> Nat]
    /\ \A s \in Sales : Kind[s] = "renewal" => Outlets[s] = 0
    /\ {GraceDays, MaxNow, MaxRevision, MaxTroubles} \subseteq Nat
    /\ None \notin Counters \cup Sales

VARIABLES
    now,
    known,   \* counters with a row in installations
    seat,    \* installations.order_id
    floor,   \* installations.revision_floor
    issued,  \* licenses: the revisions of every counter
    status,  \* orders.status; "none" before it is drafted
    credit,  \* orders.credit_until, 0 for none
    used,    \* orders.seats_used
    targets, \* order_installations
    held,    \* the licence installed on the counter's hub
    post,    \* the licence on its way to the hub, as a reply or a file
    calls,   \* the calls at work
    troubles

database == <<known, seat, floor, issued, status, credit, used, targets>>
licenceVars == <<now, database, held, post, calls, troubles>>

NoLicence == [rev |-> 0, issued |-> 0, until |-> 0, trial |-> FALSE, order |-> None, reason |-> "none"]

LicencesInit ==
    /\ now = 0
    /\ known = {}
    /\ seat    = [c \in Counters |-> None]
    /\ floor   = [c \in Counters |-> 0]
    /\ issued  = [c \in Counters |-> {}]
    /\ status  = [s \in Sales |-> "none"]
    /\ credit  = [s \in Sales |-> 0]
    /\ used    = [s \in Sales |-> 0]
    /\ targets = [s \in Sales |-> {}]
    /\ held    = [c \in Counters |-> NoLicence]
    /\ post    = [c \in Counters |-> NoLicence]
    /\ calls   = [k \in Slots |-> None]
    /\ troubles = 0

\* The step is one of the few a behaviour has outside the usual course.
Unusual == troubles < MaxTroubles /\ troubles' = troubles + 1

-----------------------------------------------------------------------------
(* What the service reads.                                                 *)

Larger(m, n)  == IF m > n THEN m ELSE n
Smaller(m, n) == IF m < n THEN m ELSE n

Latest(c) == CHOOSE l \in issued[c] \cup {NoLicence} : \A m \in issued[c] : m.rev <= l.rev

NextRevision(c) == Larger(Latest(c).rev, floor[c]) + 1

GraceEnd(l) == IF l.trial THEN l.until ELSE l.until + GraceDays

\* The day of the order's first activation, or today.
TermStart(s) ==
    LET days == {l.issued : l \in {m \in UNION {issued[c] : c \in Counters} : m.order = s}}
    IN  IF days = {} THEN now ELSE CHOOSE d \in days : \A e \in days : d <= e

OrderEnd(s) == TermStart(s) + Term[s]

\* Nothing that activationBlocker refuses.
MayActivate(s) ==
    /\ Kind[s] # "renewal"
    /\ \/ status[s] = "paid"
       \/ status[s] = "confirmed" /\ (Kind[s] = "trial" \/ credit[s] > now)

\* Where a licence of the order ends.
TermsEnd(s, creditUntil) ==
    IF Kind[s] = "trial" \/ status[s] = "paid" \/ creditUntil = 0 THEN OrderEnd(s)
    ELSE Smaller(OrderEnd(s), creditUntil)

HoldsPaid(c) == Latest(c).until > now /\ ~Latest(c).trial

Draft(c, until, trial, order, reason) ==
    [counter |-> c, rev |-> 0, until |-> until, trial |-> trial, order |-> order, reason |-> reason]

\* The latest licence of a counter, to be signed again as it is.
Again(c, until) == Draft(c, until, Latest(c).trial, Latest(c).order, "manual")

-----------------------------------------------------------------------------
(* Calls.                                                                  *)

Free == {k \in Slots : calls[k] = None}

\* The first free slot takes the call.
Begin(call) ==
    \E k \in Free : /\ \A j \in Free : k <= j
                    /\ calls' = [calls EXCEPT ![k] = call]

Goes(k, phase) == calls' = [calls EXCEPT ![k].phase = phase]
Ends(k) == calls' = [calls EXCEPT ![k] = None]

\* nextRevision, read for every licence the call is about to write.
Sign(k) ==
    /\ calls[k].phase = "signing"
    /\ calls' = [calls EXCEPT ![k].phase  = "writing",
                              ![k].drafts = {[d EXCEPT !.rev = NextRevision(d.counter)] : d \in @}]
    /\ UNCHANGED <<now, database, held, post, troubles>>

LicenceOf(d) ==
    [rev |-> d.rev, issued |-> now, until |-> d.until, trial |-> d.trial, order |-> d.order, reason |-> d.reason]

\* The primary key of licenses.
Unused(drafts) == \A d \in drafts : \A l \in issued[d.counter] : l.rev # d.rev

Insert(drafts) ==
    issued' = [c \in Counters |-> issued[c] \cup {LicenceOf(d) : d \in {e \in drafts : e.counter = c}}]

\* A licence goes out to the counter, and the floor rises with it.
HandOut(c, l) ==
    /\ post'  = [post EXCEPT ![c] = l]
    /\ floor' = [floor EXCEPT ![c] = Larger(@, l.rev)]

\* The latest licence, unless the counter has it.
HandOutLatest(c, current) ==
    IF Latest(c).rev > current THEN HandOut(c, Latest(c)) ELSE UNCHANGED <<post, floor>>

-----------------------------------------------------------------------------
(* A counter takes a seat (enroll.ts, installations.ts).                   *)

\* createInstallation: a counter with a hand-issued licence keeps its revision as the floor.
Known(c) ==
    /\ known' = known \cup {c}
    /\ floor' = IF c \in known THEN floor ELSE [floor EXCEPT ![c] = held[c].rev]

\* A term that has run out activates no more counters; a full order neither.
TakesCounters(s) == OrderEnd(s) > now /\ used[s] < Outlets[s]

Assign(c, s, by) ==
    [op |-> "assign", phase |-> "signing", counter |-> c, order |-> s, from |-> seat[c], by |-> by, current |-> held[c].rev,
     drafts |-> {Draft(c, TermsEnd(s, credit[s]), Kind[s] = "trial", s, "order")}]

\* POST /v1/enroll up to the signing.
Enrol(c, s) ==
    /\ MayActivate(s)
    /\ \/ /\ c \in known /\ seat[c] = s
          /\ HandOutLatest(c, held[c].rev)
          /\ UNCHANGED <<known, calls>>
       \/ /\ seat[c] # s
          /\ TakesCounters(s)
          /\ ~(Kind[s] = "trial" /\ seat[c] # None /\ HoldsPaid(c))
          /\ Latest(c).rev < MaxRevision
          /\ Known(c)
          /\ Begin(Assign(c, s, "enrol"))
          /\ UNCHANGED post
       \/ /\ c \notin known
          /\ ~TakesCounters(s)
          /\ Known(c)
          /\ UNCHANGED <<post, calls>>
    /\ UNCHANGED <<now, seat, issued, status, credit, used, targets, held, troubles>>

\* POST /orders/:id/offline-licence up to the signing: the counter's request comes as a file.
OfflineLicence(c, s) ==
    /\ Unusual
    /\ MayActivate(s)
    /\ \/ /\ seat[c] = s
          /\ post' = [post EXCEPT ![c] = Latest(c)]
          /\ UNCHANGED <<known, floor, calls>>
       \/ /\ seat[c] # s
          /\ TakesCounters(s)
          /\ Known(c)
          /\ Begin(Assign(c, s, "file"))
          /\ UNCHANGED post
       \/ /\ c \notin known
          /\ ~TakesCounters(s)
          /\ Known(c)
          /\ UNCHANGED <<post, calls>>
    /\ UNCHANGED <<now, seat, issued, status, credit, used, targets, held>>

\* POST /installations/:id/move up to the signing, of a counter that has enrolled once.
Move(c, s) ==
    /\ Unusual
    /\ issued[c] # {}
    /\ seat[c] # s  /\ MayActivate(s)  /\ TakesCounters(s)
    /\ Begin(Assign(c, s, "move"))
    /\ UNCHANGED <<now, database, held, post>>

\* The batch of assignSeat.  It takes the seat back on the order the call read.
SeatsAfter(call) ==
    LET taken == [used EXCEPT ![call.order] = @ + 1]
    IN  IF call.from = None THEN taken ELSE [taken EXCEPT ![call.from] = @ - 1]

WriteSeat(k) ==
    LET call == calls[k]  c == call.counter  s == call.order IN
    /\ call.op = "assign"  /\ call.phase = "writing"
    /\ \/ /\ Unused(call.drafts)
          /\ \A t \in Sales : SeatsAfter(call)[t] \in 0..Outlets[t]
          /\ used' = SeatsAfter(call)
          /\ seat' = [seat EXCEPT ![c] = s]
          /\ Insert(call.drafts)
          /\ IF call.by # "move" THEN \A d \in call.drafts : HandOut(c, LicenceOf(d)) ELSE UNCHANGED <<post, floor>>
       \/ /\ ~Unused(call.drafts) \/ \E t \in Sales : SeatsAfter(call)[t] \notin 0..Outlets[t]
          /\ IF call.by = "enrol" /\ seat[c] = s THEN HandOutLatest(c, call.current) ELSE UNCHANGED <<post, floor>>
          /\ UNCHANGED <<used, seat, issued>>
    /\ Ends(k)
    /\ UNCHANGED <<now, known, status, credit, targets, held, troubles>>

\* POST /installations/:id/release.  The batch changes nothing unless the counter still holds the seat that was read.
Release(c) ==
    /\ Unusual
    /\ seat[c] # None
    /\ used[seat[c]] > 0
    /\ used' = [used EXCEPT ![seat[c]] = @ - 1]
    /\ seat' = [seat EXCEPT ![c] = None]
    /\ UNCHANGED <<now, known, floor, issued, status, credit, targets, held, post, calls>>

\* POST /installations/:id/replace up to the signing: a new computer takes over a seat and its licence.
Replace(old, new) ==
    /\ Unusual
    /\ old # new
    /\ seat[old] # None  /\ GraceEnd(Latest(old)) > now
    /\ new \in known  /\ seat[new] = None
    /\ Begin([op |-> "replace", phase |-> "signing", counter |-> new, order |-> seat[old], from |-> old,
              drafts |-> {[Again(old, Latest(old).until) EXCEPT !.counter = new]}])
    /\ UNCHANGED <<now, database, held, post>>

\* Its batch fails unless the old counter still holds the seat and the new one none.  Renewals that wait for payment follow.
WriteReplace(k) ==
    LET call == calls[k]  old == call.from  new == call.counter IN
    /\ call.op = "replace"  /\ call.phase = "writing"
    /\ \/ /\ Unused(call.drafts)  /\ seat[old] = call.order  /\ seat[new] = None
          /\ seat' = [seat EXCEPT ![old] = None, ![new] = call.order]
          /\ targets' = [s \in Sales |-> IF /\ status[s] \in {"draft", "confirmed"}
                                           /\ old \in targets[s]  /\ new \notin targets[s]
                                         THEN (targets[s] \ {old}) \cup {new} ELSE targets[s]]
          /\ Insert(call.drafts)
       \/ /\ ~Unused(call.drafts) \/ seat[old] # call.order \/ seat[new] # None
          /\ UNCHANGED <<seat, targets, issued>>
    /\ Ends(k)
    /\ UNCHANGED <<now, known, floor, status, credit, used, held, post, troubles>>

-----------------------------------------------------------------------------
(* A licence is signed again (issue.ts, installations.ts).                 *)

\* PATCH /installations/:id/modules and POST /installations/:id/licence, up to the signing.
Resign(c) ==
    /\ Unusual
    /\ Latest(c).until > now
    /\ Begin([op |-> "resign", phase |-> "signing", counter |-> c, drafts |-> {Again(c, Latest(c).until)}])
    /\ UNCHANGED <<now, database, held, post>>

WriteResign(k) ==
    /\ calls[k].op = "resign"  /\ calls[k].phase = "writing"
    /\ IF Unused(calls[k].drafts) THEN Insert(calls[k].drafts) ELSE UNCHANGED issued
    /\ Ends(k)
    /\ UNCHANGED <<now, known, seat, floor, status, credit, used, targets, held, post, troubles>>

\* GET /installations/:id/licence: the latest licence as a file; the floor stays.
Download(c) ==
    /\ Unusual
    /\ issued[c] # {}
    /\ post' = [post EXCEPT ![c] = Latest(c)]
    /\ UNCHANGED <<now, database, held, calls>>

-----------------------------------------------------------------------------
(* The hourly check (activate.ts).                                         *)

\* Bug: what the counter may have lost is taken as held.
NewsForFloor(c, current) == IF Latest(c).rev > Larger(current, floor[c]) THEN {Latest(c)} ELSE {}

\* The licence the reply carries, as a set of one or none.
News(c, current) == IF Latest(c).rev > current THEN {Latest(c)} ELSE {}

Answer(c, current) ==
    IF News(c, current) = {} THEN UNCHANGED <<post, floor>> ELSE \A l \in News(c, current) : HandOut(c, l)

\* POST /v1/activate.  A revision above the floor was issued by hand: the floor rises first.
Check(c) ==
    /\ c \in known
    /\ \/ /\ held[c].rev <= floor[c]
          /\ Answer(c, held[c].rev)
          /\ UNCHANGED calls
       \/ /\ held[c].rev > floor[c]
          /\ floor' = [floor EXCEPT ![c] = held[c].rev]
          /\ Begin([op |-> "check", phase |-> "looking", counter |-> c, current |-> held[c].rev, drafts |-> {}])
          /\ UNCHANGED post
    /\ UNCHANGED <<now, known, seat, issued, status, credit, used, targets, held, troubles>>

\* A current paid licence the counter would refuse is signed again above it.
Recheck(k) ==
    LET c == calls[k].counter  l == Latest(c) IN
    /\ calls[k].op = "check"  /\ calls[k].phase = "looking"
    /\ \/ /\ HoldsPaid(c)  /\ l.rev <= calls[k].current
          /\ calls' = [calls EXCEPT ![k].phase = "signing", ![k].drafts = {Again(c, l.until)}]
          /\ UNCHANGED <<post, floor>>
       \/ /\ ~HoldsPaid(c) \/ l.rev > calls[k].current
          /\ Answer(c, calls[k].current)
          /\ Ends(k)
    /\ UNCHANGED <<now, known, seat, issued, status, credit, used, targets, held, troubles>>

\* INSERT OR IGNORE; whatever is the latest then goes out.
WriteRecheck(k) ==
    /\ calls[k].op = "check"  /\ calls[k].phase = "writing"
    /\ IF Unused(calls[k].drafts) THEN Insert(calls[k].drafts) ELSE UNCHANGED issued
    /\ Goes(k, "answering")
    /\ UNCHANGED <<now, known, seat, floor, status, credit, used, targets, held, post, troubles>>

AnswerRecheck(k) ==
    /\ calls[k].op = "check"  /\ calls[k].phase = "answering"
    /\ Answer(calls[k].counter, calls[k].current)
    /\ Ends(k)
    /\ UNCHANGED <<now, known, seat, issued, status, credit, used, targets, held, troubles>>

-----------------------------------------------------------------------------
(* The hub.                                                                *)

\* Licensing.activate: a newer licence that has not run out replaces the one held.
Install(c) ==
    /\ post[c].rev > held[c].rev
    /\ GraceEnd(post[c]) > now
    /\ held' = [held EXCEPT ![c] = post[c]]
    /\ post' = [post EXCEPT ![c] = NoLicence]
    /\ UNCHANGED <<now, database, calls, troubles>>

\* The reply is lost or comes too late, the file is mislaid, or the hub refuses it.
Lose(c) ==
    /\ Unusual
    /\ post[c] # NoLicence
    /\ post' = [post EXCEPT ![c] = NoLicence]
    /\ UNCHANGED <<now, database, held, calls>>

\* MasalaPOS signs a licence for a counter by hand, outside the service.
HandIssue(c) ==
    /\ Unusual
    /\ held[c] # NoLicence \/ c \notin known
    /\ held[c].reason # "hand"
    /\ held' = [held EXCEPT ![c] = [NoLicence EXCEPT !.rev = held[c].rev + 1, !.issued = now, !.until = now + 1, !.reason = "hand"]]
    /\ UNCHANGED <<now, database, post, calls>>

\* The hub's database is a backup from before its activation.
HubRestored(c) ==
    /\ Unusual
    /\ held[c] # NoLicence
    /\ held' = [held EXCEPT ![c] = NoLicence]
    /\ UNCHANGED <<now, database, post, calls>>

Die(k) ==
    /\ calls[k] # None
    /\ Unusual
    /\ Ends(k)
    /\ UNCHANGED <<now, database, held, post>>

Tick ==
    /\ now < MaxNow
    /\ Free = Slots
    /\ now' = now + 1
    /\ UNCHANGED <<database, held, post, calls, troubles>>

-----------------------------------------------------------------------------
CounterStep(k) == WriteSeat(k) \/ WriteReplace(k) \/ WriteResign(k) \/ Recheck(k) \/ WriteRecheck(k) \/ AnswerRecheck(k)

LicencesNext ==
    \/ \E c \in Counters, s \in Sales : Enrol(c, s) \/ OfflineLicence(c, s) \/ Move(c, s)
    \/ \E c \in Counters : Release(c) \/ Resign(c) \/ Download(c) \/ Check(c)
    \/ \E c \in Counters : Install(c) \/ Lose(c) \/ HandIssue(c) \/ HubRestored(c)
    \/ \E old, new \in Counters : Replace(old, new)
    \/ \E k \in Slots : calls[k] # None /\ (Sign(k) \/ CounterStep(k) \/ Die(k))
    \/ Tick
=============================================================================
