# MasalaPOS: models, checks and proofs

MasalaPOS is a restaurant point of sale that runs on the restaurant's own PC. This directory holds TLA+ models of its
core, the TLC configurations that check them on small instances, and TLAPS proofs of what holds for every instance.
Paths below are relative to the repository root (`apps/...`, `packages/...`); `S/` stands for `apps/server/src/` and
`D/` for `packages/domain/src/`.

## 1. The system

One Node process, the *hub*, owns one SQLite database. Counters, captains' phones, the kitchen screen and guests' phones
are browsers that call it over HTTP. `better-sqlite3` is synchronous and Node runs one handler at a time, so **a handler
without `await` is atomic**, and its writes are one transaction. The hard behaviour is what happens *between* handlers and
in the few places where a handler does wait: the check of an admin PIN, the bytes sent to a printer, an upload.
Counters retry requests whose reply was lost; every write therefore carries a client reference (`clientRef`) that
the hub stores next to what it wrote.

| Component (source) | State | Operations | Talks to | Hard behaviour | Correct when |
|---|---|---|---|---|---|
| Orders and lines (`S/orders.ts`, `order-items.ts`, `combos.ts`) | orders, order lines | create, punch, edit, cancel line, cancel order | stock, tickets, bills | several counters, retries after a lost reply, combos as one dish | a combo is never half edited, a replayed punch adds nothing |
| Kitchen tickets (`S/kots.ts`, `kot-edit.ts`) | kots, kot_requests, kot_edits, holds | send, fire, done, edit a sent line | stock, print queue, Zomato status | stale screens, holds, stations that change | what is marked sent is on a ticket, at a station of its dish and with its order; sent dishes only ever shrink |
| Stock of sales (`D/stock.ts`) | append-only stock_moves | consume, return part, reverse | lines | recipes change between sale and return | ledger = recipe x portions |
| Table transfer (`S/table-transfer.ts`) | table_links, order_table_events | move, merge | orders, lines, tickets | merges of merges, racing a bill | every line ends on the order that pays |
| Billing (`S/billing.ts`, `D/billing.ts`) | bills, payments, settlements | preview, issue, settle | orders, stock, credit notes | PIN check between pricing and writing, two requests with one reference | one bill per order, as reviewed, paid once |
| Zomato desk (`S/zomato-desk.ts`) | orders.zomato_status | ready, picked up | billing | races the kitchen's Done and Send | not ready with a dish still to go to the kitchen, handed over only from ready, billed when handed over |
| Credit notes (`S/credit-notes.ts`, `D/credit-notes.ts`) | credit_notes, refund_payments | void, refund | bills, orders, loyalty | PIN check; concurrent refunds; rounding of partial credits | never more money back than was paid |
| Print queue (`S/print/queue.ts`) | print_jobs | enqueue, print, retry, confirm | printers | crash between bytes and commit, restored backup | no slip lost, none printed twice unasked |
| Counter's offline queue (`apps/ui/src/queue-core.ts`, `retry-queue.ts`) | actions saved in the browser | save, send, retry, discard | hub | lost replies, two windows, crash, dependent actions | every saved action reaches the hub once, those of one person on one order in order, or is shown to who saved it |
| Tables and reservations (`S/tables.ts`, `reservations.ts`, `reservation-rules.ts`) | tables, links, reservations | open on table, move, link, reserve, seat, deactivate | orders | several counters choose one table; a slot is checked once and held through moves and merges | slots do not overlap, tables in use are active |
| Guest ordering (`S/guest-ordering.ts`, `guest-services.ts`) | guest_requests | submit, accept, reject | orders | two waiters accept, table turns over | a request becomes lines once, and no walk-in order by this door |
| Shifts (`S/shifts.ts`) | shifts, cash movements | open, close, day close | payments, refunds | time windows at their edges | a drawer nobody miscounts is neither over nor short; a closed day does not change |
| Loyalty (`S/loyalty.ts`, `D/loyalty-expiry.ts`) | loyalty_ledger | earn, redeem, expire, reverse | bills, credit notes | points spent on two open orders, expiry before a sweep wrote it down, voids of bills that paid with points | a redemption is backed, no point is taken twice |
| Backups and recovery (`S/backups.ts`, `recovery.ts`, `restore-staging.ts`, `cloud-backups.ts`) | files, upload queue | back up, stage, restore, upload | database file | crash between renames; stale upload results | one whole database after any crash; a backup goes to its own account, and goes there in the end |
| Sign-in (`S/auth.ts`, `pin-throttle.ts`) | sessions, failure counters | login, approve | billing, credits | counted before an asynchronous check | wrong PINs are all counted |
| Hub process (`S/main.ts`, `server.ts`, `startup.ts`, `data-lock.ts`) | process, data lock | start, stop | everything | restart with calls waiting | database survives, waiting calls do not |
| Licensing on the hub (`S/licensing.ts`) | the licence installed, devices | check hourly, install | licensing service | lost replies, a restored backup, a licence signed by hand | the newest licence arrives |
| Licensing service and owner portal (`apps/licensing-worker`, with `apps/licensing-node` and `apps/portal`; `W/` below is `apps/licensing-worker/src/`) | counters, licences, orders, payments, links, webhook events in one D1 database | enrol, check, move, release, replace, re-sign; draft, confirm, credit, pay, settle, cancel | hubs, Razorpay | every call awaits between its reads and its batch; the Worker may die there; webhooks repeat | a term is given once, paid money completes its order |
| Live updates (`S/ws.ts`), catalog, reports, AI, remote support, desktop shells, screens | - | - | - | presentation or read-only | - |

`PROJECT.json` lists every component with its status and, under `hazards`, the places in the code where the hard
behaviour bites, each with the properties that would notice it going wrong.

## 2. The modules

| Module | Models | State | Actions |
|---|---|---|---|
| `Orders` | orders.ts, kots.ts, kot-edit.ts, `Merge` of table-transfer.ts, stock.ts of the domain, station change of catalog.ts | orders (`status`, `mergedInto`, `zomato`), lines (`rowOrder`, `rowStatus`, `qty`, `held`, `ticket`, `cut`, `station`), the ledger per line (`unit`, `sold`, `returned`, `reversed`), tickets (`kotOrder`, `kotDone`, `sends`) | `CreateOrder`, `AddItems`, `UpdateItem`, `CancelItem`, `CancelOrder`, `Send` (and Fire), `KotDone`, `EditSent`, `Merge`, `ChangeStation` |
| `Billing` | billing.ts, zomato-desk.ts, the PIN-checked calls of credit-notes.ts; EXTENDS `Orders`, whose steps go on between any two of its own | bills, money, the requests counters retry (`attempt`), the calls that wait (`call`) | `Preview`, `BillArrives`/`BillCommits`/`BillNotIssued`, `Settle`, `ZomatoReady`, `PickedUp`, `CreditArrives`/`VoidCommits`/`RefundCommits`/`CreditRefused`, `Restart` |
| `Tabs` | the promise to a guest, independent of the code: a dish is taken off or charged on exactly one bill | `fate`, `on`, `bill` | `Punch`, `TakeOff`, `Charge`, `Pay`, `Void` |
| `PrintQueue` | print/queue.ts, with the transports of print/sinks.ts as their outcomes, and the restore of recovery.ts as one step | the rows (`printer`, `status`, `attempts`), `savedGen` and `fileGen`, the newest backup (`snapshot`), the queue's memory (`locked`, `loops`, `wake`, `stopped`), what the printer got and staff asked (`sent`, `asked`) | `Enqueue`, `Wake`, `Retry`, `ConfirmPrinted`, `Take`, `Finish`, `Finally`, `StorageFails`, `Close`/`Closed`, `Crash`, `Open`/`Hold`/`Start`, `Backup`, `Restore` |
| `OfflineQueue` | queue-core.ts and retry-queue.ts of the counter, against a hub that applies a reference once, checks sessions and may be restored | the browser's storage (`entry`, `by`, `result`, `aged`, `known`, `token`, `lease`), each window (`actor`, `phase`, `sender`, `told`, `using`, `flight`, `dialog`), the wire (`stray`), the hub (`hubGen`, `applied`, `backup`) | `SaveOne`, `SavePair`, `Retry`, `AskDiscard`/`Discard`/`CloseDialog`, `StartPump`, `CheckFails`, `CheckRefused`, `Archive`, `SendDue`, `Receive`, `Done`, `Refused`, `TryLater`, `EndRun`, `Reload`, `ReceiveStray`, `LeaseRunsOut`, `DayPasses`, `SignIn`, `SignOut`, `Backup`, `Restore` |
| `Seating` | where parties sit: the table rules of orders.ts, table-transfer.ts, tables.ts, reservations.ts, reservation-rules.ts, and the review of guests' orders in guest-ordering.ts | tables (`active`, `tier`), orders (`status`, `table`, `label`, `charged`, `into`), `links`, `booking`, `request`, the clock `now` | `OpenOrder`, `Bill`, `Close`, `Move`, `Merge`, `SetActive`, `SetTier`, `Book`, `CallOff`, `Seat`, `Submit`, `Reject`, `AcceptInto`, `AcceptNew`, `Tick` |
| `CreditNotes` | the arithmetic of credit-notes.ts of the domain and of the hub | per bill `billStatus`, `paid`, `refunded`; per line `creditQty`, `credited` | `Issue`, `Settle`, `Refund`, `Void` |
| `Loyalty` | loyalty-expiry.ts, loyalty.ts and the ledger side of billing.ts, credit-notes.ts, customers.ts; EXTENDS `CreditNotes`, each of whose actions becomes the whole handler with its rows of the ledger | `ledger`, `now`, `redeemed` | `IssueBill`, `SettleBill`, `RefundBill`, `VoidBill`, `Adjust`, `SweepAll`, `TimePasses` |
| `Shifts` | shifts.ts and the day-end report of reports.ts over payments, refunds and cancellations | `shifts` rows (`cashier`, `opened`, `float`, `closed`, `expected`, `moved`), orders and bills with their dates (`tab`, `openedOn`, `issuedOn`, `endedOn`), `cash`, `saved`; the money really in a drawer (`drawer`) | `OpenShift`, `CashMovement`, `CloseShift`, `OpenTab`, `IssueBill`, `CancelTab`, `SettleBill`, `RefundBill`, `VoidUnpaid`, `CloseDay`, `TimePasses` |
| `Restore` | recovery.ts, one action per file operation, with the start of main.ts and what SQLite does to the files beside a database | files (`live`, `staged`, `archive`, `pending`, `generation`), the process (`hub`, `source`), histories | `Launch`, `Copy`, `Copied`, `Announce`, `PutAway`, `AllPutAway`, `Install`, `StartSignOut`, `SignOut`, `Renew`, `Finish`, `Forget`, `Refuse`, `GiveUp`, `Serve`, `Stop`, `Crash` |
| `CloudUploads` | cloud-backups.ts, the account of google-drive.ts, retention of backups.ts | `disk`, `drive`, `queue`, `owner`, `uploaded`, the `worker` and the calls of Disconnect (`leaving`, `stopping`) | `Backup`, `BackupAtUpdate`, `SetAutomatic`, `SignIn`, `CredentialRefused`, `Retry`, `Disconnect`/`Unlink`/`Disconnected`, `Minute`, `Continue`, `Confirm`, `Fail`, `Pruned`, `CloudGone` |
| `HubData` | main.ts and startup.ts: `Restore` before the hub serves, `CloudUploads` while it does, a backup before a migration in between | both | `Start`, `Open`, `End` and the steps of `CloudUploads` |
| `Licences` | enroll.ts, activate.ts, issue.ts, store.ts, orders.ts and portal/installations.ts of the licensing service, with the hub's side in `S/licensing.ts` | the database (`known`, `seat`, `floor`, `issued`, `status`, `credit`, `used`, `targets`), `now`, what each hub holds (`held`), what is on its way (`post`), the `calls` at work | `Enrol`, `OfflineLicence`, `Move`, `WriteSeat`, `Release`, `Replace`/`WriteReplace`, `Resign`/`WriteResign`, `Download`, `Check`/`Recheck`/`WriteRecheck`/`AnswerRecheck`, `Sign`, `Install`, `Lose`, `HandIssue`, `HubRestored`, `Die`, `Tick` |
| `LicenceSales` | portal/order-routes.ts, payments.ts, fulfil.ts and webhook.ts; EXTENDS `Licences` | `cleared`, `recorded`, `link`, `razorpay`, `owing`, `event` | `CreateOrder`, `Confirm`, `Credit`/`LookCredit`/`WriteCredit`, `Cancel`, `Pay`/`WritePayment`, `SettleAgain`, `ReadOrder`/`ReadLicences`/`WriteSettle`, `CreateLink`/`FileLink`, `PayLink`, `Deliver`/`WriteLinkPayment`/`RecordEvent` |
| `BillingProofs`, `SeatingProofs`, `CreditNotesProofs`, `ShiftsProofs`, `PrintQueueProofs`, `OfflineQueueProofs`, `HubDataProofs`, `LicenceSalesProofs` | theorems about the modules they are named after; `BillingProofs` also those of `Orders`, `HubDataProofs` those of `Restore` and `CloudUploads`, `CreditNotesProofs` also those of `Loyalty` | | |
| `MC...` | the small instances TLC checks | | |

How state and actions correspond to the code:

* A line of `order_items` is a slot of `Rows`, fixed in advance with its dish: the combo it is part of, how many of it one
  combo holds, the stations its dish may be given. The slot is also the line's `client_ref`. A KOT edit splits a line into
  the rest and a cancelled copy; the copy can do nothing more, so it is the counter `cut` of the line.
* Prices, names, notes and the text of slips are data no order property depends on; they are left out of `Orders`.
  `Billing` adds a price per line. Amounts are integers of paise as in the code.
* A handler that refuses, and a replay that repeats an earlier answer, changes nothing and is a stuttering step. Where the
  *answer* matters (the punch), it is an operator of its own (`AddReply`).
* A handler that waits for a PIN is two actions. `call` is what the waiting HTTP call remembers; everything it reads again
  in its transaction is read again in the second action. `Restart` drops the waiting calls.
* `attempt` is the request a counter got by previewing a bill; it may be sent any number of times, before and after an
  answer, which covers lost replies, retries and duplicates.
* Approval is abstract: a call above the limit either gets past the PIN check or ends there.
* The amount of a refund is any amount within the money held. Which lines it credits and how each is rounded is
  the business of `CreditNotes`.

* The print queue is not atomic: each of its loops waits for its printer. What a loop does between two awaits is one action:
  `Finish` saves the result, trims the table and takes the next job before it waits again. `Enqueue` and the microtask
  it leaves are two actions, and the end of a loop and its `finally` are two, because other code may run in between.
* In the constructor every copy held is a commit of its own (`Hold`), so the hub may die between any two of them.
* What happened on paper is a history variable: `sent` counts how often the printer got the whole slip, which is decided when
  the send ends or when the hub dies during it. "Accepted by the spooler" counts as sent, as in the documentation. Jobs are
  numbered over the whole history; a job saved after the backup that was restored is `gone`, never renumbered.
* Staff confirm only a slip they hold (`ConfirmPrinted` asks for `sent > 0`); a retry after looking at the paper may be
  asked whatever they saw.

* The counter's queue runs in windows that share one `localStorage`. What a window does between two awaits is one action; the
  write after an await works on the entry *as it was when it was sent*, so `Done`, `Refused` and `TryLater` overwrite
  whatever another window has made of it meanwhile. Actions are numbered in the order of `createdAt`.
* The browser keeps one session (`token`), but each window remembers who works at it (`actor`, `retry-queue.ts:55`), and
  `session.clear` sends only the window that calls it to the sign-in screen (`Leave`). So a window may go on with one staff
  member and the session of another. A window lists, retries, discards and sends the actions of its own staff member only
  (`Lists`, `Due`), and the head of a lane is the first of *that person's* actions (`dueEntries` reads `listEntries(store, userId)`).
* `exclusively` uses a Web Lock in a secure context and else a lease of 30 s. The model has the lease: it may run out while
  its owner is still sending (a dialog or a sleeping PC stops the window, requests give up only after 15 s), and the owner
  then releases the lease of its successor. A Web Lock is the case in which that never happens.
* Backoff decides only which due actions wait a little longer: `SendDue` takes any of them. A message on the wire that nobody
  waits for any more (`stray`) is followed as long as it can still change the hub.
* A session is the generation it was opened in: a restore deletes the sessions of the backup. The hub may refuse any call;
  what it refuses is the business of the other modules.

* `Seating`: an order is closed by settling, cancelling, voiding or merging it, which is all the same to tables. `FinalOrder`
  follows `merged_into` as `finalOrderStatus` does; an order is merged once, into one still open, so there are no rings. A
  link stays in the table when its order closes and counts only while the order is live. The expiry of a guest's request is
  written by whichever handler comes next; in the model it is over when its time is (`Pending`). QR codes, menu versions and licences,
  which only refuse a request, and the five minutes by which a booking may lie in the past, are left out.
* `CreditNotes` takes the lines of a bill with their money as given constants (`Billed`); units and amounts a counter asks for
  are arbitrary, so everything it may have seen before the PIN check is covered. `Loyalty` takes the points a bill
  earns and the points a customer asks to spend as choices (tiers and settings decide them), and the number of months
  after which points expire as a choice of every write, because staff may change it. A handler reads one clock value. The
  points a void returns are returned once, since a void ends the bill: the code's `returned` and `skip` are zero.
* `Shifts`: `cash` holds payments and refunds with who took or gave them and when; `drawer` is what lies in a drawer if nobody miscounts.
  A bill is paid by one method. Sums of the report are kept as the sets of rows they sum, so nothing cancels out by accident.
* `Restore`: the files of a database are the database itself, its write-ahead log and its rollback journal, each marked with
  the database it belongs to; what SQLite does with a log beside a foreign database is ruled out by `NothingLost`. The sign-ins are deleted in a
  transaction with a rollback journal (`StartSignOut`, `SignOut`), because a backup made by `VACUUM INTO` is not in WAL mode.
* `CloudUploads`: the promise of the worker is cut where it waits (`worker`); saves succeed. The wait after the n-th failure
  doubles up to `MaxRest` minutes. `Unlink` is the local half of a disconnect, `Disconnected` what runs after Google answered.

* `Licences`: a call of the service is a record in `calls` with the phase it waits in. What it read stays in the record and may be
  stale when it is used; its batch is one action, which fails as a whole when a revision is taken or `seats_used` would leave its range
  (`Unused`, `WriteSeat`), because D1 runs a batch as a transaction. What a call reads before its first step that others can disturb is one
  action with its beginning. A licence is its revision, its end, the order it was signed for and whether it is a trial; the envelope
  and its signature are left out, so a hub refuses only what is older or has run out. The floor is what `raiseRevisionFloor` keeps of the counter's revision.
* `LicenceSales`: one link per order, one currency unit per price. `recorded` is the unique `razorpay_payment_id`; `event` is "due" until a delivery
  ends with the row in `webhook_events`, so a delivery may come again after any death of the Worker, and two may overlap.

`Billing` is related to `Tabs` by the mapping at the end of `Billing.tla`: the fate of a line is read off its status and
the bill of the order it is on. `ImplementsTabs` says that every step of the hub is a step of the guest's tab or leaves
the tab alone.

## 3. The runs

All bounds are constants of the modules or sets in the MC modules.

| Run | Question | Bounds, and why they are enough |
|---|---|---|
| `combo_zomato` | does a combo stay one dish, is what is sent at the kitchen for good, does Zomato's status follow the kitchen, is a rider never given an order with a dish still to cook, does the order freeze with its bill? | one Zomato order; a combo of two components, one of them two per combo and of a dish that may lose its station, and a second dish; quantities 1-2, three KOT requests: a combo is sent in two parts, held, fired, edited, cut and cancelled at every point, and a Ready order gets another dish |
| `orders_merge` | where do lines end after merges, and does stock follow? | three orders, so merges chain (a into b, b into c) and cross; two dishes, one may lose its station; quantities up to 3, so a line is cut twice; two recipes, so a recipe changes between lines |
| `billing_tabs` | bills, payments, voids and refunds that overlap; is the promise to the guest kept? | two orders, so a merge races a bill; a cooked dish and a bottle; two bill requests (discounts of none and of more than the limit) and two waiting calls, so every pair of bill, void and refund overlaps with a settle, a merge, an edit or a restart between |
| `print_queue` | is every slip printed as often as it was asked for and in order, every queued slip tried, and does closing end? | two printers, one on a COM port whose send may hang for ever; two jobs or one with two copies, one retry each, two crashes or storage errors, one restore of any backup: enough to crash in the constructor after a restore. One settled job is kept per kind, so trimming happens. The COM printer is used in behaviours without a backup and with one trouble (`MCNext`): it shares with the other only the trim and the wait of `Close`. More restores are covered by `PrintQueueProofs` |
| `licences` | is what an order sells given once, does money paid through a link complete the order, does a counter get its newest licence? | a new order of one outlet, its renewal and a trial; two counters. A behaviour is about the counters (two of the three orders; one hub is followed, and orders and unusual steps are three together) or about the payments (the renewal has a link, the new order may be on credit; two calls at work, one of which is the renewal's; the Worker dies twice). Two days, terms of one and two days, a grace of one: a licence runs out, runs in its grace and is renewed before and after |
| `offline_queue` | are saved actions carried out once, in order, and only on the database they were meant for? | two windows, two staff members, two actions on one order (or a bill with its payment), one restore: enough for a late request of one window to meet the other window's retry, discard, archive and sign-in, and for one person's actions to lie before another's. Once there is a backup to restore, one of the two is at work and discards nothing (`MCNext`): what a restore does it does to all saved actions alike. Several orders, and a restore in the midst of everything, are covered by `OfflineQueueProofs` |
| `offline_stranded` | a documented promise, refuted: see section 6 | one window, a bill and its payment |
| `seating` | can two parties be promised one table, or a table in use be closed? | two tables, so parties move and merge across; three orders, so a merged party, the bill it went to and a newcomer meet; two bookings on a clock of three readings: one starts as the other ends, or is taken early; one guest's request |
| `loyalty` | do credit notes and money agree; are points spent, expired and taken back once? | two bills of one customer: one with two units, so it is refunded in portions, whose three paise do not divide evenly, the other paid in full by points; two payment methods; points that expire after one step of a clock of two readings, or never; one adjustment, up or down |
| `loyalty_void` | a comment of the code, refuted: see section 6 | as `loyalty` |
| `shifts` | what should a drawer hold, and can a closed day change? | two cashiers and two shifts, of two cashiers or one after the other; two bills, one refunded in two parts; two dates of two milliseconds each, so calls share a millisecond and fall on either side of midnight |
| `backups` | is a restore finished and nothing lost; does the upload worker keep to its account and get past a bad file? | one restore and one crash, at any of its steps, with a database before and after; two snapshots, one of which never uploads; two accounts and two disconnects that overlap; waits of one and two minutes. The restore is followed only while nothing was uploaded: the two halves share no state but the process, and the crash may fall in either |

The runs use no state constraint: every bound is in a guard or a set. `print_queue` and `backups` check for deadlock. In the others
`CHECK_DEADLOCK FALSE` is set because the modelled restaurant really can run out of things to do (all slots used, all orders closed). Symmetry is used on the identities of
orders, tables, reservations, cashiers, requests and calls, in runs that check only safety. `ImplementsTabs` is a
step property without liveness, so symmetry is sound there as well: it treats all orders alike. `seating` and `shifts`
use a VIEW that leaves out what no later step and no property reads (the slot of a reservation that is over, the dates of a
bill beyond the blocks they fall in); two states with one view have the same future.

Every property of a passing run has a mutant in `PROJECT.json`: a plausible bug in a mapped definition (named `...` with a
comment `Bug:`) under which TLC must find the property violated.

What the properties say is written above each of them in the modules. The main ones:

* `ComboTogether`, `SentIsOnTicket`, `SentIsFinal` - kitchen and counter agree on what a dish is and where it is.
* `StockFollowsItems` - the ledger equals recipe times portions, whatever was cut, cancelled or changed since.
* `RowsFollowMerges` - merges chain but never form a ring, and every line ends on the order that stands.
* `BilledAsReviewed` - the PIN wait never lets a different bill out than the one reviewed, or one above the limit without approval.
* `MoneyFollowsBill`, `OrderFollowsBill` - every race of settle, void, refund and restart.
* `BillFreezesOrder`, `ImplementsTabs` - orders and bills together; `ZomatoAdvances` - and with the Zomato desk: nothing is
  called ready, or given to its rider, with a dish that has still to go to the kitchen, whoever adds it and whenever the kitchen is done.
* `NoUnaskedCopy`, `DoneWasSent`, `InSavedOrder` - crashes, storage errors and restores neither repeat a slip nor lose one silently.
* `QueuedHasWorker`, `QueuedIsTried`, `StopEnds` - no lost wake-up, no printer blocked by another, and an end to closing.
* `LaneInOrder`, `NothingLost`, `DiscardHolds`, `RestoredNeverReceivesOlder` - the queue of a counter under two windows and two staff members.
* `SlotsDisjoint`, `TablesInUse` - what several counters, moves, merges and guests do to tables and bookings.
* `CreditsMatchMoney` - rounding never strands a bill: what is left of its money is what voiding the rest gives back.
* `RedeemsAreBacked`, `TakenBackOnce`, `SweepIsInvisible` - points; `NotChargedTwice` is refuted.
* `DrawerAddsUp`, `ClosedDayStands` - the drawer at its window's edges, and the report of a closed day.
* `NothingLost` (of `Restore`), `ServesWhatWasPromised`, `OneDatabasePerGeneration`, `RestoreFinishes` - crashes in a restore.
* `UploadsOwnAccount`, `HealthyIsUploaded` - Google Drive uploads.
* `SoldOnce` - overlapping payments, webhooks and settlements give an order's term once, and only what was sold. It speaks of the licences an
  order grants; those that are signed again later may end otherwise (section 6).
* `LinkMoneyCounts`, `NewestReachesCounter` - what a customer paid, and what the service signed, arrives in the end.

**Fairness.** `Orders`, `Billing`, `OfflineQueue`, `Seating`, `Loyalty` and `Shifts` state safety only: they are driven by people and by a network that may stay down, and
nothing in the code makes a bill be paid or a ticket be cooked, so no fairness would be justified there. `PrintQueue` assumes weak fairness of

* the microtasks and the steps of a loop that do not wait (`Wake`, `Take`, `Finally`, `Closed`): the event loop runs what is due;
* the end of a send (`Finish`), for printers outside `Untimed`: `sinks.ts` gives up on a network printer after 5 s and on
  the Windows helper after 15 s. Writing to a COM port has no time limit (`sinks.ts:199`), so such a printer may hang, which
  also keeps the hub from closing (`queue.ts:101`).

No fairness is assumed of staff, backups or restarts, and a printer whose loop ended with a storage error is excepted from
`QueuedIsTried`: the code does not schedule it again before the next job, retry or start (`queue.ts:146`). The job such
a loop was sending stays `printing` until the hub is started again, and can be neither retried nor confirmed until then.

`Restore` and `HubData` assume that a start goes on by itself (`RestoreStep`: straight-line code) and that a hub that is down is started
again (`Launch`: by the desktop shell, or by staff), that the worker's timer and the code between its awaits run (`Minute`, `Continue`,
`Pruned`), and that an upload ends one way or the other (`Confirm` or `Fail`: `UPLOAD_DEADLINE_MS` aborts it). Strong fairness is
assumed of one thing outside the hub: an upload of a readable file that is tried again and again is confirmed once. Nothing is assumed of staff, of
Google's credential or of a crash that keeps coming back (crashes are bounded). `RestoreFinishes` excepts a rollback journal left by a crash in the
middle of the sign-out transaction, see section 6; `HealthyIsUploaded` holds while the hub serves, stays linked and the file is there.

`LicenceSales` assumes that a call at work goes on until it ends or dies (`CallStep`: code between awaits, and D1 answers), that a hub checks
(`Check`: `startRenewalChecks` asks every hour), that of replies which are lost again and again one arrives (strong fairness of `Install`), and
that Razorpay delivers an event until it is answered with success (`Deliver`; `W/webhook.ts:17` relies on it). Nothing is assumed of
staff or customers, and deaths, lost replies, restores and hand-issued licences are bounded by `MaxTroubles`. `MCSpec` states the same for the counter and the
order a behaviour is about; its bounds stop only what staff begin, never a step that fairness asks for.

## 4. What is proved

Every inductive invariant below was first checked by TLC on the instance of the component's run. A leaf of a proof never takes a value that may be
`None` for a number: the types of such variables are written as alternatives (`token = None \/ token \in Generations`), because the translation to
the SMT solver gives a variable typed by the union of numbers and a special value the type of the numbers.

`BillingProofs` proves of `Orders`, for every set of orders, lines, combos, stations and recipes and every bound, from the assumption
`OrdersAssumption` of `Orders` (types of the constants, combos do not nest):

* `TypeCorrect` : `Spec => []TypeOK`
* `CombosStayTogether` : `Spec => []ComboTogether`
* `LedgerFollowsDishes` : `Spec => []StockFollowsItems`
* `SentIsAtStation` : `Spec => []SentIsOnTicket`
* `MergesAreFollowed` : `Spec => []RowsFollowMerges`
* `KitchenIsFinal` : `Spec => SentIsFinal`

The argument is one inductive invariant, `Inv == TypeOK /\ RowsOK /\ ComboTogether /\ StockFollowsItems`, with one lemma
per action. None of the parts is inductive alone. The rescaling of a combo is a natural number only because a
component's quantity is a multiple of the combo's (`ComboTogether`) and the combo's is not zero (`RowsOK`); the stock a
cut gives back is exact only because what is still out is recipe times portions (`StockFollowsItems`), and it is that
same fact which makes the next state satisfy it. `RowsOK` adds that a line exists exactly when it is on an order, holds
portions, and that only a sent line has been cut. Two lemmas about integers carry the arithmetic: `ShareIsExact` (a whole
number of shares divides evenly) and `Rescale`. On top of it, `Trail` says where lines and tickets are: a line is on an order there is (`LinesKnown`) and on a
ticket of a request that was made (`TicketsKnown`), so the next request takes numbers no line has, and a dish has only stations the catalog may give it
(`StationsServed`), so its ticket is at one of them.

Of `Billing` it proves, for any prices, discounts, references and waiting calls, that order, bill, money and kitchen agree while the steps of `Orders`
go on between any two of a bill's own:

* `BillingTypeCorrect`, and `Spec => []P` for `BillFreezesOrder` (`BillsFreezeOrders`), `OrderFollowsBill` (`OrdersFollowBills`), `MoneyFollowsBill`
  (`MoneyFollowsBills`) and `BilledAsReviewed` (`BillsAreReviewed`)
* `ZomatoIsServed` : `BillingSpec => ZomatoAdvances`, from the guards of every step and from `BillFreezesOrder` and `ZomatoFollowsKitchen`
  (an open order is not picked up yet, a picked-up one is billed)
* `BilledDishesStay`, `BilledKitchenIsFinal` : the properties of `Orders` hold with bills as well
* `HubImplementsTabs` : `BillingSpec => ImplementsTabs`, the refinement of `Tabs`

`BillingInv` takes the invariants of `Orders` and adds what waiting calls and bills remember: a bill request that waits for a PIN is of a
reference that was previewed for the order and discount under review (`CallsOK`), and a bill has a reference that was (`RefsOK`). What the steps of `Orders` do to
an order that is no longer open is one lemma, `ClosedOrderStays`: nothing. `Replay` of the ledger and the sum `Amount` enter only as functions of the
lines, which a frozen order does not change. For the refinement every handler is shown to be a step of the guest's tab or a stutter of it.

`SeatingProofs` proves, for any tables, orders, bookings, requests and clock: `SlotsStayDisjoint` (`Spec => []SlotsDisjoint`) and `TablesStayInUse` (`Spec =>
[]TablesInUse`). Whether a seated party still holds its slot is asked of `FinalOrder`, which walks a chain of merges. No induction on the chain is needed:
`MergesEnd` carries a solution of the recursion from state to state (a merge appends to the end of chains), and a set of orders no merge crosses
holds an order exactly when it holds the order at the end, which makes the solution the only one (`OneEnd`).

`CreditNotesProofs` proves, for any bills, lines, units, amounts (negative ones and rounding lines as well) and payment methods, from `CreditNotesAssumption` (types; a
bill has finitely many lines, fields and methods): `CreditsMatchTheMoney` (`Spec => []CreditsMatchMoney`, with the steps of `Loyalty`). How a share is rounded
does not matter to it. `LinesOK` says a line whose units are all credited has been credited all it carries, because its last units take what is left; `BillsOK`
then says of a paid bill that what it holds is its total without its credits, and of a void one that nothing is left of either. That voiding the rest gives
back exactly that (`RemainderIs`) is one lemma on sums: `MoneyAdds`, the money of two tables of fields is the money of their sum line by line. Sums are folds
over sets, and their lemmas are had as in `ShiftsProofs`.

The same module proves of the points, for any bills, points earned, spent or adjusted, months of expiry, and any time, from `LoyaltyAssumption` (types; `None` is no bill):

* `RedemptionsAreBacked` : `Spec => []RedeemsAreBacked`
* `SweepsAreInvisible` : `Spec => []SweepIsInvisible`
* `TakenBackOnlyOnce` : `Spec => []TakenBackOnce`

None of them is inductive, because each speaks of what replaying the ledger comes to. `Book` is what every ledger a handler leaves satisfies: an expire row names an
earlier row whose lot is empty ever since, no redemption made a debt, and what is left of a bill's earned points, with what was taken back and what lapsed of them, is
at most what it earned (`NotLost`). `BillBook` is what it holds of one bill: its rows come to what it redeemed, or to nothing once it is void and nothing expired. `PointsInv`
joins them over all bills. A handler is a few rows appended one after the other, and one lemma per kind of row (`EarnRow`, `RedeemRow`, `TakeBackRow`, `ExpireRow`, `OtherRow`)
says that it keeps the `Book`. That the debt and the lots of a replay make up the balance (`ReplayIsOK`), that a sweep leaves no lot due and takes exactly what was
not spendable (`SweepIs`), and that a void returns what its redemption had taken from each lot, once (`GiveBackIs`), are functions of the row reached: the lemmas take the
least row at which they would fail. A redemption is backed because the handler sweeps first: of what is then left nothing is due, so the lots hold what is spendable.

`ShiftsProofs` proves, for any cashiers, bills, dates and clock: `DrawersAddUp` (`ShiftsSpec => []DrawerAddsUp`) and `ClosedDaysStand` (`ShiftsSpec =>
[]ClosedDayStands`). What a drawer should hold is a fold over a set of payments. The lemmas on sums say that it is 0 for no payment and grows by a payment's
paise whichever the fold takes first; they take a smallest set of payments of which it were not so (`SmallestSet`, from the least natural number),
which replaces the induction the provers cannot do. `DrawersInv` says what an open shift's drawer holds beyond what is expected: the payments
made in the millisecond in which it was opened, but before it was (`Early`). `DaysInv` ties every date of a tab to the clock and a closed date to tabs that ended.

`PrintQueueProofs` proves, for any printers, numbers of copies, limits of the trim, and any number of jobs, retries,
crashes, storage errors, backups and restores, from `PrintAssumption` (types of the constants):

* `PrintTypes` : `Spec => []TypeOK`
* `OneLoop` : `Spec => []OneLoopPerPrinter`
* `NothingPrintedUnasked` : `Spec => []NoUnaskedCopy`
* `NothingLostAsDone` : `Spec => []DoneWasSent`
* `NoLostWakeUp` : `Spec => []QueuedHasWorker`
* `SlipsKeepOrder` : `Spec => []InSavedOrder`

The inductive invariant `IInv` says why. A queued job owes its slip (`sent <= asked`) only on the database the hub last
ran on: a restored one may have queued jobs that are on paper, and that is known only from the two generations being
different (`InDoubtKnown`). `GenerationsOK` says the generation is recorded exactly when nothing is in doubt any more,
which is what the order of commits in the constructor achieves. A send that ends adds one slip to a job that owed one because
`LoopsOK` ties every sending loop to a row marked `printing` of its own printer, and `OneLoopPerPrinter` keeps two loops
from sending one job. `SnapshotOK` carries what is known of a job at the time of a backup to the time of its restore.
`LoopGoesOn` is the common part of all steps of a loop; `HeadGoesOn`, `TrimKeepsTheRest` and `SendEnds` say what the
pieces of such a step do. The order of slips needs one thing more (`OrderKept`): that no slip is past an earlier one is
known of the database the hub last ran on, also while the hub is down; of a restored one the constructor holds the queued slips first.

`OfflineQueueProofs` proves, for any number of windows, staff members, orders, saved actions and restores, from `QueueAssumption` (types
of the constants):

* `QueueTypes` : `Spec => []TypeOK`
* `OrderIsKept` : `Spec => []LaneInOrder`
* `PaymentWaits` : `Spec => []PaymentFollowsBill`
* `NothingIsLost` : `Spec => []NothingLost`
* `DiscardIsFinal` : `Spec => []DiscardHolds`
* `RestoreIsClean` : `Spec => RestoredNeverReceivesOlder`

Nothing in a browser says what the hub did, so the inductive invariant relates them through generations. `SessionsOK`: the
answer a run works with is the generation of the session its requests carry (`StillCurrent` compares the session, and who works at
the window, before it uses the answer), and the browser is never ahead of the hub. `FlightsOK`: every request, also one nobody waits for any
more, was meant for the generation of its session, so a restore, which deletes the older sessions, leaves none that could
be carried out. `GoneIsDone`: what left the storage and belongs to the hub's present generation has happened in it or was
given up; this lets a window that only sees its storage conclude that everything its staff member saved before the head of a lane has happened, and
it survives a restore because no saved action belongs to the new generation yet. `InOrder` carries that conclusion
(`Ready`) from sending to arrival, and into the backup and out of it again.

`HubDataProofs` proves of `Restore`, for any number of restores and crashes, from `RestoreAssumption` (the special values are different):

* `NothingIsLost` : `RestoreSpec => []NothingLost`
* `ServesThePromised` : `RestoreSpec => []ServesWhatWasPromised`
* `GenerationsAreDistinct` : `RestoreSpec => []OneDatabasePerGeneration`

The invariant `RestoreIInv` describes the files in every phase. `PuttingAway`: which files of the old database are still in place and
which are in the archive, in the order in which they are moved, so a start that repeats the phase finds none of its targets taken.
`Installing`: the backup is either still staged or already in place, and no log of the old database lies beside it. `Done` and `Settled`:
a hub that may serve has the promised database, signed out. `Archived` keeps every older database with its log. `Generations`: the
generation in the file has not been used by another database, because it changes after the exchange and before anything is served.

Of hub and worker together it proves that they refine the restore protocol, and that the worker keeps to its account:

* `HubImplementsRestore` : `Spec => RestoreSpec` (the worker's steps leave its files alone, its fairness is part of the hub's)
* `HubLosesNothing` : `Spec => []NothingLost`
* `UploadsGoToOwnAccount` : `Spec => []UploadsOwnAccount`

`CloudInv` says the queue is one account's, and that the account the worker works for is linked while it sends or prunes. An entry that leaves
the queue or moves in it is picked by its position (`EntriesAt`), so its lemma needs only that picking from a sequence gives a sequence of the same things.

`LicenceSalesProofs` proves, for any counters, orders of any kind, terms, prices, days and number of calls at work at once, from `LicencesAssumption` and
`SalesAssumption` (types of the constants; only trials are free): `SoldOnlyOnce` (`Spec => []SoldOnce`). A licence comes from a draft a call made earlier, from what it read
earlier still, so `SalesInv` says of every draft in every call at work what stays true whatever other calls write meanwhile (`DraftOK`, `CallOK`): a draft of a
renewal belongs to a settlement that found its order covered, or to an order that is paid; any other ends within its order's term. Money only grows and an order stays paid
(`MoneyGrows`), so a draft stays good; the batch asks for `confirmed` once more and makes it `paid`, so a second settlement of the same renewal writes nothing. That the end of a
term has not moved between draft and batch (`TermStays`) rests on the day: licences are issued with today's date, the term begins on the first such date, and a day ends with no call at work.

Every safety and action property the passing runs check is stated by a theorem. Only model-checked is all
liveness under fairness (`QueuedIsTried`, `StopEnds`, `RestoreFinishes`, `HealthyIsUploaded`, `LinkMoneyCounts`, `NewestReachesCounter`), which is beyond this
prover. Where an argument by induction was needed and a number bounds it, it is made with a least counterexample (`LeastNatural`, from the well-foundedness of `<` on the naturals).

## 5. Plan

Modelled, the most important behaviour first: `Orders`, `Billing`, `Tabs`; `PrintQueue`; `OfflineQueue`; `Seating`; `CreditNotes` and `Loyalty`;
`Restore`, `CloudUploads` and `HubData`; `Shifts`; `Licences` and `LicenceSales`. What is left:

1. The invariants of `Billing`, `Seating`, `Shifts`, `Loyalty` and `LicenceSales` are proved as parts of larger ones; state the types among them as theorems of their own, as for `Orders`.
2. A customer's purse (lots with an expiry, and no ledger) as an abstract specification that `Loyalty` refines.

The modules are written for proofs as well as for TLC: constants carry named assumptions, one action per handler,
invariants are conjunctions of named parts, and no operator is `RECURSIVE`.

## 6. Where the documents and the code disagree

Two are shown by a run that TLC refutes:

* `offline_stranded` / `RetriedCanGo`. `queue-core.ts:215` says a retried action is sent again on the next run. A payment saved
  with its bill waits for the bill's result, which `pruneResults` (`queue-core.ts:241`) drops a day after the bill went through: the
  payment is then never due, holds up every later action of its order, and cannot be discarded on the screen, which
  offers that only for actions that need attention. It needs no retry: a payment that could not reach the hub for a day
  and fails once more meets the same end.
* `loyalty_void` / `NotChargedTwice`. `S/customers.ts:54` says earned points that have expired are not taken back a second time. The query
  under it counts only expiries of the bill's own earn row. If points bill A earned are spent on bill B, B is voided and the
  points come back in a `reverse` row with their old expiry, then that row is the one that expires, and the void of A takes the points again:
  the customer ends with a negative balance although both bills are void.

Others were met while modelling and are not run:

* A crash inside `DELETE FROM sessions` (`S/recovery.ts:41`) leaves a rollback journal beside the restored database. The next start
  repeats the phase and `verifyBackup(live)` (line 39) opens the file read-only, which SQLite refuses while a journal has to be rolled back. No
  later start gets past it, although `recovery.ts:7-8` says interrupted restores finish before the server accepts work. The data is safe
  (`NothingLost` holds there); `RestoreFinishes` excepts the state.
* `docs/operations/google-drive-backups.md:47` says files that wait for their upload are protected from local retention. The backup an update takes
  (`S/startup.ts:11`) prunes before `CloudBackups` has read its queue, so it protects nothing (`BackupAtUpdate`).
* Two Disconnects that overlap: when the second to come ends first, a new account may sign in and queue backups, which the first one
  clears when it ends. Nothing goes to the wrong account; with automatic uploads on, the worker queues what is on the disk again.
* `docs/operations/refunds-and-voids.md:95` says closed days never change, and so does `S/reports.ts:33-34`. `S/shifts.ts:142` lets today be closed while it goes on, and then
  its report can change; `ClosedDayStands` is about days closed after they ended.
* The windows of two shifts of one cashier include both their ends (`S/shifts.ts:22-27`), so cash taken in the millisecond in which one
  closes and the next opens is expected in both. `DrawerAddsUp` states the difference exactly.
* The comment at `S/orders.ts:179` says a replay of a saved punch succeeds even after the order was billed or closed. If the order was closed by
  merging it into another, its lines are on the other order and the handler refuses the replay at line 177 with "Item reference already used on another order".
* `APPLICATION_OVERVIEW.md:82`, `:286` and `README.md:171-175` describe a gate: a table is billed only after the kitchen accepted its
  tickets, on by default. `S/billing.ts:67` checks only for unsent items; the setting is read nowhere, and the tests say so (`S/kots.test.ts:137`, "no acceptance step").
* `docs/operations/printer-settings.md:52` says a failed job's data never reached the printer, and `S/print/queue.ts:35` that a restored backup may predate a
  successful send. The constructor holds queued and interrupted jobs after a restore (`queue.ts:36`) but not failed ones: a job that failed, was backed up, and was then
  retried with success is shown as failed again after the restore, and a retry needs no look at the paper.
* `queue-core.ts:5` says entries for the same order go in order, and the list of saved actions that they "are sent to the server in order, one order at a
  time" (`ConnectionStatus.tsx:71`). That holds for one staff member only: `dueEntries` (`queue-core.ts:120-123`) looks at the entries of who is signed in,
  so when one saves an action that stays in the browser (the hub is away, or it stopped for review) and a colleague signs in at that counter and acts on the same
  order, the colleague's action goes first, and the earlier one waits until its owner is back; nobody else sees it. `LaneInOrder` is therefore about the actions of one
  person. TLC refutes `\A i, j \in Saved : i < j /\ SameDatabase(i, j) /\ j \in applied => i \in applied \cup discarded` in eight steps with one window:
  sign in, save, sign out, the colleague signs in, asks for the generation, saves, sends, and the hub carries it out.
* `queue-core.ts:227` says a discarded action is never sent, but one discarded while another window waits for its reply is put back when that reply is lost
  (hence the condition in `DiscardHolds`); `retry-queue.ts:38` says repeating a PATCH changes nothing, which is so only if no later PATCH of the same item came in between.

Of the licensing service, TLC finds on the instance of `licences` that each of these formulas fails; they are what the code does, not runs:

* *A term that was paid for stays.* `reissueLicense` (`W/issue.ts:59`) reads the terms of the latest licence, and `nextRevision` is read later. When a
  renewal is written between the two (its batch and the staff's module change overlap), the change is signed above the renewal with the end date of before it, and the
  counter installs it. `W/issue.ts:21` says a later re-issue never quietly drops something that was sold. `LookCredit` does the same by design: extending the
  credit of an order signs the credit date over a counter that was renewed since (`W/portal/order-routes.ts:264`).
* *A licence ends with the term of its order.* `W/orders.ts:48-49` says the term belongs to the order and not to each counter. The call that extends a credit
  date reads which counters hold a seat of the order and only then the latest licence of each (`W/portal/order-routes.ts:260`). A counter that enrols
  on another order or a trial in between has its licence of *that* order signed again with the credit date of the first: a trial that lasts longer than trials do.
* *`seats_used` is the number of counters that hold a seat of the order.* `assignSeat` gives a seat back on the order it read before signing
  (`W/enroll.ts:116`). A counter that enrols twice at once, or that staff move or release meanwhile, leaves a seat counted that nobody holds, or gives one back twice.
* *A current paid licence is never below a hand-issued one for long.* `W/activate.ts:40` raises the floor before line 47 signs the paid licence again above it. If
  the Worker dies between the two, the next check finds the floor equal to the counter's revision and signs nothing. `NewestReachesCounter` says only that
  what is *newer* arrives.

By reading: `GET /installations/:id/licence` does not raise the floor, so a counter that installs the file is taken for one with a hand-issued licence and is signed
again; a link whose row is not filed yet when it is paid is answered "unmatched" (`W/webhook.ts:43`), and the payment is in nobody's books
(`LinkMoneyCounts` asks for a link on file); `POST /orders/:id/payments` may record a payment of an order cancelled meanwhile, and a change of a draft may arrive after its
confirmation, because neither batch asks for the status again.

## 7. Not modelled

Most of the repository's lines are not state machines: screens (`apps/ui`), reports and dashboards (read-only queries), forms and validation
schemas, printing layouts, desktop and Android shells, and the customer records, tickets and reports of the owner portal. The
models cover the part of the hub, the counter and the licensing service that decides what happens; the share of all lines they map is small for that reason.

Left out of what is modelled: power loss (SQLite runs in WAL mode with `synchronous = NORMAL`, so the last commits may be lost with it), and a database
file replaced by hand, which the documentation rules out. Customer slabs and the GST split are left out of the amounts of `Billing`; they change how much a
bill is, not when it may be issued. Authorisation by role is left out: any user may do anything here, which only adds
behaviour. So are the PIN throttle (`S/pin-throttle.ts`: it counts an attempt in the same synchronous call that looks at the count), calls for service
(`S/guest-services.ts`: they only notify staff), the second backup folder, the preview of a backup file before it is restored, registered devices, and manual stock
movements. Of the licensing service: changes of a draft, cheques, free orders, invoices, links that expire or are sent twice, end dates set by staff,
secrets and pairing, plans, devices and modules of a licence. A guest's accepted lines enter an order as `AddItems` of `Orders` does it; `Seating` only says which order.
