-------------------------- MODULE PrintQueueProofs --------------------------
(***************************************************************************)
(* PrintQueue, for any printers, copies, limits and bounds: types, one loop*)
(* per printer, no copy nobody asked for, no job shown as printed that was *)
(* not sent, no lost wake-up, and slips that reach a printer in the order  *)
(* they were saved in.  All but the last are proved together: that a       *)
(* printed slip is not printed again rests on what is known of queued and  *)
(* printing jobs (InDoubtKnown), that in turn on which backup the database *)
(* is of (GenerationsOK) and on the loops and the rows agreeing (LoopsOK). *)
(***************************************************************************)
EXTENDS PrintQueue, TLAPS

\* A loop that sends has the one job of its printer marked as printing; only a running hub has loops.
LoopsOK ==
    /\ \A l \in loops : l.phase = "sending" =>
          /\ l.job \in Jobs
          /\ status[l.job] = "printing"
          /\ printer[l.job] = l.printer
    /\ hub # "up" => loops = {} /\ ~stopped /\ wake = {} /\ stalled = {}

\* Rows exist up to the last number, for a printer; what is not there yet was never sent.
RowsOK ==
    \A j \in Jobs :
        /\ j <= last => printer[j] \in Printers
        /\ j > last => status[j] = "none" /\ sent[j] = 0

\* A running hub has recorded the generation it runs on, and so has one that opens without holding queued jobs.
GenerationsOK ==
    /\ savedGen <= fileGen
    /\ hub = "up" => savedGen = fileGen
    /\ hub = "opening" => restored = (savedGen # fileGen)

\* A backup says of a job what was true then and, where it matters, still is.
SnapshotOK ==
    snapshot # None =>
        /\ snapshot.generation <= fileGen
        /\ \A j \in Jobs :
              /\ j > last => snapshot.status[j] = "none"
              /\ snapshot.status[j] = "done" => sent[j] > 0

\* A copy that waits or is being sent owes a slip, unless the database is a backup nobody has looked through.
InDoubtKnown ==
    /\ \A l \in loops : l.phase = "sending" => sent[l.job] <= asked[l.job]
    /\ savedGen = fileGen => \A j \in Jobs : status[j] = "queued" => sent[j] <= asked[j]

IInv ==
    /\ TypeOK
    /\ OneLoopPerPrinter
    /\ LoopsOK
    /\ RowsOK
    /\ GenerationsOK
    /\ SnapshotOK
    /\ InDoubtKnown
    /\ NoUnaskedCopy
    /\ DoneWasSent
    /\ QueuedHasWorker
-----------------------------------------------------------------------------
LEMMA CountsAreNatural ==
    ASSUME TypeOK
    PROVE  \A j \in Jobs : j \in Nat /\ sent[j] \in Nat /\ asked[j] \in Nat
<1>1. \A j \in Jobs : j \in Nat
  BY DEF Jobs
<1>2. \A j \in Jobs : sent[j] \in Nat /\ asked[j] \in Nat
  BY DEF TypeOK
<1> QED
  BY <1>1, <1>2

LEMMA IInvInit == Init => IInv
<1> SUFFICES ASSUME Init PROVE IInv
  OBVIOUS
<1> USE PrintAssumption DEF Init, Jobs
<1>1. TypeOK
  <2>1. MaxJobs \in Nat
    OBVIOUS
  <2>2. /\ last \in 0..MaxJobs
        /\ sent \in [Jobs -> Nat] /\ asked \in [Jobs -> Nat] /\ attempts \in [Jobs -> Nat]
    BY <2>1
  <2>3. printer \in [Jobs -> Printers \cup {None}] /\ status \in [Jobs -> Statuses]
    BY DEF Statuses
  <2> QED
    BY <2>2, <2>3 DEF TypeOK
<1>2. OneLoopPerPrinter /\ LoopsOK /\ GenerationsOK /\ SnapshotOK
  BY DEF OneLoopPerPrinter, LoopsOK, GenerationsOK, SnapshotOK
<1>3. RowsOK /\ InDoubtKnown /\ NoUnaskedCopy /\ DoneWasSent /\ QueuedHasWorker
  BY DEF RowsOK, InDoubtKnown, NoUnaskedCopy, DoneWasSent, QueuedHasWorker
<1> QED
  BY <1>1, <1>2, <1>3 DEF IInv

-----------------------------------------------------------------------------
(* Requests and the microtask.                                             *)

\* What schedule does to the loops, whatever else the step does.
LEMMA ScheduleLoops ==
    ASSUME TypeOK, OneLoopPerPrinter, NEW p \in Printers, Schedule(p)
    PROVE  /\ OneLoopPerPrinter'
           /\ loops' \subseteq Loop /\ locked' \subseteq Printers /\ stalled' \subseteq Printers
           /\ \A l \in loops' : l.phase = "sending" => l \in loops
           /\ stopped => loops' = loops /\ locked' = locked /\ stalled' = stalled
           /\ ~stopped => p \in locked' /\ locked \cup stalled \subseteq locked' \cup stalled'
<1> DEFINE new == {Due(q) : q \in Fresh(p)}
<1>1. Fresh(p) \subseteq {p} /\ (p \in Fresh(p) <=> ~stopped /\ p \notin locked)
  BY DEF Fresh
<1>2. \A l \in new : l = Due(p) /\ l.printer = p /\ l.phase = "due" /\ l \in Loop
  BY <1>1 DEF Due, Loop, Phases
<1>3. loops' = loops \cup new /\ locked' = locked \cup Fresh(p) /\ stalled' = stalled \ Fresh(p)
  BY DEF Schedule
<1>4. new = {} <=> Fresh(p) = {}
  OBVIOUS
<1>5. OneLoopPerPrinter'
  <2>1. CASE p \in Fresh(p)
    <3>1. Due(p) \in new
      BY <2>1
    <3>2. new = {Due(p)} /\ Fresh(p) = {p} /\ Due(p).printer = p
      BY <2>1, <1>1, <1>2, <3>1
    <3>3. \A l \in loops : l.printer # p
      BY <2>1, <1>1 DEF OneLoopPerPrinter
    <3> HIDE DEF new
    <3>4. locked' = {l.printer : l \in loops'}
      BY <3>2, <1>3 DEF OneLoopPerPrinter
    <3> QED
      BY <3>2, <3>3, <3>4, <1>3 DEF OneLoopPerPrinter
  <2>2. CASE p \notin Fresh(p)
    <3>1. Fresh(p) = {} /\ new = {}
      BY <2>2, <1>1, <1>4
    <3> QED
      BY <3>1, <1>3 DEF OneLoopPerPrinter
  <2> QED
    BY <2>1, <2>2
<1> HIDE DEF new
<1>6. loops' \subseteq Loop /\ locked' \subseteq Printers /\ stalled' \subseteq Printers
  BY <1>1, <1>2, <1>3 DEF TypeOK
<1>7. \A l \in loops' : l.phase = "sending" => l \in loops
  BY <1>2, <1>3
<1>8. stopped => loops' = loops /\ locked' = locked /\ stalled' = stalled
  BY <1>1, <1>3, <1>4
<1>9. ~stopped => p \in locked' /\ locked \cup stalled \subseteq locked' \cup stalled'
  BY <1>1, <1>3
<1> QED
  BY <1>5, <1>6, <1>7, <1>8, <1>9

LEMMA EnqueueIInv ==
    ASSUME IInv, NEW p \in Printers, NEW n \in Copies, Enqueue(p, n)
    PROVE  IInv'
<1> USE PrintAssumption DEF IInv, Enqueue, files, process
<1>1. n \in Nat /\ last \in Nat /\ last + n \in 0..MaxJobs /\ MaxJobs \in Nat
  BY DEF TypeOK
<1>2. /\ status' \in [Jobs -> Statuses]
      /\ printer' \in [Jobs -> Printers \cup {None}]
      /\ last' \in Nat /\ last <= last'
      /\ \A j \in Jobs : j <= last => status'[j] = status[j] /\ printer'[j] = printer[j]
      /\ \A j \in Jobs : j > last /\ j <= last' => status'[j] = "queued" /\ printer'[j] = p
      /\ \A j \in Jobs : j > last' => status'[j] = "none"
  <2>1. \A j \in Jobs : j \in Nat /\ (j \in last + 1 .. last + n <=> j > last /\ j <= last + n)
    BY <1>1 DEF Jobs
  <2>2. \A j \in Jobs : j > last => status[j] = "none"
    BY DEF RowsOK
  <2>3. CASE UNCHANGED <<status, printer, last>>
    <3>1. status \in [Jobs -> Statuses] /\ printer \in [Jobs -> Printers \cup {None}]
      BY DEF TypeOK
    <3> QED
      BY <1>1, <2>1, <2>2, <2>3, <3>1
  <2>4. CASE /\ status'  = [j \in Jobs |-> IF j \in last + 1 .. last + n THEN "queued" ELSE status[j]]
             /\ printer' = [j \in Jobs |-> IF j \in last + 1 .. last + n THEN p ELSE printer[j]]
             /\ last' = last + n
    <3>1. status' \in [Jobs -> Statuses] /\ printer' \in [Jobs -> Printers \cup {None}]
      BY <2>4 DEF TypeOK, Statuses
    <3>2. last' \in Nat /\ last <= last'
      BY <1>1, <2>4
    <3>3. \A j \in Jobs : /\ j <= last => status'[j] = status[j] /\ printer'[j] = printer[j]
                          /\ j > last /\ j <= last' => status'[j] = "queued" /\ printer'[j] = p
                          /\ j > last' => status'[j] = "none"
      BY <1>1, <2>1, <2>2, <2>4
    <3> QED
      BY <3>1, <3>2, <3>3
  <2> QED
    BY <2>3, <2>4
<1>3. \A j \in Jobs : j \in Nat /\ sent[j] \in Nat /\ asked[j] \in Nat
  BY CountsAreNatural
<1>4. TypeOK'
  BY <1>1, <1>2 DEF TypeOK
<1>5. OneLoopPerPrinter' /\ GenerationsOK' /\ NoUnaskedCopy'
  BY DEF OneLoopPerPrinter, GenerationsOK, NoUnaskedCopy
<1>6. \A j \in Jobs : status[j] # "none" => j <= last
  BY <1>1, <1>3 DEF RowsOK
<1>7. LoopsOK'
  BY <1>2, <1>6 DEF LoopsOK
<1>8. RowsOK'
  BY <1>1, <1>2, <1>3 DEF RowsOK
<1>9. SnapshotOK'
  BY <1>1, <1>2, <1>3 DEF SnapshotOK
<1>10. InDoubtKnown'
  BY <1>1, <1>2, <1>3 DEF InDoubtKnown, RowsOK
<1>11. DoneWasSent'
  BY <1>1, <1>2, <1>3 DEF DoneWasSent
<1>12. QueuedHasWorker'
  BY <1>1, <1>2, <1>3 DEF QueuedHasWorker
<1> QED
  BY <1>4, <1>5, <1>7, <1>8, <1>9, <1>10, <1>11, <1>12

LEMMA WakeIInv ==
    ASSUME IInv, NEW p \in Printers, Wake(p)
    PROVE  IInv'
<1> USE DEF IInv, Wake, database, files, process, history
<1>1. /\ OneLoopPerPrinter'
      /\ loops' \subseteq Loop /\ locked' \subseteq Printers /\ stalled' \subseteq Printers
      /\ \A l \in loops' : l.phase = "sending" => l \in loops
      /\ stopped => loops' = loops /\ locked' = locked /\ stalled' = stalled
      /\ ~stopped => p \in locked' /\ locked \cup stalled \subseteq locked' \cup stalled'
  BY ScheduleLoops
<1>2. TypeOK'
  BY <1>1 DEF TypeOK
<1>3. hub = "up"
  BY DEF LoopsOK, TypeOK
<1>4. LoopsOK'
  BY <1>1, <1>3 DEF LoopsOK
<1>5. RowsOK' /\ GenerationsOK' /\ SnapshotOK' /\ NoUnaskedCopy' /\ DoneWasSent'
  BY DEF RowsOK, GenerationsOK, SnapshotOK, NoUnaskedCopy, DoneWasSent
<1>6. InDoubtKnown'
  BY <1>1 DEF InDoubtKnown
<1>7. QueuedHasWorker'
  BY <1>1 DEF QueuedHasWorker
<1> QED
  BY <1>1, <1>2, <1>4, <1>5, <1>6, <1>7

LEMMA RetryIInv ==
    ASSUME IInv, NEW j \in Jobs, NEW checkedPaper \in BOOLEAN, Retry(j, checkedPaper)
    PROVE  IInv'
<1> USE PrintAssumption DEF IInv, Retry, files, process
<1>1. status[j] \in {"failed", "unknown"} /\ j \in Nat /\ j <= last /\ printer[j] \in Printers
  BY DEF MayRetry, Jobs, RowsOK, TypeOK
<1>2. /\ OneLoopPerPrinter'
      /\ loops' \subseteq Loop /\ locked' \subseteq Printers /\ stalled' \subseteq Printers
      /\ \A l \in loops' : l.phase = "sending" => l \in loops
      /\ printer[j] \in locked' /\ locked \cup stalled \subseteq locked' \cup stalled'
  BY <1>1, ScheduleLoops
<1>3. \A k \in Jobs : /\ status'[k] = IF k = j THEN "queued" ELSE status[k]
                      /\ asked'[k]  = IF k = j THEN asked[k] + 1 ELSE asked[k]
                      /\ sent[k] \in Nat /\ asked[k] \in Nat
  BY DEF TypeOK
<1>4. TypeOK'
  BY <1>2 DEF TypeOK, Statuses
<1>5. LoopsOK'
  BY <1>1, <1>2, <1>3 DEF LoopsOK
<1>6. RowsOK' /\ GenerationsOK' /\ SnapshotOK'
  BY <1>1, <1>3 DEF RowsOK, GenerationsOK, SnapshotOK, TypeOK
<1>7. NoUnaskedCopy' /\ DoneWasSent'
  BY <1>3 DEF NoUnaskedCopy, DoneWasSent
<1>8. InDoubtKnown'
  <2>1. \A l \in loops' : l.phase = "sending" => sent[l.job] <= asked'[l.job]
    BY <1>2, <1>3 DEF InDoubtKnown, LoopsOK
  <2>2. savedGen = fileGen => \A k \in Jobs : status'[k] = "queued" => sent[k] <= asked'[k]
    BY <1>3 DEF InDoubtKnown, NoUnaskedCopy
  <2> QED
    BY <2>1, <2>2 DEF InDoubtKnown
<1>9. QueuedHasWorker'
  BY <1>2, <1>3 DEF QueuedHasWorker
<1> QED
  BY <1>2, <1>4, <1>5, <1>6, <1>7, <1>8, <1>9

LEMMA ConfirmIInv ==
    ASSUME IInv, NEW j \in Jobs, ConfirmPrinted(j)
    PROVE  IInv'
<1> USE PrintAssumption DEF IInv, ConfirmPrinted, files, process, workers, history
<1>1. j <= last
  BY DEF RowsOK, TypeOK, Jobs
<1>2. \A k \in Jobs : status'[k] = IF k = j THEN "done" ELSE status[k]
  BY DEF TypeOK
<1>3. TypeOK'
  BY DEF TypeOK, Statuses
<1>4. OneLoopPerPrinter' /\ GenerationsOK' /\ SnapshotOK' /\ NoUnaskedCopy'
  BY DEF OneLoopPerPrinter, GenerationsOK, SnapshotOK, NoUnaskedCopy
<1>5. LoopsOK' /\ InDoubtKnown' /\ DoneWasSent' /\ QueuedHasWorker'
  BY <1>2 DEF LoopsOK, InDoubtKnown, DoneWasSent, QueuedHasWorker
<1>6. RowsOK'
  BY <1>1, <1>2 DEF RowsOK, TypeOK, Jobs
<1> QED
  BY <1>3, <1>4, <1>5, <1>6

-----------------------------------------------------------------------------
(* Steps of a loop: l goes on as m.                                        *)

LEMMA LoopGoesOn ==
    ASSUME IInv, NEW l \in loops, NEW m \in Loop, m.printer = l.printer,
           loops' = (loops \ {l}) \cup {m},
           UNCHANGED <<printer, attempts, savedGen, files, process, locked, wake, stalled, last, asked>>,
           troubles' \in Nat,
           status' \in [Jobs -> Statuses],
           sent' \in [Jobs -> Nat],
           \A j \in Jobs : sent'[j] = sent[j] \/ (l.phase = "sending" /\ j = l.job /\ sent'[j] = sent[j] + 1),
           \A j \in Jobs : /\ status'[j] = "queued" => status[j] = "queued"
                           /\ status'[j] = "done" => sent'[j] > 0
                           /\ status[j] = "none" => status'[j] = "none"
                           /\ status[j] = "printing" /\ ~(l.phase = "sending" /\ j = l.job) => status'[j] = "printing",
           m.phase = "sending" => /\ m.job \in Jobs
                                  /\ status[m.job] = "queued"
                                  /\ status'[m.job] = "printing"
                                  /\ printer[m.job] = l.printer
    PROVE  IInv'
<1> USE DEF IInv, files, process
<1>1. \A j \in Jobs : /\ sent[j] \in Nat /\ sent'[j] \in Nat /\ asked[j] \in Nat
                      /\ sent'[j] >= sent[j]
                      /\ (l.phase # "sending" \/ j # l.job) => sent'[j] = sent[j]
  BY DEF TypeOK
<1>2. hub = "up" /\ savedGen = fileGen
  BY DEF LoopsOK, GenerationsOK
<1>3. \A k \in loops : k # l /\ k.phase = "sending" /\ l.phase = "sending" => k.job # l.job
  BY DEF LoopsOK, OneLoopPerPrinter
<1>4. TypeOK'
  BY DEF TypeOK
<1>5. OneLoopPerPrinter'
  <2>1. locked' = {k.printer : k \in loops'}
    BY DEF OneLoopPerPrinter
  <2> QED
    BY <2>1 DEF OneLoopPerPrinter
<1>6. LoopsOK'
  BY <1>2, <1>3 DEF LoopsOK
<1>7. RowsOK'
  <2>1. \A j \in Jobs : j > last => sent'[j] = 0
    BY DEF RowsOK, LoopsOK
  <2> QED
    BY <2>1 DEF RowsOK
<1>8. GenerationsOK'
  BY DEF GenerationsOK
<1>9. SnapshotOK'
  BY <1>1 DEF SnapshotOK
<1>10. InDoubtKnown'
  <2>1. \A k \in loops' : k.phase = "sending" => sent'[k.job] <= asked[k.job]
    <3>1. \A k \in loops : k # l /\ k.phase = "sending" => sent'[k.job] <= asked[k.job]
      BY <1>1, <1>3 DEF InDoubtKnown, LoopsOK
    <3>2. m.phase = "sending" => sent'[m.job] <= asked[m.job]
      BY <1>1, <1>2 DEF InDoubtKnown, LoopsOK
    <3> QED
      BY <3>1, <3>2
  <2>2. \A j \in Jobs : status'[j] = "queued" => sent'[j] <= asked[j]
    BY <1>1, <1>2 DEF InDoubtKnown, LoopsOK
  <2> QED
    BY <2>1, <2>2 DEF InDoubtKnown
<1>11. NoUnaskedCopy'
  BY <1>1 DEF NoUnaskedCopy, InDoubtKnown, LoopsOK
<1>12. DoneWasSent'
  BY DEF DoneWasSent
<1>13. QueuedHasWorker'
  BY DEF QueuedHasWorker
<1> QED
  BY <1>4, <1>5, <1>6, <1>7, <1>8, <1>9, <1>10, <1>11, <1>12, <1>13

\* trim deletes settled jobs and touches no other.
LEMMA TrimKeepsTheRest ==
    ASSUME NEW s \in [Jobs -> Statuses]
    PROVE  /\ Trimmed(s) \in [Jobs -> Statuses]
           /\ \A j \in Jobs : /\ Trimmed(s)[j] \in {s[j], "gone"}
                              /\ s[j] \in {"none", "queued", "printing"} => Trimmed(s)[j] = s[j]
BY DEF Trimmed, Statuses

\* The head of the loop, whatever the statuses it reads.
LEMMA HeadGoesOn ==
    ASSUME NEW l \in Loop, NEW s \in [Jobs -> Statuses], LoopHead(l, s)
    PROVE  \E m \in Loop :
              /\ m.printer = l.printer
              /\ loops' = (loops \ {l}) \cup {m}
              /\ status' \in [Jobs -> Statuses]
              /\ \/ /\ m.phase = "sending" /\ m.job \in Jobs
                    /\ s[m.job] = "queued" /\ printer[m.job] = l.printer
                    /\ \A j \in Jobs : status'[j] = IF j = m.job THEN "printing" ELSE s[j]
                 \/ m.phase = "ended" /\ status' = s
<1>1. CASE /\ stopped \/ Queued(l.printer, s) = {}
           /\ status' = s /\ Becomes(l, "ended", None)
  <2> DEFINE m == [l EXCEPT !.phase = "ended", !.job = None]
  <2>1. m \in Loop /\ m.printer = l.printer /\ m.phase = "ended"
    BY DEF Loop, Phases
  <2>2. loops' = (loops \ {l}) \cup {m} /\ status' = s
    BY <1>1 DEF Becomes
  <2> QED
    BY <2>1, <2>2
<1>2. ASSUME NEW j \in NextJob(l.printer, s),
             status' = [s EXCEPT ![j] = "printing"], Becomes(l, "sending", j)
      PROVE  \E m \in Loop :
              /\ m.printer = l.printer
              /\ loops' = (loops \ {l}) \cup {m}
              /\ status' \in [Jobs -> Statuses]
              /\ m.phase = "sending" /\ m.job \in Jobs
              /\ s[m.job] = "queued" /\ printer[m.job] = l.printer
              /\ \A k \in Jobs : status'[k] = IF k = m.job THEN "printing" ELSE s[k]
  <2> DEFINE m == [l EXCEPT !.phase = "sending", !.job = j]
  <2>1. j \in Jobs /\ s[j] = "queued" /\ printer[j] = l.printer
    BY DEF NextJob, Queued
  <2>2. m \in Loop /\ m.printer = l.printer /\ m.phase = "sending" /\ m.job = j
    BY <2>1 DEF Loop, Phases
  <2>3. loops' = (loops \ {l}) \cup {m}
    BY <1>2 DEF Becomes
  <2>4. status' \in [Jobs -> Statuses] /\ \A k \in Jobs : status'[k] = IF k = j THEN "printing" ELSE s[k]
    BY <1>2, <2>1 DEF Statuses
  <2> QED
    BY <2>1, <2>2, <2>3, <2>4
<1> QED
  BY <1>1, <1>2 DEF LoopHead

LEMMA TakeIInv ==
    ASSUME IInv, NEW l \in loops, Take(l)
    PROVE  IInv'
<1> USE DEF IInv, Take, history
<1>1. status \in [Jobs -> Statuses] /\ l \in Loop /\ sent \in [Jobs -> Nat] /\ troubles \in Nat
  BY DEF TypeOK
<1>2. PICK m \in Loop :
              /\ m.printer = l.printer
              /\ loops' = (loops \ {l}) \cup {m}
              /\ status' \in [Jobs -> Statuses]
              /\ \/ /\ m.phase = "sending" /\ m.job \in Jobs
                    /\ status[m.job] = "queued" /\ printer[m.job] = l.printer
                    /\ \A j \in Jobs : status'[j] = IF j = m.job THEN "printing" ELSE status[j]
                 \/ m.phase = "ended" /\ status' = status
  BY <1>1, HeadGoesOn
<1>3. \A j \in Jobs : /\ status'[j] = "queued" => status[j] = "queued"
                      /\ status'[j] = "done" => sent'[j] > 0
                      /\ status[j] = "none" => status'[j] = "none"
                      /\ status[j] = "printing" => status'[j] = "printing"
  BY <1>2 DEF DoneWasSent
<1>4. UNCHANGED <<printer, attempts, savedGen, files, process, locked, wake, stalled, last, asked>>
      /\ sent' = sent /\ troubles' = troubles
  OBVIOUS
<1> HIDE DEF IInv, Take
<1> QED
  BY <1>1, <1>2, <1>3, <1>4, LoopGoesOn

\* What the answer to a send does to the history and to the row.
LEMMA SendEnds ==
    ASSUME IInv, NEW l \in loops, l.phase = "sending", NEW outcome \in Outcomes, NEW n \in Reached(outcome),
           sent' = [sent EXCEPT ![l.job] = @ + n]
    PROVE  /\ l.job \in Jobs
           /\ sent' \in [Jobs -> Nat]
           /\ \A j \in Jobs : sent'[j] = sent[j] \/ (j = l.job /\ sent'[j] = sent[j] + 1)
           /\ Saved(l, outcome) \in [Jobs -> Statuses]
           /\ \A j \in Jobs : Saved(l, outcome)[j] = IF j = l.job THEN outcome ELSE status[j]
           /\ \A j \in Jobs : Saved(l, outcome)[j] = "done" => sent'[j] > 0
<1> USE DEF IInv
<1>1. l.job \in Jobs /\ status \in [Jobs -> Statuses] /\ sent \in [Jobs -> Nat]
  BY DEF LoopsOK, TypeOK
<1>2. n \in {0, 1} /\ (outcome = "done" => n = 1)
  BY DEF Reached, Outcomes
<1>3. sent' \in [Jobs -> Nat] /\ \A j \in Jobs : sent'[j] = IF j = l.job THEN sent[j] + n ELSE sent[j]
  BY <1>1, <1>2
<1>4. Saved(l, outcome) \in [Jobs -> Statuses]
      /\ \A j \in Jobs : Saved(l, outcome)[j] = IF j = l.job THEN outcome ELSE status[j]
  BY <1>1 DEF Saved, Outcomes, Statuses
<1>5. \A j \in Jobs : Saved(l, outcome)[j] = "done" => sent'[j] > 0
  BY <1>1, <1>2, <1>3, <1>4 DEF DoneWasSent
<1> QED
  BY <1>1, <1>2, <1>3, <1>4, <1>5

LEMMA FinishIInv ==
    ASSUME IInv, NEW l \in loops, NEW outcome \in Outcomes, Finish(l, outcome)
    PROVE  IInv'
<1> DEFINE s == Trimmed(Saved(l, outcome))
<1>1. PICK n \in Reached(outcome) : sent' = [sent EXCEPT ![l.job] = @ + n]
  BY DEF Finish
<1>2. l.phase = "sending" /\ LoopHead(l, s) /\ troubles' = troubles
      /\ UNCHANGED <<printer, attempts, savedGen, files, process, locked, wake, stalled, last, asked>>
  BY DEF Finish
<1>3. /\ l.job \in Jobs
      /\ sent' \in [Jobs -> Nat]
      /\ \A j \in Jobs : sent'[j] = sent[j] \/ (j = l.job /\ sent'[j] = sent[j] + 1)
      /\ Saved(l, outcome) \in [Jobs -> Statuses]
      /\ \A j \in Jobs : Saved(l, outcome)[j] = IF j = l.job THEN outcome ELSE status[j]
      /\ \A j \in Jobs : Saved(l, outcome)[j] = "done" => sent'[j] > 0
  BY <1>1, <1>2, SendEnds
<1>4. /\ s \in [Jobs -> Statuses]
      /\ \A j \in Jobs : /\ s[j] \in {Saved(l, outcome)[j], "gone"}
                         /\ Saved(l, outcome)[j] \in {"none", "queued", "printing"} => s[j] = Saved(l, outcome)[j]
  BY <1>3, TrimKeepsTheRest
<1>5. l \in Loop /\ troubles \in Nat /\ status[l.job] = "printing"
  BY <1>2 DEF IInv, TypeOK, LoopsOK
<1> HIDE DEF s
<1>6. PICK m \in Loop :
              /\ m.printer = l.printer
              /\ loops' = (loops \ {l}) \cup {m}
              /\ status' \in [Jobs -> Statuses]
              /\ \/ /\ m.phase = "sending" /\ m.job \in Jobs
                    /\ s[m.job] = "queued" /\ printer[m.job] = l.printer
                    /\ \A j \in Jobs : status'[j] = IF j = m.job THEN "printing" ELSE s[j]
                 \/ m.phase = "ended" /\ status' = s
  BY <1>2, <1>4, <1>5, HeadGoesOn
<1>7. \A j \in Jobs : /\ s[j] = "queued" => status[j] = "queued"
                      /\ s[j] = "done" => sent'[j] > 0
                      /\ status[j] = "none" => s[j] = "none"
                      /\ status[j] = "printing" /\ j # l.job => s[j] = "printing"
  BY <1>3, <1>4, <1>5 DEF Outcomes
<1>8. \A j \in Jobs : /\ status'[j] = "queued" => status[j] = "queued"
                      /\ status'[j] = "done" => sent'[j] > 0
                      /\ status[j] = "none" => status'[j] = "none"
                      /\ status[j] = "printing" /\ j # l.job => status'[j] = "printing"
  BY <1>6, <1>7
<1>9. m.phase = "sending" => /\ m.job \in Jobs
                             /\ status[m.job] = "queued"
                             /\ status'[m.job] = "printing"
                             /\ printer[m.job] = l.printer
  BY <1>6, <1>7
<1> QED
  BY <1>2, <1>3, <1>5, <1>6, <1>8, <1>9, LoopGoesOn

LEMMA StorageFailsIInv ==
    ASSUME IInv, NEW l \in loops, StorageFails(l)
    PROVE  IInv'
<1> DEFINE m == [l EXCEPT !.phase = "broken", !.job = None]
<1>1. l \in Loop /\ status \in [Jobs -> Statuses] /\ sent \in [Jobs -> Nat] /\ troubles' \in Nat
  BY DEF IInv, TypeOK, StorageFails
<1>2. m \in Loop /\ m.printer = l.printer /\ m.phase = "broken"
  BY <1>1 DEF Loop, Phases
<1>3. loops' = (loops \ {l}) \cup {m}
      /\ UNCHANGED <<printer, attempts, savedGen, files, process, locked, wake, stalled, last, asked>>
  BY DEF StorageFails, Becomes
<1> HIDE DEF m
<1>4. CASE l.phase = "due" /\ UNCHANGED <<status, sent>>
  <2>1. \A j \in Jobs : status[j] = "done" => sent[j] > 0
    BY DEF IInv, DoneWasSent
  <2> QED
    BY <1>1, <1>2, <1>3, <1>4, <2>1, LoopGoesOn
<1>5. ASSUME l.phase = "sending", NEW outcome \in Outcomes, NEW n \in Reached(outcome),
             sent' = [sent EXCEPT ![l.job] = @ + n],
             status' \in {status, Saved(l, outcome), Trimmed(Saved(l, outcome))}
      PROVE  IInv'
  <2>1. /\ l.job \in Jobs
        /\ sent' \in [Jobs -> Nat]
        /\ \A j \in Jobs : sent'[j] = sent[j] \/ (j = l.job /\ sent'[j] = sent[j] + 1)
        /\ Saved(l, outcome) \in [Jobs -> Statuses]
        /\ \A j \in Jobs : Saved(l, outcome)[j] = IF j = l.job THEN outcome ELSE status[j]
        /\ \A j \in Jobs : Saved(l, outcome)[j] = "done" => sent'[j] > 0
    BY <1>5, SendEnds
  <2>2. /\ Trimmed(Saved(l, outcome)) \in [Jobs -> Statuses]
        /\ \A j \in Jobs :
              /\ Trimmed(Saved(l, outcome))[j] \in {Saved(l, outcome)[j], "gone"}
              /\ Saved(l, outcome)[j] \in {"none", "queued", "printing"}
                    => Trimmed(Saved(l, outcome))[j] = Saved(l, outcome)[j]
    BY <2>1, TrimKeepsTheRest
  <2>3. status[l.job] = "printing" /\ \A j \in Jobs : status[j] = "done" => sent[j] > 0
    BY <1>5 DEF IInv, LoopsOK, DoneWasSent
  <2>4. status' \in [Jobs -> Statuses]
    BY <1>1, <1>5, <2>1, <2>2
  <2>5. \A j \in Jobs : /\ status'[j] = "queued" => status[j] = "queued"
                        /\ status'[j] = "done" => sent'[j] > 0
                        /\ status[j] = "none" => status'[j] = "none"
                        /\ status[j] = "printing" /\ j # l.job => status'[j] = "printing"
    <3>1. CASE status' = status
      BY <1>1, <2>1, <2>3, <3>1
    <3>2. CASE status' = Saved(l, outcome)
      BY <2>1, <2>3, <3>2 DEF Outcomes
    <3>3. CASE status' = Trimmed(Saved(l, outcome))
      BY <2>1, <2>2, <2>3, <3>3 DEF Outcomes
    <3> QED
      BY <1>5, <3>1, <3>2, <3>3
  <2> QED
    BY <1>1, <1>2, <1>3, <1>5, <2>1, <2>4, <2>5, LoopGoesOn
<1> QED
  BY <1>4, <1>5 DEF StorageFails

LEMMA FinallyIInv ==
    ASSUME IInv, NEW l \in loops, Finally(l)
    PROVE  IInv'
<1> USE DEF IInv, database, files, process, history
<1>1. l \in Loop /\ l.printer \in Printers /\ Due(l.printer) \in Loop
      /\ Due(l.printer).printer = l.printer /\ Due(l.printer).phase = "due"
  BY DEF TypeOK, Loop, Due, Phases
<1>2. UNCHANGED <<database, files, process, wake, history>> /\ l.phase \in {"ended", "broken"}
  BY DEF Finally
<1>3. CASE MoreToDo(l) /\ loops' = (loops \ {l}) \cup {Due(l.printer)} /\ UNCHANGED <<locked, stalled>>
  <2>1. \A j \in Jobs : status[j] = "done" => sent[j] > 0
    BY DEF DoneWasSent
  <2>2. status \in [Jobs -> Statuses] /\ sent \in [Jobs -> Nat] /\ troubles \in Nat
    BY DEF TypeOK
  <2>3. UNCHANGED <<printer, attempts, savedGen, files, process, locked, wake, stalled, last, asked,
                    status, sent, troubles>>
    BY <1>2, <1>3
  <2> HIDE DEF IInv
  <2> QED
    BY <1>1, <1>3, <2>1, <2>2, <2>3, LoopGoesOn
<1>4. CASE /\ ~MoreToDo(l)
           /\ loops' = loops \ {l} /\ locked' = locked \ {l.printer}
           /\ stalled' = IF l.phase = "broken" THEN stalled \cup {l.printer} ELSE stalled
  <2>1. TypeOK'
    BY <1>1, <1>2, <1>4 DEF TypeOK
  <2>2. OneLoopPerPrinter'
    <3>1. locked' = {k.printer : k \in loops'}
      BY <1>4 DEF OneLoopPerPrinter
    <3> QED
      BY <1>4, <3>1 DEF OneLoopPerPrinter
  <2>3. LoopsOK' /\ InDoubtKnown'
    BY <1>2, <1>4 DEF LoopsOK, InDoubtKnown
  <2>4. RowsOK' /\ GenerationsOK' /\ SnapshotOK' /\ NoUnaskedCopy' /\ DoneWasSent'
    BY <1>2 DEF RowsOK, GenerationsOK, SnapshotOK, NoUnaskedCopy, DoneWasSent
  <2>5. QueuedHasWorker'
    <3>1. ~stopped /\ l.phase = "ended" => \A j \in Jobs : status[j] = "queued" => printer[j] # l.printer
      BY <1>4 DEF MoreToDo, Queued
    <3>2. l.phase = "broken" => l.printer \in stalled'
      BY <1>4
    <3> QED
      BY <1>2, <1>4, <3>1, <3>2 DEF QueuedHasWorker
  <2> QED
    BY <2>1, <2>2, <2>3, <2>4, <2>5
<1> QED
  BY <1>3, <1>4 DEF Finally

-----------------------------------------------------------------------------
(* The hub stops, starts and is restored.                                  *)

LEMMA CloseIInv == IInv /\ Close => IInv'
<1> SUFFICES ASSUME IInv, Close PROVE IInv'
  OBVIOUS
<1> USE DEF IInv, Close, database, files, workers, history
<1>1. TypeOK' /\ OneLoopPerPrinter' /\ LoopsOK' /\ RowsOK' /\ GenerationsOK'
  BY DEF TypeOK, OneLoopPerPrinter, LoopsOK, RowsOK, GenerationsOK
<1>2. SnapshotOK' /\ InDoubtKnown' /\ NoUnaskedCopy' /\ DoneWasSent' /\ QueuedHasWorker'
  BY DEF SnapshotOK, InDoubtKnown, NoUnaskedCopy, DoneWasSent, QueuedHasWorker
<1> QED
  BY <1>1, <1>2

LEMMA ClosedIInv == IInv /\ Closed => IInv'
<1> SUFFICES ASSUME IInv, Closed PROVE IInv'
  OBVIOUS
<1> USE DEF IInv, Closed, ForgetMemory, database, files, history
<1>1. TypeOK' /\ OneLoopPerPrinter' /\ LoopsOK' /\ RowsOK' /\ GenerationsOK'
  BY DEF TypeOK, OneLoopPerPrinter, LoopsOK, RowsOK, GenerationsOK
<1>2. SnapshotOK' /\ InDoubtKnown' /\ NoUnaskedCopy' /\ DoneWasSent' /\ QueuedHasWorker'
  BY DEF SnapshotOK, InDoubtKnown, NoUnaskedCopy, DoneWasSent, QueuedHasWorker
<1> QED
  BY <1>1, <1>2

LEMMA CrashIInv == IInv /\ Crash => IInv'
<1> SUFFICES ASSUME IInv, Crash PROVE IInv'
  OBVIOUS
<1> USE DEF IInv, ForgetMemory, database, files
<1>1. PICK out \in SUBSET {l.job : l \in {m \in loops : m.phase = "sending"}} :
          sent' = [j \in Jobs |-> IF j \in out THEN sent[j] + 1 ELSE sent[j]]
  BY DEF Crash
<1>2. ForgetMemory /\ troubles' = troubles + 1 /\ UNCHANGED <<database, files, last, asked>>
  BY DEF Crash
<1>3. \A j \in out : status[j] = "printing" /\ sent[j] <= asked[j]
  BY <1>1 DEF LoopsOK, InDoubtKnown
<1>4. sent' \in [Jobs -> Nat]
      /\ \A j \in Jobs : sent'[j] = IF j \in out THEN sent[j] + 1 ELSE sent[j]
  BY <1>1 DEF TypeOK
<1>5. \A j \in Jobs : sent[j] \in Nat /\ asked[j] \in Nat
  BY DEF TypeOK
<1>6. TypeOK'
  <2>1. troubles' \in Nat
    BY <1>2 DEF TypeOK
  <2>2. sent' \in [Jobs -> Nat]
    BY <1>4
  <2> QED
    BY <1>2, <2>1, <2>2 DEF TypeOK
<1>7. OneLoopPerPrinter' /\ LoopsOK' /\ GenerationsOK' /\ QueuedHasWorker'
  BY <1>2 DEF OneLoopPerPrinter, LoopsOK, GenerationsOK, QueuedHasWorker
<1>8. RowsOK'
  BY <1>2, <1>3, <1>4 DEF RowsOK
<1>9. SnapshotOK' /\ DoneWasSent'
  BY <1>2, <1>4, <1>5 DEF SnapshotOK, DoneWasSent
<1>10. InDoubtKnown' /\ NoUnaskedCopy'
  BY <1>2, <1>3, <1>4, <1>5 DEF InDoubtKnown, NoUnaskedCopy
<1> QED
  BY <1>6, <1>7, <1>8, <1>9, <1>10

LEMMA OpenIInv == IInv /\ Open => IInv'
<1> SUFFICES ASSUME IInv, Open PROVE IInv'
  OBVIOUS
<1> USE DEF IInv, Open, database, files, workers, history
<1>1. (savedGen # fileGen) \in BOOLEAN
  OBVIOUS
<1>2. TypeOK'
  BY <1>1 DEF TypeOK
<1>3. OneLoopPerPrinter' /\ LoopsOK' /\ RowsOK' /\ GenerationsOK'
  BY DEF OneLoopPerPrinter, LoopsOK, RowsOK, GenerationsOK
<1>4. SnapshotOK' /\ InDoubtKnown' /\ NoUnaskedCopy' /\ DoneWasSent' /\ QueuedHasWorker'
  BY DEF SnapshotOK, InDoubtKnown, NoUnaskedCopy, DoneWasSent, QueuedHasWorker
<1> QED
  BY <1>2, <1>3, <1>4

LEMMA HoldIInv ==
    ASSUME IInv, NEW j \in Jobs, Hold(j)
    PROVE  IInv'
<1> USE DEF IInv, Hold, files, process, workers, history
<1>1. status[j] # "none"
  BY DEF InDoubt
<1>2. \A k \in Jobs : status'[k] = IF k = j THEN "unknown" ELSE status[k]
  BY DEF TypeOK
<1>3. TypeOK'
  BY DEF TypeOK, Statuses
<1>4. OneLoopPerPrinter' /\ GenerationsOK' /\ SnapshotOK' /\ NoUnaskedCopy'
  BY DEF OneLoopPerPrinter, GenerationsOK, SnapshotOK, NoUnaskedCopy
<1>5. LoopsOK' /\ InDoubtKnown' /\ DoneWasSent' /\ QueuedHasWorker'
  BY <1>2 DEF LoopsOK, InDoubtKnown, DoneWasSent, QueuedHasWorker
<1>6. RowsOK'
  BY <1>1, <1>2 DEF RowsOK
<1> QED
  BY <1>3, <1>4, <1>5, <1>6

LEMMA StartIInv == IInv /\ Start => IInv'
<1> SUFFICES ASSUME IInv, Start PROVE IInv'
  OBVIOUS
<1> USE DEF IInv, Start, files, history
<1> DEFINE busy == {p \in Printers : Queued(p, status) # {}}
<1>1. locked' = busy /\ loops' = {Due(p) : p \in busy}
  OBVIOUS
<1>2. \A p \in Printers : Due(p) \in Loop /\ Due(p).printer = p /\ Due(p).phase = "due"
  BY DEF Due, Loop, Phases
<1>3. \A j \in Jobs : status[j] = "queued" => j <= last /\ printer[j] \in busy
  BY DEF RowsOK, Queued, TypeOK, Jobs
<1>4. busy \subseteq Printers
  OBVIOUS
<1> HIDE DEF busy
<1>5. TypeOK'
  BY <1>1, <1>2, <1>4 DEF TypeOK
<1>6. OneLoopPerPrinter' /\ LoopsOK'
  <2>1. locked' = {l.printer : l \in loops'}
    BY <1>1, <1>2, <1>4
  <2>2. \A l \in loops' : l.phase = "due" /\ l = Due(l.printer)
    BY <1>1, <1>2, <1>4
  <2> QED
    BY <2>1, <2>2 DEF OneLoopPerPrinter, LoopsOK
<1>7. RowsOK' /\ GenerationsOK' /\ SnapshotOK' /\ NoUnaskedCopy' /\ DoneWasSent'
  <2>1. UNCHANGED <<printer, status, last, sent, asked, snapshot, fileGen>>
    OBVIOUS
  <2>2. RowsOK'
    BY <2>1 DEF RowsOK
  <2>3. GenerationsOK'
    BY DEF GenerationsOK, TypeOK
  <2>4. SnapshotOK' /\ NoUnaskedCopy' /\ DoneWasSent'
    BY <2>1 DEF SnapshotOK, NoUnaskedCopy, DoneWasSent
  <2> QED
    BY <2>2, <2>3, <2>4
<1>8. InDoubtKnown'
  <2>1. \A l \in loops' : l.phase # "sending"
    BY <1>1, <1>2, <1>4
  <2>2. \A j \in Jobs : status[j] = "queued" => sent[j] <= asked[j]
    BY DEF InDoubt, InDoubtKnown, GenerationsOK
  <2> QED
    BY <2>1, <2>2 DEF InDoubtKnown
<1>9. QueuedHasWorker'
  BY <1>1, <1>3 DEF QueuedHasWorker
<1> QED
  BY <1>5, <1>6, <1>7, <1>8, <1>9

LEMMA BackupIInv == IInv /\ Backup => IInv'
<1> SUFFICES ASSUME IInv, Backup PROVE IInv'
  OBVIOUS
<1> USE DEF IInv, Backup, database, process, workers, history
<1>1. TypeOK'
  BY DEF TypeOK
<1>2. OneLoopPerPrinter' /\ LoopsOK' /\ RowsOK' /\ GenerationsOK'
  BY DEF OneLoopPerPrinter, LoopsOK, RowsOK, GenerationsOK
<1>3. SnapshotOK'
  BY DEF SnapshotOK, RowsOK, DoneWasSent, GenerationsOK
<1>4. InDoubtKnown' /\ NoUnaskedCopy' /\ DoneWasSent' /\ QueuedHasWorker'
  BY DEF InDoubtKnown, NoUnaskedCopy, DoneWasSent, QueuedHasWorker
<1> QED
  BY <1>1, <1>2, <1>3, <1>4

LEMMA RestoreIInv == IInv /\ Restore => IInv'
<1> SUFFICES ASSUME IInv, Restore PROVE IInv'
  OBVIOUS
<1> USE DEF IInv, Restore, process, workers, history
<1>1. snapshot \in [status : [Jobs -> Statuses], attempts : [Jobs -> Nat], generation : Nat]
      /\ snapshot.generation <= fileGen /\ fileGen \in Nat
  BY DEF TypeOK, SnapshotOK
<1>2. savedGen' \in Nat /\ fileGen' \in Nat /\ savedGen' < fileGen' /\ snapshot'.generation <= fileGen'
  BY <1>1
<1>3. status' \in [Jobs -> Statuses]
      /\ \A j \in Jobs : status'[j] = IF snapshot.status[j] = "none" /\ j <= last THEN "gone" ELSE snapshot.status[j]
  BY <1>1 DEF Statuses
<1>4. TypeOK'
  BY <1>1, <1>2, <1>3 DEF TypeOK
<1>5. OneLoopPerPrinter' /\ NoUnaskedCopy'
  BY DEF OneLoopPerPrinter, NoUnaskedCopy
<1>6. LoopsOK' /\ GenerationsOK' /\ QueuedHasWorker'
  BY <1>2 DEF LoopsOK, GenerationsOK, QueuedHasWorker
<1>7. RowsOK'
  <2>1. \A j \in Jobs : j > last => ~(j <= last)
    BY DEF Jobs, TypeOK
  <2> QED
    BY <1>3, <2>1 DEF RowsOK, SnapshotOK
<1>8. SnapshotOK' /\ DoneWasSent'
  BY <1>2, <1>3 DEF SnapshotOK, DoneWasSent
<1>9. InDoubtKnown'
  BY <1>2 DEF InDoubtKnown, LoopsOK
<1> QED
  BY <1>4, <1>5, <1>6, <1>7, <1>8, <1>9

-----------------------------------------------------------------------------
LEMMA IInvStutters == IInv /\ UNCHANGED vars => IInv'
<1> SUFFICES ASSUME IInv, UNCHANGED vars PROVE IInv'
  OBVIOUS
<1> USE DEF IInv, vars, database, files, process, workers, history
<1>1. TypeOK' /\ OneLoopPerPrinter' /\ LoopsOK' /\ RowsOK' /\ GenerationsOK'
  BY DEF TypeOK, OneLoopPerPrinter, LoopsOK, RowsOK, GenerationsOK
<1>2. SnapshotOK' /\ InDoubtKnown' /\ NoUnaskedCopy' /\ DoneWasSent' /\ QueuedHasWorker'
  BY DEF SnapshotOK, InDoubtKnown, NoUnaskedCopy, DoneWasSent, QueuedHasWorker
<1> QED
  BY <1>1, <1>2

\* The queue keeps IInv, whatever happens to the hub.
THEOREM IInvHolds == Spec => []IInv
<1>1. IInv /\ [Next]_vars => IInv'
  <2> SUFFICES ASSUME IInv, [Next]_vars PROVE IInv'
    OBVIOUS
  <2>1. ASSUME NEW p \in Printers, NEW n \in Copies, Enqueue(p, n) PROVE IInv'
    BY <2>1, EnqueueIInv
  <2>2. ASSUME NEW p \in Printers, Wake(p) PROVE IInv'
    BY <2>2, WakeIInv
  <2>3. ASSUME NEW j \in Jobs, NEW checkedPaper \in BOOLEAN, Retry(j, checkedPaper) PROVE IInv'
    BY <2>3, RetryIInv
  <2>4. ASSUME NEW j \in Jobs, ConfirmPrinted(j) \/ Hold(j) PROVE IInv'
    BY <2>4, ConfirmIInv, HoldIInv
  <2>5. ASSUME NEW l \in loops, LoopStep(l) \/ StorageFails(l) PROVE IInv'
    BY <2>5, TakeIInv, FinishIInv, FinallyIInv, StorageFailsIInv DEF LoopStep
  <2>6. ASSUME Close \/ Closed \/ Crash \/ Open \/ Start \/ Backup \/ Restore PROVE IInv'
    BY <2>6, CloseIInv, ClosedIInv, CrashIInv, OpenIInv, StartIInv, BackupIInv, RestoreIInv
  <2>7. ASSUME UNCHANGED vars PROVE IInv'
    BY <2>7, IInvStutters
  <2> QED
    BY <2>1, <2>2, <2>3, <2>4, <2>5, <2>6, <2>7 DEF Next
<1> QED
  BY IInvInit, <1>1, PTL DEF Spec

\* Every reachable state has the types of the tables and of the queue's memory.
THEOREM PrintTypes == Spec => []TypeOK
<1>1. IInv => TypeOK
  BY DEF IInv
<1> QED
  BY <1>1, IInvHolds, PTL

\* Two slips never share a printer at a time, for any number of printers, requests and restarts.
THEOREM OneLoop == Spec => []OneLoopPerPrinter
<1>1. IInv => OneLoopPerPrinter
  BY DEF IInv
<1> QED
  BY <1>1, IInvHolds, PTL

\* No slip comes out that nobody asked for, for any number of crashes, storage errors, backups and restores.
THEOREM NothingPrintedUnasked == Spec => []NoUnaskedCopy
<1>1. IInv => NoUnaskedCopy
  BY DEF IInv
<1> QED
  BY <1>1, IInvHolds, PTL

\* No job is shown as printed that no printer got.
THEOREM NothingLostAsDone == Spec => []DoneWasSent
<1>1. IInv => DoneWasSent
  BY DEF IInv
<1> QED
  BY <1>1, IInvHolds, PTL

\* No queued job is forgotten between a loop's last look and the release of its printer.
THEOREM NoLostWakeUp == Spec => []QueuedHasWorker
<1>1. IInv => QueuedHasWorker
  BY DEF IInv
<1> QED
  BY <1>1, IInvHolds, PTL

-----------------------------------------------------------------------------
(* The order of slips.                                                     *)

\* In statuses s, no slip is past one of its printer that was saved before it and waits for its first attempt.
OrderIn(s) ==
    \A j, k \in Jobs :
        /\ j < k  /\ printer[j] = printer[k]
        /\ s[j] = "queued"  /\ asked[j] = 0
        => s[k] \in {"queued", "none"}

\* It holds on the database the hub last ran on, also while the hub is down; of a restored one, queued slips are held first.
OrderKept == savedGen = fileGen => OrderIn(status)

\* Steps that let no slip wait that did not, and none go that waits.
LEMMA OrderGoesOn ==
    ASSUME OrderIn(status), UNCHANGED printer,
           \A j \in Jobs : /\ status'[j] = "queued" /\ asked'[j] = 0 => status[j] = "queued" /\ asked[j] = 0
                           /\ status[j] \in {"queued", "none"} => status'[j] \in {"queued", "none"}
    PROVE  OrderIn(status)'
  BY DEF OrderIn

\* A loop takes the oldest slip of its printer.
LEMMA HeadKeepsOrder ==
    ASSUME NEW l \in Loop, NEW s \in [Jobs -> Statuses], OrderIn(s), LoopHead(l, s), UNCHANGED <<printer, asked>>
    PROVE  OrderIn(status)'
<1>1. CASE status' = s
  BY <1>1 DEF OrderIn
<1>2. ASSUME NEW i \in NextJob(l.printer, s), status' = [s EXCEPT ![i] = "printing"]
      PROVE  OrderIn(status)'
  <2>1. i \in Jobs /\ s[i] = "queued" /\ printer[i] = l.printer
    BY DEF NextJob, Queued
  <2>2. \A j \in Jobs : s[j] = "queued" /\ printer[j] = l.printer => i <= j
    BY DEF NextJob, Queued
  <2>3. \A j \in Jobs : status'[j] = IF j = i THEN "printing" ELSE s[j]
    BY <1>2
  <2>4. ASSUME NEW j \in Jobs, NEW k \in Jobs, j < k, printer[j] = printer[k], status'[j] = "queued", asked[j] = 0
        PROVE  status'[k] \in {"queued", "none"}
    <3>1. j # i /\ s[j] = "queued"
      BY <2>3, <2>4
    <3>2. s[k] \in {"queued", "none"}
      BY <2>4, <3>1 DEF OrderIn
    <3>3. k # i
      <4>1. SUFFICES ASSUME k = i PROVE FALSE
        OBVIOUS
      <4>2. i <= j
        BY <2>1, <2>2, <2>4, <3>1, <4>1
      <4>3. i \in Int /\ j \in Int
        BY <2>1 DEF Jobs
      <4> QED
        BY <2>4, <4>1, <4>2, <4>3
    <3> QED
      BY <2>3, <3>2, <3>3
  <2> QED
    BY <2>4 DEF OrderIn
<1> QED
  BY <1>1, <1>2 DEF LoopHead

LEMMA OrderKeptStep == IInv /\ OrderKept /\ [Next]_vars => OrderKept'
<1> SUFFICES ASSUME IInv, OrderKept, [Next]_vars, savedGen' = fileGen' PROVE OrderIn(status)'
  BY DEF OrderKept
<1>1. status \in [Jobs -> Statuses] /\ asked \in [Jobs -> Nat] /\ loops \subseteq Loop
  BY DEF IInv, TypeOK
<1>2. hub = "up" => OrderIn(status)
  BY DEF IInv, GenerationsOK, OrderKept
<1>3. ASSUME UNCHANGED <<printer, status, asked, savedGen, fileGen>> PROVE OrderIn(status)'
  BY <1>3 DEF OrderKept, OrderIn
<1>4. ASSUME NEW p \in Printers, NEW n \in Copies, Enqueue(p, n) PROVE OrderIn(status)'
  <2>1. OrderIn(status) /\ asked' = asked
    BY <1>2, <1>4 DEF Enqueue
  <2>2. CASE UNCHANGED <<status, printer, last>>
    BY <2>1, <2>2 DEF OrderIn
  <2>3. CASE /\ status'  = [j \in Jobs |-> IF j \in last + 1 .. last + n THEN "queued" ELSE status[j]]
             /\ printer' = [j \in Jobs |-> IF j \in last + 1 .. last + n THEN p ELSE printer[j]]
    <3>1. \A j \in Jobs : j > last => status[j] = "none"
      BY DEF IInv, RowsOK
    <3>2. last \in Nat /\ n \in Nat /\ \A j \in Jobs : j \in Nat
      BY PrintAssumption DEF IInv, TypeOK, Jobs
    <3>3. \A j \in Jobs : IF j \in last + 1 .. last + n THEN status'[j] = "queued" ELSE status'[j] = status[j] /\ printer'[j] = printer[j]
      BY <2>3
    <3>4. \A j, k \in Jobs : j < k /\ j \in last + 1 .. last + n => k > last
      BY <3>2
    <3>5. \A k \in Jobs : k > last => status'[k] \in {"queued", "none"}
      BY <3>1, <3>3
    <3>6. \A k \in Jobs : k \in last + 1 .. last + n => k > last
      BY <3>2
    <3> QED
      BY <2>1, <3>3, <3>4, <3>5, <3>6 DEF OrderIn
  <2> QED
    BY <1>4, <2>2, <2>3 DEF Enqueue
<1>5. ASSUME NEW j \in Jobs, NEW checkedPaper \in BOOLEAN, Retry(j, checkedPaper) PROVE OrderIn(status)'
  <2>1. /\ status' = [status EXCEPT ![j] = "queued"]  /\ asked' = [asked EXCEPT ![j] = @ + 1]
        /\ UNCHANGED printer  /\ OrderIn(status)
    BY <1>2, <1>5 DEF Retry
  <2>2. asked'[j] # 0
    BY <1>1, <2>1
  <2>3. \A k \in Jobs : /\ status'[k] = "queued" /\ asked'[k] = 0 => status[k] = "queued" /\ asked[k] = 0
                        /\ status[k] \in {"queued", "none"} => status'[k] \in {"queued", "none"}
    BY <1>1, <2>1, <2>2
  <2> QED
    BY <2>1, <2>3, OrderGoesOn
<1>6. ASSUME NEW j \in Jobs, status[j] \in {"unknown", "printing"}, NEW to, status' = [status EXCEPT ![j] = to],
             to \notin {"queued", "none"}, UNCHANGED <<printer, asked>>, OrderIn(status)
      PROVE  OrderIn(status)'
  <2>1. \A k \in Jobs : /\ status'[k] = "queued" /\ asked'[k] = 0 => status[k] = "queued" /\ asked[k] = 0
                        /\ status[k] \in {"queued", "none"} => status'[k] \in {"queued", "none"}
    BY <1>1, <1>6
  <2> QED
    BY <1>6, <2>1, OrderGoesOn
<1>7. ASSUME NEW j \in Jobs, ConfirmPrinted(j) PROVE OrderIn(status)'
  BY <1>2, <1>6, <1>7 DEF ConfirmPrinted, history
<1>8. ASSUME NEW j \in Jobs, Hold(j) PROVE OrderIn(status)'
  <2>1. savedGen = fileGen /\ ~restored
    BY <1>8 DEF Hold, files, IInv, GenerationsOK
  <2> QED
    BY <1>6, <1>8, <2>1 DEF Hold, history, InDoubt, OrderKept
\* Steps of a loop.
<1>9. ASSUME NEW l \in loops, Take(l) PROVE OrderIn(status)'
  <2>1. OrderIn(status)
    BY <1>2 DEF IInv, LoopsOK
  <2>2. LoopHead(l, status) /\ UNCHANGED <<printer, asked>> /\ l \in Loop
    BY <1>1, <1>9 DEF Take, history
  <2> QED
    BY <1>1, <2>1, <2>2, HeadKeepsOrder
<1>10. ASSUME NEW l \in loops, l.phase = "sending", NEW outcome \in Outcomes,
              NEW s \in {Saved(l, outcome), Trimmed(Saved(l, outcome))}
       PROVE  /\ s \in [Jobs -> Statuses]
              /\ \A j \in Jobs : /\ s[j] = "queued" => status[j] = "queued"
                                 /\ status[j] \in {"queued", "none"} => s[j] = status[j]
  <2>1. l.job \in Jobs /\ status[l.job] = "printing"
    BY <1>10 DEF IInv, LoopsOK
  <2>2. Saved(l, outcome) \in [Jobs -> Statuses]
        /\ \A j \in Jobs : Saved(l, outcome)[j] = IF j = l.job THEN outcome ELSE status[j]
    BY <1>1, <2>1 DEF Saved, Outcomes, Statuses
  <2>3. /\ Trimmed(Saved(l, outcome)) \in [Jobs -> Statuses]
        /\ \A j \in Jobs :
              /\ Trimmed(Saved(l, outcome))[j] \in {Saved(l, outcome)[j], "gone"}
              /\ Saved(l, outcome)[j] \in {"none", "queued", "printing"}
                    => Trimmed(Saved(l, outcome))[j] = Saved(l, outcome)[j]
    BY <2>2, TrimKeepsTheRest
  <2>4. CASE s = Saved(l, outcome)
    BY <2>1, <2>2, <2>4 DEF Outcomes
  <2>5. CASE s = Trimmed(Saved(l, outcome))
    BY <2>1, <2>2, <2>3, <2>5 DEF Outcomes
  <2> QED
    BY <1>10, <2>4, <2>5
<1>11. ASSUME NEW l \in loops, NEW outcome \in Outcomes, Finish(l, outcome) PROVE OrderIn(status)'
  <2> DEFINE s == Trimmed(Saved(l, outcome))
  <2>1. l.phase = "sending" /\ LoopHead(l, s) /\ UNCHANGED <<printer, asked>> /\ l \in Loop
    BY <1>1, <1>11 DEF Finish
  <2>2. /\ s \in [Jobs -> Statuses]
        /\ \A j \in Jobs : /\ s[j] = "queued" => status[j] = "queued"
                           /\ status[j] \in {"queued", "none"} => s[j] = status[j]
    BY <1>10, <2>1
  <2>3. OrderIn(status)
    BY <1>2 DEF IInv, LoopsOK
  <2> HIDE DEF s
  <2>4. OrderIn(s)
    BY <2>2, <2>3 DEF OrderIn
  <2> QED
    BY <2>1, <2>2, <2>4, HeadKeepsOrder
<1>12. ASSUME NEW l \in loops, StorageFails(l) PROVE OrderIn(status)'
  <2>1. OrderIn(status) /\ UNCHANGED <<printer, asked>>
    BY <1>2, <1>12 DEF StorageFails, IInv, LoopsOK
  <2>2. CASE status' = status
    BY <2>1, <2>2 DEF OrderIn
  <2>3. ASSUME NEW outcome \in Outcomes, l.phase = "sending",
               status' \in {Saved(l, outcome), Trimmed(Saved(l, outcome))}
        PROVE  OrderIn(status)'
    <3>1. \A j \in Jobs : /\ status'[j] = "queued" => status[j] = "queued"
                          /\ status[j] \in {"queued", "none"} => status'[j] = status[j]
      BY <1>10, <2>3
    <3> QED
      BY <2>1, <3>1, OrderGoesOn
  <2> QED
    BY <1>12, <2>2, <2>3 DEF StorageFails
<1>13. CASE Start
  <2>1. UNCHANGED <<printer, status, asked>> /\ hub = "opening" /\ \A j \in Jobs : ~InDoubt(j)
    BY <1>13 DEF Start, history
  <2>2. CASE restored
    BY <2>1, <2>2 DEF InDoubt, OrderIn
  <2>3. CASE ~restored
    <3>1. OrderIn(status)
      BY <2>1, <2>3 DEF IInv, GenerationsOK, OrderKept
    <3> QED
      BY <2>1, <3>1 DEF OrderIn
  <2> QED
    BY <2>2, <2>3
<1>14. ASSUME Restore PROVE FALSE
  <2>1. snapshot.generation \in Nat /\ snapshot.generation <= fileGen /\ fileGen \in Nat
    BY <1>14 DEF Restore, IInv, TypeOK, SnapshotOK
  <2> QED
    BY <1>14, <2>1 DEF Restore
<1>15. ASSUME NEW p \in Printers, Wake(p) PROVE OrderIn(status)'
  BY <1>3, <1>15 DEF Wake, database, files, history
<1>16. ASSUME NEW l \in loops, Finally(l) PROVE OrderIn(status)'
  BY <1>3, <1>16 DEF Finally, database, files, history
<1>17. ASSUME Close \/ Closed \/ Crash \/ Open \/ Backup PROVE OrderIn(status)'
  BY <1>3, <1>17 DEF Close, Closed, Crash, Open, Backup, database, files, history
<1>18. CASE UNCHANGED vars
  BY <1>3, <1>18 DEF vars, database, files, history
<1> QED
  BY <1>4, <1>5, <1>7, <1>8, <1>9, <1>11, <1>12, <1>13, <1>14, <1>15, <1>16, <1>17, <1>18 DEF Next, LoopStep

\* Slips reach a printer in the order they were saved, whatever restarts, retries, storage errors and restores come between.
THEOREM SlipsKeepOrder == Spec => []InSavedOrder
<1>1. Init => OrderKept
  BY DEF Init, OrderKept, OrderIn
<1>2. IInv /\ OrderKept => InSavedOrder
  BY DEF IInv, GenerationsOK, OrderKept, OrderIn, InSavedOrder
<1> QED
  BY <1>1, <1>2, OrderKeptStep, IInvHolds, PTL DEF Spec
=============================================================================
