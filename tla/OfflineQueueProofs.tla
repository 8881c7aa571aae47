------------------------- MODULE OfflineQueueProofs -------------------------
(***************************************************************************)
(* OfflineQueue, for any number of windows, staff members, orders, actions *)
(* and restores: no action is lost, what one staff member saved for an     *)
(* order is carried out in order, a payment after its bill, and nothing on *)
(* a database it was not meant for.                                        *)
(* All rest on what a window knows: the generation it was told is that of  *)
(* its session (SessionsOK), what it sends belongs to that generation      *)
(* (FlightsOK), and what is gone from the storage of the live generation   *)
(* has happened in it (GoneIsDone).                                        *)
(***************************************************************************)
EXTENDS OfflineQueue, TLAPS

\* A browser is never ahead of the hub, nor a session behind its browser.
SessionsOK ==
    /\ known <= hubGen
    /\ token # None => known <= token[2] /\ token[2] <= hubGen
    /\ \A w \in Windows : phase[w] # "idle" =>
          using[w] # None /\ told[w] = using[w] /\ using[w] <= hubGen
    /\ \A w \in Windows : phase[w] = "told" => sender[w] \in Staff \X Sessions /\ sender[w][2][2] = told[w]

\* Actions are saved for the generation the browser knew; nothing is known of those not saved yet.
SavedOK ==
    /\ \A i \in Entries : i > last => entry[i] = "none" /\ result[i] = "none"
    /\ \A i \in Saved : gen[i] <= known
    /\ \A j \in chained : SameDatabase(j - 1, j)
    /\ applied \subseteq Saved /\ dropped \subseteq Saved /\ reached \subseteq Saved
    /\ backup # None => backup \subseteq Saved

\* A request belongs to the generation of its session, and so does a late one to that of the hub.
FlightsOK ==
    /\ \A w \in Windows, i \in Entries : flight[w][i] # "none" =>
          /\ phase[w] = "sending" /\ i \in Saved /\ gen[i] = told[w]
          /\ flight[w][i] = "ok" => i \in reached /\ (gen[i] = hubGen => i \in applied)
    /\ \A m \in stray : m[1] \in Saved /\ gen[m[1]] = m[2] /\ m[2] = hubGen

\* What left the storage of the live generation has happened in it, or was given up; a result "done" is true.
GoneIsDone ==
    \A i \in Saved : gen[i] = hubGen =>
        /\ entry[i] = "none" => i \in applied \cup discarded
        /\ result[i] = "done" => i \in applied

\* In a database with the actions d, everything before action j has happened or was given up.
Ready(j, d) ==
    /\ \A i \in Saved : i < j /\ SameQueue(i, j) => i \in d \cup discarded
    /\ j \in chained => j - 1 \in d

\* Nothing is sent, carried out or backed up before its time.
InOrder ==
    /\ \A w \in Windows, j \in Entries : flight[w][j] # "none" /\ gen[j] = hubGen => Ready(j, applied)
    /\ \A m \in stray : Ready(m[1], applied)
    /\ \A j \in applied : Ready(j, applied)
    /\ backup # None => \A j \in backup : Ready(j, backup)

IInv ==
    /\ TypeOK
    /\ SessionsOK
    /\ SavedOK
    /\ FlightsOK
    /\ GoneIsDone
    /\ InOrder
    /\ NothingLost
    /\ DiscardHolds
-----------------------------------------------------------------------------
(* Facts about the constants and the state.                                *)

LEMMA Numbers ==
    ASSUME TypeOK
    PROVE  /\ MaxEntries \in Nat /\ MaxRestores \in Nat
           /\ last \in Nat /\ last <= MaxEntries
           /\ Saved \subseteq Entries
           /\ \A i \in Entries : i \in Nat /\ (i \in Saved <=> i <= last)
           /\ hubGen \in Nat /\ known \in Nat
           /\ \A i \in Entries : gen[i] \in Nat
           /\ \A w \in Windows : told[w] \in Nat
           /\ \A g \in Generations : g # None
           /\ \A t \in Sessions : t # None /\ t[1] \in Staff /\ t[2] \in Generations
  BY QueueAssumption DEF TypeOK, Saved, Entries, Generations, Sessions

LEMMA IInvInit == Init => IInv
<1> SUFFICES ASSUME Init PROVE IInv
  OBVIOUS
<1> USE QueueAssumption DEF Init, Entries, Generations, Sessions, Saved
<1>1. TypeOK
  BY DEF TypeOK
<1>2. SessionsOK /\ SavedOK /\ FlightsOK
  BY DEF SessionsOK, SavedOK, FlightsOK
<1>3. GoneIsDone /\ InOrder /\ NothingLost /\ DiscardHolds
  BY DEF GoneIsDone, InOrder, NothingLost, DiscardHolds
<1> QED
  BY <1>1, <1>2, <1>3 DEF IInv

-----------------------------------------------------------------------------
(* Steps that leave the actions, the requests and the hub alone.           *)

\* What the session, the lease and the dialog have no part in.
Quiet == UNCHANGED <<saving, entry, result, known, flight, hub, history>>

LEMMA QuietKeeps ==
    ASSUME IInv, Quiet, \A w \in Windows : phase[w] = "sending" => phase'[w] = "sending" /\ told'[w] = told[w]
    PROVE  SavedOK' /\ FlightsOK' /\ GoneIsDone' /\ InOrder' /\ NothingLost' /\ DiscardHolds'
<1> USE DEF IInv, Quiet, saving, hub, history, Saved, pump
<1>1. SavedOK' /\ NothingLost' /\ DiscardHolds'
  BY DEF SavedOK, SameDatabase, NothingLost, DiscardHolds, InFlight
<1>2. FlightsOK'
  BY DEF FlightsOK
<1>3. GoneIsDone' /\ InOrder'
  BY DEF GoneIsDone, InOrder, Ready, SameQueue, SameDatabase
<1> QED
  BY <1>1, <1>2, <1>3

LEMMA SmallStepsIInv ==
    ASSUME IInv,
           \/ CloseDialog \/ LeaseRunsOut \/ DayPasses
           \/ \E w \in Windows :
                 \/ CheckRefused(w) \/ SignOut(w)
                 \/ \E u \in Staff : SignIn(w, u)
                 \/ \E i \in Entries : AskDiscard(w, i)
    PROVE  IInv'
<1> USE DEF IInv, saving, pump
<1>1. Quiet /\ UNCHANGED pump
  BY DEF CloseDialog, LeaseRunsOut, DayPasses, SignIn, SignOut, CheckRefused, AskDiscard,
         Quiet, storage, windows, hub, history
<1>2. /\ token' \in {token, None} \/ (token' \in Sessions /\ token'[2] = hubGen)
      /\ actor' \in [Windows -> Staff \cup {None}]
  BY DEF CloseDialog, LeaseRunsOut, DayPasses, SignIn, SignOut, Leave, CheckRefused, AskDiscard,
         TypeOK, storage, windows, Sessions
<1>3. /\ lease' \in {lease, None} /\ aged' \subseteq Entries
      /\ dialog' \in {dialog, None} \cup (Windows \X Entries)
  BY DEF CloseDialog, LeaseRunsOut, DayPasses, SignIn, SignOut, CheckRefused, AskDiscard,
         TypeOK, storage, windows
<1>4. TypeOK'
  BY <1>1, <1>2, <1>3 DEF TypeOK, Quiet, saving, pump, hub, history
<1>5. SessionsOK'
  BY <1>1, <1>2, Numbers DEF SessionsOK, Quiet, pump, hub
<1> QED
  BY <1>1, <1>4, <1>5, QuietKeeps DEF pump

LEMMA StartPumpIInv ==
    ASSUME IInv, NEW w \in Windows, StartPump(w)
    PROVE  IInv'
<1> USE DEF IInv, StartPump, Runs, SessionOpen, saving, pump
<1>1. Quiet
  BY DEF Quiet
<1>2. TypeOK'
  BY DEF TypeOK, saving, hub, history
<1>3. SessionsOK'
  <2>1. token \in Sessions /\ token[2] = hubGen /\ sender' = [sender EXCEPT ![w] = <<actor[w], token>>]
    BY DEF TypeOK
  <2>2. sender'[w] = <<actor[w], token>> /\ sender'[w] \in Staff \X Sessions /\ sender'[w][2][2] = hubGen
    BY <2>1, <1>2 DEF TypeOK
  <2> QED
    BY <2>1, <2>2, Numbers DEF SessionsOK, TypeOK, hub
<1>4. \A v \in Windows : phase[v] = "sending" => phase'[v] = "sending" /\ told'[v] = told[v]
  BY DEF TypeOK
<1> QED
  BY <1>1, <1>2, <1>3, <1>4, QuietKeeps

LEMMA CheckFailsIInv ==
    ASSUME IInv, NEW w \in Windows, CheckFails(w)
    PROVE  IInv'
<1> USE DEF IInv, CheckFails, Runs, Ends, Forgets, saving, pump
<1>1. Quiet
  BY DEF Quiet
<1>2. TypeOK'
  BY Numbers, QueueAssumption DEF TypeOK, saving, hub, history, Generations
<1>3. SessionsOK'
  BY Numbers DEF SessionsOK, TypeOK, hub
<1>4. \A v \in Windows : phase[v] = "sending" => phase'[v] = "sending" /\ told'[v] = told[v]
  BY DEF TypeOK
<1> QED
  BY <1>1, <1>2, <1>3, <1>4, QuietKeeps

LEMMA EndRunIInv ==
    ASSUME IInv, NEW w \in Windows, EndRun(w)
    PROVE  IInv'
<1> USE Numbers DEF IInv, EndRun, Runs, Ends, Forgets, Saved, hub, history, saving, pump
<1>1. TypeOK'
  BY QueueAssumption DEF TypeOK, Generations
<1>2. SessionsOK' /\ SavedOK' /\ FlightsOK'
  BY DEF SessionsOK, SavedOK, FlightsOK, SameDatabase, TypeOK
<1>3. GoneIsDone' /\ NothingLost' /\ DiscardHolds'
  BY DEF GoneIsDone, NothingLost, DiscardHolds, InFlight
<1>4. InOrder'
  BY DEF InOrder, Ready, SameQueue, SameDatabase
<1> QED
  BY <1>1, <1>2, <1>3, <1>4

\* A request nobody waits for any more was in order when its window sent it.
LEMMA StrayingIsReady ==
    ASSUME IInv, NEW w \in Windows, NEW is \in SUBSET Entries, NEW m \in Straying(w, is)
    PROVE  /\ m \in Entries \X Generations /\ m[1] \in Saved /\ gen[m[1]] = m[2] /\ m[2] = hubGen
           /\ Ready(m[1], applied)
<1>1. PICK i \in is \ applied : m = <<i, using[w]>> /\ flight[w][i] = "sent" /\ using[w] = hubGen
  BY DEF Straying, SessionOpen
<1>2. flight[w][i] # "none" /\ i \in Entries
  BY <1>1
<1>3. i \in Saved /\ gen[i] = told[w] /\ told[w] = using[w]
  BY <1>2 DEF IInv, FlightsOK, SessionsOK
<1>4. Ready(i, applied)
  BY <1>1, <1>2, <1>3 DEF IInv, InOrder
<1> QED
  BY <1>1, <1>2, <1>3, <1>4 DEF IInv, TypeOK

LEMMA ReloadIInv ==
    ASSUME IInv, NEW w \in Windows, Reload(w)
    PROVE  IInv'
<1> DEFINE late == Straying(w, Entries)
<1>1. \A m \in late : /\ m \in Entries \X Generations /\ m[1] \in Saved /\ gen[m[1]] = m[2] /\ m[2] = hubGen
                      /\ Ready(m[1], applied)
  BY StrayingIsReady
<1>2. stray' = stray \cup late
  BY DEF Reload
<1> HIDE DEF late
<1> USE Numbers DEF IInv, Reload, Forgets, Enters, Saved, storage, history, saving, pump
<1>3. TypeOK'
  BY <1>1, <1>2, QueueAssumption DEF TypeOK, Generations
<1>4. SessionsOK' /\ SavedOK'
  BY DEF SessionsOK, SavedOK, SameDatabase, TypeOK
<1>5. FlightsOK'
  BY <1>1, <1>2 DEF FlightsOK, TypeOK
<1>6. GoneIsDone' /\ NothingLost' /\ DiscardHolds'
  BY DEF GoneIsDone, NothingLost, DiscardHolds, InFlight, TypeOK
<1>7. InOrder'
  BY <1>1, <1>2 DEF InOrder, Ready, SameQueue, SameDatabase, TypeOK
<1> QED
  BY <1>3, <1>4, <1>5, <1>6, <1>7

-----------------------------------------------------------------------------
(* A run with an answer.                                                   *)

\* The answer is that of the session, so what is archived is older than it.
LEMMA ArchiveIInv ==
    ASSUME IInv, NEW w \in Windows, Archive(w)
    PROVE  IInv'
<1> USE Numbers DEF IInv, Archive, Runs, Ends, Forgets, Enters, Saved, StillCurrent, hub, history, saving, pump
<1>1. token \in Sessions /\ token[2] = told[w] /\ known < told[w] /\ told[w] <= hubGen
  <2>1. sender[w] \in Staff \X Sessions /\ sender[w] = <<actor[w], token>>
    BY DEF SessionsOK, TypeOK
  <2>2. token \in Sessions /\ token[2] = told[w]
    BY <2>1 DEF SessionsOK
  <2> QED
    BY <2>2 DEF SessionsOK
<1>2. TypeOK'
  BY QueueAssumption DEF TypeOK, Generations
<1>3. SessionsOK' /\ SavedOK' /\ FlightsOK'
  BY <1>1 DEF SessionsOK, SavedOK, FlightsOK, SameDatabase, TypeOK
<1>4. GoneIsDone'
  BY <1>1 DEF GoneIsDone, SavedOK, TypeOK
<1>5. NothingLost' /\ DiscardHolds'
  BY <1>1 DEF NothingLost, DiscardHolds, SavedOK, InFlight, TypeOK
<1>6. InOrder'
  BY DEF InOrder, Ready, SameQueue, SameDatabase
<1> QED
  BY <1>2, <1>3, <1>4, <1>5, <1>6

LEMMA SendDueIInv ==
    ASSUME IInv, NEW w \in Windows, NEW ds \in SUBSET Due(actor[w]), SendDue(w, ds)
    PROVE  IInv'
<1> USE Numbers DEF IInv, hub, history, saving, pump
<1>1. \A i \in ds : i \in Entries /\ Head(i) /\ entry[i] = "pending" /\ i \in Saved
  BY DEF Due, SavedOK
<1>2. /\ UNCHANGED <<saving, result, known, token, told, using, hub, history>>
      /\ phase' = [phase EXCEPT ![w] = "sending"]
      /\ entry' \in [Entries -> {"none", "pending", "attention"}]
      /\ \A i \in Entries : entry'[i] = "none" <=> entry[i] = "none"
  BY <1>1 DEF SendDue, TypeOK
<1>3. /\ flight' \in [Windows -> [Entries -> {"none", "sent", "ok", "refused"}]]
      /\ \A v \in Windows, i \in Entries : v # w => flight'[v][i] = flight[v][i]
      /\ \A i \in Entries : flight'[w][i] # "none" =>
            flight'[w][i] = "sent" /\ i \in ds /\ Sendable(i, told[w])
  BY DEF SendDue, TypeOK
<1>4. TypeOK'
  BY <1>2, <1>3 DEF SendDue, TypeOK
<1>5. SessionsOK' /\ SavedOK'
  <2>1. SessionsOK'
    BY <1>2 DEF SendDue, Runs, SessionsOK, TypeOK
  <2>2. SavedOK'
    BY <1>2 DEF SavedOK, SameDatabase, Saved
  <2> QED
    BY <2>1, <2>2
<1>6. FlightsOK'
  BY <1>1, <1>2, <1>3 DEF FlightsOK, Sendable, Saved, TypeOK
<1>7. GoneIsDone' /\ NothingLost'
  BY <1>2 DEF GoneIsDone, NothingLost, Saved
<1>8. DiscardHolds'
  BY <1>1, <1>2, <1>3 DEF DiscardHolds, InFlight, SavedOK
<1>9. InOrder'
  <2>1. ASSUME NEW j \in ds, Sendable(j, told[w]), gen[j] = hubGen
        PROVE  Ready(j, applied)
    <3>1. \A i \in Saved : i < j /\ SameQueue(i, j) => i \in applied \cup discarded
      BY <1>1, <2>1 DEF Head, Ahead, GoneIsDone, SameQueue, SameDatabase
    <3>2. j \in chained => j - 1 \in Saved /\ SameDatabase(j - 1, j) /\ result[j - 1] = "done"
      BY <1>1, <2>1 DEF Sendable, SavedOK, TypeOK, Saved
    <3>3. j \in chained => j - 1 \in applied
      BY <2>1, <3>2 DEF GoneIsDone, SameDatabase
    <3> QED
      BY <3>1, <3>3 DEF Ready
  <2>2. \A v \in Windows, j \in Entries : flight'[v][j] # "none" /\ gen[j] = hubGen => Ready(j, applied)
    BY <1>3, <2>1 DEF InOrder
  <2> QED
    BY <1>2, <2>2 DEF InOrder, Ready, SameQueue, SameDatabase, Saved
<1> QED
  BY <1>4, <1>5, <1>6, <1>7, <1>8, <1>9

-----------------------------------------------------------------------------
(* Replies. Whatever another window did meanwhile, the entry is written.    *)

\* What is known of the request whose reply a window handles.
LEMMA ReplyOfSaved ==
    ASSUME IInv, NEW w \in Windows, NEW i \in Entries, flight[w][i] # "none"
    PROVE  i \in Saved /\ i \notin dropped
  BY DEF IInv, FlightsOK, DiscardHolds, InFlight

LEMMA DoneIInv ==
    ASSUME IInv, NEW w \in Windows, NEW i \in Entries, Done(w, i)
    PROVE  IInv'
<1> USE Numbers DEF IInv, Done, Landed, Leaves, hub, history, Saved, saving, pump
<1>1. i \in Saved /\ i \notin dropped /\ i \in reached /\ (gen[i] = hubGen => i \in applied)
  BY ReplyOfSaved DEF FlightsOK
<1>2. TypeOK'
  BY DEF TypeOK
<1>3. SessionsOK' /\ SavedOK'
  BY <1>1 DEF SessionsOK, SavedOK, SameDatabase, TypeOK
<1>4. FlightsOK'
  BY DEF FlightsOK, TypeOK
<1>5. GoneIsDone' /\ NothingLost'
  BY <1>1 DEF GoneIsDone, NothingLost, TypeOK
<1>6. DiscardHolds'
  BY <1>1 DEF DiscardHolds, InFlight, TypeOK
<1>7. InOrder'
  BY DEF InOrder, Ready, SameQueue, SameDatabase, TypeOK
<1> QED
  BY <1>2, <1>3, <1>4, <1>5, <1>6, <1>7

LEMMA RefusedIInv ==
    ASSUME IInv, NEW w \in Windows, NEW i \in Entries, Refused(w, i)
    PROVE  IInv'
<1> USE Numbers DEF IInv, Refused, Landed, Stopped, hub, history, Saved, saving, pump
<1>1. i \in Saved /\ i \notin dropped
  BY ReplyOfSaved
<1>2. /\ entry' \in [Entries -> {"none", "pending", "attention"}]
      /\ \A j \in Entries : j # i => (entry'[j] = "none" <=> entry[j] = "none")
      /\ entry'[i] # "none"
  BY DEF TypeOK
<1>3. TypeOK'
  BY <1>2 DEF TypeOK
<1>4. SessionsOK' /\ SavedOK'
  <2>1. SessionsOK'
    BY DEF SessionsOK
  <2>2. SavedOK'
    BY <1>1, <1>2 DEF SavedOK, SameDatabase, TypeOK
  <2> QED
    BY <2>1, <2>2
<1>5. FlightsOK'
  BY DEF FlightsOK, TypeOK
<1>6. GoneIsDone' /\ NothingLost'
  BY <1>2 DEF GoneIsDone, NothingLost
<1>7. DiscardHolds'
  BY <1>1, <1>2 DEF DiscardHolds, InFlight, TypeOK
<1>8. InOrder'
  BY DEF InOrder, Ready, SameQueue, SameDatabase, TypeOK
<1> QED
  BY <1>3, <1>4, <1>5, <1>6, <1>7, <1>8

LEMMA TryLaterIInv ==
    ASSUME IInv, NEW w \in Windows, NEW i \in Entries, TryLater(w, i)
    PROVE  IInv'
<1> DEFINE late == stray' \ stray
<1>1. \A m \in late : m \in Straying(w, {i})
  BY DEF TryLater
<1>2. \A m \in late : /\ m \in Entries \X Generations /\ m[1] \in Saved /\ gen[m[1]] = m[2] /\ m[2] = hubGen
                      /\ Ready(m[1], applied)
  BY <1>1, StrayingIsReady
<1>3. \A m \in stray' : m \in stray \/ m \in late
  OBVIOUS
<1> HIDE DEF late
<1> USE Numbers DEF IInv, TryLater, Leave, Landed, history, Saved, saving, pump
<1>4. i \in Saved /\ i \notin dropped
  BY ReplyOfSaved
<1>5. token' \in {token, None}
  OBVIOUS
<1>6. TypeOK'
  BY <1>2, <1>3, <1>5 DEF TypeOK
<1>7. SessionsOK' /\ SavedOK'
  BY <1>4, <1>5 DEF SessionsOK, SavedOK, SameDatabase, TypeOK
<1>8. FlightsOK'
  BY <1>2, <1>3 DEF FlightsOK, TypeOK
<1>9. GoneIsDone' /\ NothingLost'
  BY DEF GoneIsDone, NothingLost, TypeOK
<1>10. DiscardHolds'
  BY <1>4 DEF DiscardHolds, InFlight, TypeOK
<1>11. InOrder'
  BY <1>2, <1>3 DEF InOrder, Ready, SameQueue, SameDatabase, TypeOK
<1> QED
  BY <1>6, <1>7, <1>8, <1>9, <1>10, <1>11

-----------------------------------------------------------------------------
(* The hub.                                                                *)

\* Carrying out an action that is ready keeps the order, and fits what is known.
LEMMA HandleKeeps ==
    ASSUME IInv, NEW i \in Entries, NEW answer, NEW wire \in SUBSET stray, Handle(i, answer, wire),
           i \in Saved, gen[i] = hubGen, Ready(i, applied),
           UNCHANGED <<storage>>
    PROVE  /\ SavedOK' /\ GoneIsDone' /\ NothingLost'
           /\ stray' \subseteq stray /\ applied \subseteq applied' /\ reached \subseteq reached'
           /\ applied' \subseteq Entries /\ reached' \subseteq Entries
           /\ \A j \in Entries : Ready(j, applied) => Ready(j, applied)'
           /\ \A j \in applied' : Ready(j, applied)'
           /\ backup # None => \A j \in backup : Ready(j, backup)'
           /\ answer = "ok" => i \in applied' /\ i \in reached'
<1> USE Numbers DEF IInv, Handle, storage, Saved, saving, pump
<1>1. /\ stray' \subseteq stray /\ applied \subseteq applied' /\ reached \subseteq reached'
      /\ applied' \subseteq applied \cup {i} /\ reached' \subseteq reached \cup {i}
      /\ answer = "ok" => i \in applied' /\ i \in reached'
      /\ UNCHANGED <<hubGen, backup, discarded, dropped>>
  OBVIOUS
<1>2. SavedOK'
  BY <1>1 DEF SavedOK, SameDatabase
<1>3. GoneIsDone' /\ NothingLost'
  BY <1>1 DEF GoneIsDone, NothingLost
<1>4. \A j \in Entries : Ready(j, applied) => Ready(j, applied)'
  BY <1>1 DEF Ready, SameQueue, SameDatabase
<1>5. \A j \in applied' : Ready(j, applied)'
  BY <1>1, <1>4 DEF InOrder, TypeOK
<1>6. backup # None => \A j \in backup : Ready(j, backup)'
  BY <1>1 DEF InOrder, Ready, SameQueue, SameDatabase
<1> QED
  BY <1>1, <1>2, <1>3, <1>4, <1>5, <1>6 DEF TypeOK

LEMMA ReceiveIInv ==
    ASSUME IInv, NEW w \in Windows, NEW i \in Entries, Receive(w, i)
    PROVE  IInv'
<1>1. flight[w][i] = "sent" /\ using[w] = hubGen
  BY DEF Receive, SessionOpen
<1>2. i \in Saved /\ gen[i] = hubGen /\ Ready(i, applied) /\ phase[w] = "sending" /\ gen[i] = told[w]
  BY <1>1 DEF IInv, FlightsOK, SessionsOK, InOrder
<1>3. PICK answer \in {"ok", "refused"} :
        flight' = [flight EXCEPT ![w][i] = answer] /\ Handle(i, answer, stray)
  BY DEF Receive
<1>4. UNCHANGED <<storage, actor, pump, dialog>>
  BY DEF Receive
<1>5. /\ SavedOK' /\ GoneIsDone' /\ NothingLost'
      /\ stray' \subseteq stray /\ applied \subseteq applied' /\ reached \subseteq reached'
      /\ applied' \subseteq Entries /\ reached' \subseteq Entries
      /\ \A j \in Entries : Ready(j, applied) => Ready(j, applied)'
      /\ \A j \in applied' : Ready(j, applied)'
      /\ backup # None => \A j \in backup : Ready(j, backup)'
      /\ answer = "ok" => i \in applied' /\ i \in reached'
  BY <1>2, <1>3, <1>4, HandleKeeps
<1>6. UNCHANGED <<hubGen, backup, discarded, dropped>>
  BY <1>3 DEF Handle
<1> USE Numbers DEF IInv, storage, Saved, saving, pump
<1>7. TypeOK'
  BY <1>3, <1>4, <1>5, <1>6 DEF TypeOK
<1>8. SessionsOK'
  BY <1>4, <1>6 DEF SessionsOK
<1>9. FlightsOK'
  BY <1>2, <1>3, <1>4, <1>5, <1>6 DEF FlightsOK, TypeOK
<1>10. DiscardHolds'
  BY <1>1, <1>3, <1>4, <1>6 DEF DiscardHolds, InFlight, TypeOK
<1>11. InOrder'
  <2>1. \A v \in Windows, j \in Entries : flight'[v][j] # "none" => flight[v][j] # "none"
    BY <1>1, <1>3 DEF TypeOK
  <2>2. \A v \in Windows, j \in Entries : flight'[v][j] # "none" /\ gen'[j] = hubGen' => Ready(j, applied)'
    BY <2>1, <1>4, <1>5, <1>6 DEF InOrder
  <2>3. \A m \in stray' : Ready(m[1], applied)'
    BY <1>5 DEF InOrder, TypeOK
  <2> QED
    BY <2>2, <2>3, <1>5, <1>6 DEF InOrder
<1> QED
  BY <1>5, <1>7, <1>8, <1>9, <1>10, <1>11

LEMMA ReceiveStrayIInv ==
    ASSUME IInv, NEW m \in stray, ReceiveStray(m)
    PROVE  IInv'
<1>1. m[1] \in Entries /\ m[1] \in Saved /\ gen[m[1]] = hubGen /\ Ready(m[1], applied)
  BY DEF IInv, FlightsOK, InOrder, TypeOK
<1>2. PICK answer \in {"ok", "refused"} : Handle(m[1], answer, stray \ {m})
  BY DEF ReceiveStray
<1>3. UNCHANGED <<storage, windows>>
  BY DEF ReceiveStray
<1>4. /\ SavedOK' /\ GoneIsDone' /\ NothingLost'
      /\ stray' \subseteq stray /\ applied \subseteq applied' /\ reached \subseteq reached'
      /\ applied' \subseteq Entries /\ reached' \subseteq Entries
      /\ \A j \in Entries : Ready(j, applied) => Ready(j, applied)'
      /\ \A j \in applied' : Ready(j, applied)'
      /\ backup # None => \A j \in backup : Ready(j, backup)'
  BY <1>1, <1>2, <1>3, HandleKeeps
<1>5. UNCHANGED <<hubGen, backup, discarded, dropped>>
  BY <1>2 DEF Handle
<1> USE Numbers DEF IInv, storage, windows, Saved, saving, pump
<1>6. TypeOK'
  BY <1>3, <1>4, <1>5 DEF TypeOK
<1>7. SessionsOK' /\ FlightsOK' /\ DiscardHolds'
  BY <1>3, <1>4, <1>5 DEF SessionsOK, FlightsOK, DiscardHolds, InFlight
<1>8. InOrder'
  BY <1>3, <1>4, <1>5 DEF InOrder, TypeOK
<1> QED
  BY <1>4, <1>6, <1>7, <1>8

LEMMA BackupIInv ==
    ASSUME IInv, Backup
    PROVE  IInv'
<1> USE Numbers DEF IInv, Backup, storage, windows, history, Saved, saving, pump
<1>1. TypeOK'
  BY DEF TypeOK
<1>2. SessionsOK' /\ SavedOK' /\ FlightsOK' /\ GoneIsDone' /\ NothingLost' /\ DiscardHolds'
  BY DEF SessionsOK, SavedOK, FlightsOK, GoneIsDone, NothingLost, DiscardHolds, SameDatabase, InFlight
<1>3. InOrder'
  BY DEF InOrder, Ready, SameQueue, SameDatabase
<1> QED
  BY <1>1, <1>2, <1>3

\* No action belongs to the new generation yet, and no request of an older session can reach it.
LEMMA RestoreIInv ==
    ASSUME IInv, Restore
    PROVE  IInv'
<1> USE Numbers DEF IInv, Restore, SessionOpen, storage, windows, history, Saved, saving, pump
<1>1. /\ hubGen' = hubGen + 1 /\ applied' = backup /\ backup' = backup /\ backup \subseteq Saved
      /\ \A m \in stray' : m \in stray /\ m[2] = hubGen'
  BY DEF SavedOK
<1>2. \A i \in Saved : gen[i] < hubGen'
  BY <1>1 DEF SavedOK, SessionsOK
<1>3. stray' = {}
  BY <1>1, <1>2 DEF FlightsOK
<1>4. TypeOK'
  BY <1>1, <1>3 DEF TypeOK, Generations
<1>5. SessionsOK' /\ SavedOK' /\ NothingLost' /\ DiscardHolds'
  BY <1>1 DEF SessionsOK, SavedOK, NothingLost, DiscardHolds, SameDatabase, InFlight, TypeOK, Generations
<1>6. FlightsOK' /\ GoneIsDone'
  BY <1>1, <1>2, <1>3 DEF FlightsOK, GoneIsDone
<1>7. InOrder'
  BY <1>1, <1>2, <1>3 DEF InOrder, Ready, SameQueue, SameDatabase, FlightsOK
<1> QED
  BY <1>4, <1>5, <1>6, <1>7

-----------------------------------------------------------------------------
(* Staff.                                                                  *)

\* Saving one action, or two of which the second waits for the first.
LEMMA SaveIInv ==
    ASSUME IInv, NEW w \in Windows, NEW l \in Lanes, NEW n, Save(w, l, n),
           \/ n = last + 1 /\ UNCHANGED chained
           \/ n = last + 2 /\ chained' = chained \cup {n}
    PROVE  IInv'
<1> USE Numbers DEF IInv, hub, windows, history, saving, pump
<1>1. /\ n \in Entries /\ n \in Nat /\ n > last /\ last' = n
      /\ UNCHANGED <<result, aged, known, token, lease, windows, hub, history>>
  BY DEF Save
<1>2. /\ \A i \in Entries : i <= last \/ i > n =>
            gen'[i] = gen[i] /\ by'[i] = by[i] /\ lane'[i] = lane[i] /\ entry'[i] = entry[i]
      /\ \A i \in Entries : last < i /\ i <= n => gen'[i] = known /\ lane'[i] = l /\ entry'[i] = "pending"
  <2> DEFINE new == last + 1 .. n
  <2>1. \A i \in Entries : i \in new <=> last < i /\ i <= n
    BY <1>1
  <2>2. /\ by' = [i \in Entries |-> IF i \in new THEN actor[w] ELSE by[i]]
        /\ lane' = [i \in Entries |-> IF i \in new THEN l ELSE lane[i]]
        /\ gen' = [i \in Entries |-> IF i \in new THEN known ELSE gen[i]]
        /\ entry' = [i \in Entries |-> IF i \in new THEN "pending" ELSE entry[i]]
    BY DEF Save
  <2> HIDE DEF new
  <2>3. \A i \in Entries : i <= last \/ i > n => i \notin new
    BY <1>1, <2>1
  <2> QED
    BY <2>1, <2>2, <2>3
<1>3. \A j \in chained' : j \in chained \/ (j = n /\ j - 1 = last + 1)
  BY <1>1
<1>4. TypeOK'
  <2>1. /\ by' \in [Entries -> Staff \cup {None}]
        /\ lane' \in [Entries -> Lanes \cup {None}] /\ gen' \in [Entries -> Generations]
        /\ entry' \in [Entries -> {"none", "pending", "attention"}]
    BY DEF Save, TypeOK
  <2>2. last' \in 0..MaxEntries /\ chained' \subseteq 2..last'
    <3>1. n \in 0..MaxEntries /\ last \in Nat /\ chained \subseteq 2..n
      BY <1>1 DEF TypeOK, Entries
    <3>2. n = last + 2 => n \in 2..n
      BY <1>1, <3>1
    <3> QED
      BY <1>1, <3>1, <3>2
  <2> QED
    BY <1>1, <2>1, <2>2 DEF TypeOK
<1>5. SessionsOK'
  BY <1>1 DEF SessionsOK
<1>6. \A i \in Saved : i \in Saved' /\ gen'[i] = gen[i] /\ by'[i] = by[i] /\ lane'[i] = lane[i] /\ entry'[i] = entry[i]
  BY <1>1, <1>2 DEF Saved
<1>7. \A i \in Saved' :
        /\ i \in Entries /\ i \in Nat
        /\ i \notin Saved => i > last /\ gen'[i] = known /\ lane'[i] = l /\ entry'[i] = "pending"
  BY <1>1, <1>2, <1>4 DEF Saved, TypeOK, Entries
<1>8. SavedOK'
  <2>1. \A j \in chained' : SameDatabase(j - 1, j)'
    <3>1. \A j \in chained : j \in Saved /\ j - 1 \in Saved
      BY DEF TypeOK, Saved
    <3>2. ASSUME n = last + 2 PROVE n \in Saved' /\ n - 1 \in Saved' /\ n \notin Saved /\ n - 1 \notin Saved
      BY <1>1, <3>2 DEF Saved
    <3> QED
      BY <1>3, <1>6, <1>7, <3>1, <3>2 DEF SavedOK, SameDatabase
  <2> QED
    BY <1>1, <1>2, <1>6, <1>7, <2>1 DEF SavedOK
<1>9. FlightsOK'
  BY <1>1, <1>6 DEF FlightsOK
<1>10. GoneIsDone' /\ NothingLost'
  <2>1. \A i \in Saved' : i \notin Saved => result[i] = "none"
    BY <1>7 DEF SavedOK
  <2> QED
    BY <1>1, <1>6, <1>7, <2>1 DEF GoneIsDone, NothingLost
<1>11. DiscardHolds'
  BY <1>1, <1>6 DEF DiscardHolds, SavedOK, InFlight
<1>12. InOrder'
  <2>1. ASSUME NEW j \in Saved, NEW d, Ready(j, d)
        PROVE  Ready(j, d)'
    <3>1. j \in chained' => j \in chained
      BY <1>1, <1>3, <1>7 DEF Saved
    <3>2. ASSUME NEW i \in Saved', i < j, SameQueue(i, j)'
          PROVE  i \in Saved /\ SameQueue(i, j)
      BY <1>6, <1>7, <3>2 DEF Saved, SameQueue, SameDatabase
    <3> QED
      BY <1>1, <2>1, <3>1, <3>2 DEF Ready
  <2>2. \A j \in applied : j \in Saved /\ Ready(j, applied)
    BY DEF InOrder, SavedOK
  <2>3. \A m \in stray : m[1] \in Saved /\ Ready(m[1], applied)
    BY DEF InOrder, FlightsOK
  <2>4. backup # None => \A j \in backup : j \in Saved /\ Ready(j, backup)
    BY DEF InOrder, SavedOK
  <2>5. \A v \in Windows, j \in Entries : flight[v][j] # "none" /\ gen'[j] = hubGen => j \in Saved /\ Ready(j, applied)
    BY <1>6 DEF InOrder, FlightsOK
  <2> QED
    BY <1>1, <2>1, <2>2, <2>3, <2>4, <2>5 DEF InOrder
<1> QED
  BY <1>4, <1>5, <1>8, <1>9, <1>10, <1>11, <1>12

LEMMA RetryIInv ==
    ASSUME IInv, NEW w \in Windows, NEW i \in Entries, Retry(w, i)
    PROVE  IInv'
<1> USE Numbers DEF IInv, Retry, windows, hub, history, Saved, saving, pump
<1>1. /\ entry' \in [Entries -> {"none", "pending", "attention"}]
      /\ \A j \in Entries : entry'[j] = "none" <=> entry[j] = "none"
  BY DEF TypeOK
<1>2. TypeOK'
  BY <1>1 DEF TypeOK
<1>3. SessionsOK' /\ SavedOK' /\ FlightsOK'
  BY <1>1 DEF SessionsOK, SavedOK, FlightsOK, SameDatabase
<1>4. GoneIsDone' /\ NothingLost'
  BY <1>1 DEF GoneIsDone, NothingLost
<1>5. DiscardHolds'
  BY <1>1 DEF DiscardHolds, InFlight, SavedOK
<1>6. InOrder'
  BY DEF InOrder, Ready, SameQueue, SameDatabase
<1> QED
  BY <1>2, <1>3, <1>4, <1>5, <1>6

\* Nobody waits for what is dropped, and what is discarded is given up for good.
LEMMA DiscardIInv ==
    ASSUME IInv, NEW i \in Entries, Discard(i)
    PROVE  IInv'
<1> USE Numbers DEF IInv, hub, history, Saved, saving, pump
<1>1. i \in Saved
  BY DEF Discard, SavedOK
<1>2. /\ entry' \in [Entries -> {"none", "pending", "attention"}]
      /\ \A j \in Entries : j # i => (entry'[j] = "none" <=> entry[j] = "none")
      /\ entry'[i] = "none"
  <2>1. i \notin Dependents(i)
    BY DEF Dependents
  <2> QED
    BY <2>1 DEF Discard, Stopped, TypeOK
<1>3. /\ result' \in [Entries -> {"none", "done", "discarded"}]
      /\ \A j \in Entries : result'[j] # result[j] => j = i /\ result'[j] = "discarded"
  BY DEF Discard, Leaves, TypeOK
<1>4. /\ UNCHANGED <<saving, known, token, lease, actor, pump, flight>>
      /\ UNCHANGED <<stray, hubGen, applied, backup, reached>>
      /\ dialog' = None /\ aged' \subseteq aged /\ discarded' = discarded \cup {i}
      /\ dropped' \subseteq dropped \cup {i} /\ (i \in dropped' => i \in dropped \/ ~InFlight(i))
  BY DEF Discard, Leaves
<1>5. TypeOK'
  BY <1>2, <1>3, <1>4 DEF TypeOK
<1>6. SessionsOK' /\ FlightsOK'
  BY <1>4 DEF SessionsOK, FlightsOK
<1>7. SavedOK'
  BY <1>1, <1>2, <1>3, <1>4 DEF SavedOK, SameDatabase
<1>8. GoneIsDone' /\ NothingLost'
  BY <1>2, <1>3, <1>4 DEF GoneIsDone, NothingLost
<1>9. DiscardHolds'
  BY <1>1, <1>2, <1>4 DEF DiscardHolds, InFlight, SavedOK
<1>10. InOrder'
  BY <1>4 DEF InOrder, Ready, SameQueue, SameDatabase
<1> QED
  BY <1>5, <1>6, <1>7, <1>8, <1>9, <1>10

-----------------------------------------------------------------------------
(* Every step, and the theorems.                                           *)

LEMMA StutterIInv ==
    ASSUME IInv, UNCHANGED vars
    PROVE  IInv'
<1>1. Quiet /\ UNCHANGED pump
  BY DEF vars, Quiet, storage, windows
<1>2. TypeOK' /\ SessionsOK'
  BY DEF IInv, TypeOK, SessionsOK, vars, storage, saving, windows, pump, hub, history
<1> QED
  BY <1>1, <1>2, QuietKeeps DEF IInv, pump

LEMMA NextIInv == IInv /\ [Next]_vars => IInv'
<1> SUFFICES ASSUME IInv, [Next]_vars PROVE IInv'
  OBVIOUS
<1>1. ASSUME NEW w \in Windows, WindowStep(w) PROVE IInv'
  BY <1>1, StartPumpIInv, CheckFailsIInv, SmallStepsIInv, ArchiveIInv, SendDueIInv, ReceiveIInv,
     DoneIInv, RefusedIInv, TryLaterIInv, EndRunIInv, ReloadIInv DEF WindowStep
<1>2. ASSUME NEW w \in Windows, StaffStep(w) PROVE IInv'
  <2>1. ASSUME NEW l \in Lanes, SaveOne(w, l) PROVE IInv'
    BY <2>1, SaveIInv DEF SaveOne
  <2>2. ASSUME NEW l \in Lanes, SavePair(w, l) PROVE IInv'
    BY <2>2, SaveIInv DEF SavePair
  <2> QED
    BY <1>2, <2>1, <2>2, RetryIInv, SmallStepsIInv DEF StaffStep
<1>3. CASE CloseDialog \/ \E i \in Entries : Discard(i)
  BY <1>3, DiscardIInv, SmallStepsIInv
<1>4. ASSUME NEW m \in stray, ReceiveStray(m) PROVE IInv'
  BY <1>4, ReceiveStrayIInv
<1>5. CASE LeaseRunsOut \/ DayPasses
  BY <1>5, SmallStepsIInv
<1>6. CASE Backup \/ Restore
  BY <1>6, BackupIInv, RestoreIInv
<1>7. CASE UNCHANGED vars
  BY <1>7, StutterIInv
<1> QED
  BY <1>1, <1>2, <1>3, <1>4, <1>5, <1>6, <1>7 DEF Next

LEMMA Invariance == Spec => []IInv
  BY IInvInit, NextIInv, PTL DEF Spec

(* The variables keep their types, for any number of windows and actions.  *)
THEOREM QueueTypes == Spec => []TypeOK
<1>1. IInv => TypeOK
  BY DEF IInv
<1> QED
  BY <1>1, Invariance, PTL

(* No action leaves the storage of the browser unless the hub did it, staff *)
(* discarded it or a restore archived it.                                  *)
THEOREM NothingIsLost == Spec => []NothingLost
<1>1. IInv => NothingLost
  BY DEF IInv
<1> QED
  BY <1>1, Invariance, PTL

(* An action discarded while no window waited for its reply stays away.    *)
THEOREM DiscardIsFinal == Spec => []DiscardHolds
<1>1. IInv => DiscardHolds
  BY DEF IInv
<1> QED
  BY <1>1, Invariance, PTL

(* The hub gets what one staff member saved for an order in the order it   *)
(* was saved, through lost replies, late requests, any number of windows   *)
(* and staff members, and restores.                                        *)
THEOREM OrderIsKept == Spec => []LaneInOrder
<1>1. IInv => LaneInOrder
  BY DEF IInv, InOrder, Ready, LaneInOrder
<1> QED
  BY <1>1, Invariance, PTL

(* A payment saved with its bill is never recorded without that bill, in   *)
(* a restored database either.                                             *)
THEOREM PaymentWaits == Spec => []PaymentFollowsBill
<1>1. IInv => PaymentFollowsBill
  BY DEF IInv, InOrder, Ready, PaymentFollowsBill
<1> QED
  BY <1>1, Invariance, PTL

(* What the hub newly carries out was meant for the database it has.       *)
THEOREM RestoreIsClean == Spec => RestoredNeverReceivesOlder
<1> DEFINE Meant == \A i \in applied' \ applied : hubGen' = hubGen => gen[i] = hubGen
<1>1. ASSUME IInv, [Next]_vars PROVE [Meant]_vars
  <2>1. ASSUME NEW w \in Windows, NEW i \in Entries, Receive(w, i) PROVE Meant
    <3>1. gen[i] = hubGen
      BY <1>1, <2>1 DEF IInv, Receive, SessionOpen, FlightsOK, SessionsOK
    <3> QED
      BY <2>1, <3>1 DEF Receive, Handle
  <2>2. ASSUME NEW m \in stray, ReceiveStray(m) PROVE Meant
    <3>1. gen[m[1]] = hubGen
      BY <1>1 DEF IInv, FlightsOK
    <3> QED
      BY <2>2, <3>1 DEF ReceiveStray, Handle
  <2>3. CASE Backup \/ Restore
    BY <1>1, <2>3, Numbers DEF IInv, Backup, Restore
  <2>4. ASSUME NEW w \in Windows, WindowStep(w) PROVE Meant
    <3>1. CASE \E i \in Entries : Receive(w, i)
      BY <3>1, <2>1
    <3>2. CASE applied' = applied
      BY <3>2
    <3> QED
      BY <2>4, <3>1, <3>2 DEF WindowStep, StartPump, CheckFails, CheckRefused, Archive, SendDue, Done,
         Refused, TryLater, EndRun, Reload, hub
  <2>5. CASE \/ \E w \in Windows : StaffStep(w)
             \/ CloseDialog \/ LeaseRunsOut \/ DayPasses \/ \E i \in Entries : Discard(i)
    <3>1. applied' = applied
      BY <2>5 DEF StaffStep, SaveOne, SavePair, Save, Retry, CloseDialog, Discard, AskDiscard, SignIn, SignOut,
         LeaseRunsOut, DayPasses, hub
    <3> QED
      BY <3>1
  <2> QED
    BY <1>1, <2>2, <2>3, <2>4, <2>5 DEF Next
<1> QED
  BY <1>1, Invariance, PTL DEF Spec, RestoredNeverReceivesOlder
=============================================================================
