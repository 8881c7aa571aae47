------------------------------ MODULE Seating ------------------------------
(***************************************************************************)
(* Who may sit where: tables, split orders, moves, merges and the links a  *)
(* merge leaves (tables.ts, orders.ts, table-transfer.ts, table-label.ts), *)
(* reservations (reservations.ts, reservation-rules.ts) and the orders     *)
(* guests send from a table's QR code (guest-ordering.ts).                 *)
(*                                                                         *)
(* Each handler is one transaction without a wait, so each is one action.  *)
(* The clock counts in steps of one unit; a call that shows a stale        *)
(* version of a reservation is refused and changes nothing.                *)
(***************************************************************************)
EXTENDS Integers, FiniteSets

CONSTANTS
    Tables, Orders, Reservations, Requests,
    Tiers,       \* price tiers of tables
    None,        \* not an order, not a table
    MaxSplits,   \* split labels of a table (26 letters)
    MaxPending,  \* requests of one table that may wait for review (10)
    Early,       \* how long before its time a party may be seated (30 minutes)
    Lifetime,    \* how long a request waits for review (two hours)
    MaxTime      \* bound: the clock of the instance

ASSUME SeatingAssumption ==
    /\ None \notin Tables \cup Orders
    /\ {MaxSplits, MaxPending, Early, Lifetime, MaxTime} \subseteq Nat

VARIABLES
    now,
    active, tier,                      \* dining_tables
    status, table, label, charged,     \* orders: status, table_id, split_label, price_tier
    into,                              \* orders.merged_into
    links,                             \* table_links: <<table, order>>, kept when the order closes
    booking,                           \* reservations: status, table, slot, order
    request                            \* guest_requests: status, table, expiry, order it was accepted into

tableVars == <<active, tier>>
orderVars == <<status, table, label, charged, into, links>>
vars == <<now, tableVars, orderVars, booking, request>>

-----------------------------------------------------------------------------
Live(o)      == status[o] \in {"open", "billed"}
PartiesAt(t) == {o \in Orders : Live(o) /\ table[o] = t}
LinkedTo(t)  == {o \in Orders : Live(o) /\ <<t, o>> \in links}

\* The lowest label no live order of the table has; none is left when all are taken.
FreeLabels(t) == (1 .. MaxSplits) \ {label[o] : o \in PartiesAt(t)}
NextLabel(t)  == CHOOSE n \in FreeLabels(t) : \A m \in FreeLabels(t) : n <= m

\* The order an order's bill ended up in, through any number of merges (an order is merged once, into one still open).
FinalOrder[o \in Orders] == IF into[o] = None THEN o ELSE FinalOrder[into[o]]

Overlap(s, e, r) == booking[r].start < e /\ s < booking[r].end

\* A seated party holds its slot while the bill it was merged into is open or billed.
Holds(r) == \/ booking[r].status = "booked"
            \/ booking[r].status = "seated" /\ Live(FinalOrder[booking[r].order])

\* Bug: a party whose order was merged into another no longer holds its slot.
SlotFreeUnmerged(t, s, e, except) ==
    \A r \in Reservations \ except :
        ~ /\ booking[r].table = t /\ Overlap(s, e, r)
          /\ \/ booking[r].status = "booked"
             \/ booking[r].status = "seated" /\ Live(booking[r].order)

SlotFree(t, s, e, except) ==
    \A r \in Reservations \ except : ~(booking[r].table = t /\ Overlap(s, e, r) /\ Holds(r))

ReservedNow(t) ==
    \E r \in Reservations : booking[r].status = "booked" /\ booking[r].table = t
                            /\ booking[r].start <= now /\ now < booking[r].end

-----------------------------------------------------------------------------
(* Orders at a table *)

\* The row of a new order; the callers check the table.
OpenAt(o, t) ==
    /\ status[o] = "none"  /\ FreeLabels(t) # {}
    /\ status'  = [status EXCEPT ![o] = "open"]
    /\ table'   = [table EXCEPT ![o] = t]
    /\ label'   = [label EXCEPT ![o] = NextLabel(t)]
    /\ charged' = [charged EXCEPT ![o] = tier[t]]
    /\ UNCHANGED <<into, links>>

\* A walk-in: several groups may share a table, each with its own bill.
OpenOrder(o, t) ==
    /\ active[t]  /\ ~ReservedNow(t)
    /\ OpenAt(o, t)
    /\ UNCHANGED <<now, tableVars, booking, request>>

\* Issuing the bill, and what ends an order: settling it, cancelling it, voiding its bill.
Bill(o) ==
    /\ status[o] = "open"
    /\ status' = [status EXCEPT ![o] = "billed"]
    /\ UNCHANGED <<now, tableVars, table, label, charged, into, links, booking, request>>

Close(o) ==
    /\ Live(o)
    /\ status' = [status EXCEPT ![o] = "closed"]
    /\ UNCHANGED <<now, tableVars, table, label, charged, into, links, booking, request>>

\* A table linked only to the order itself counts as free for it; the link there is dropped, the others stay.
Move(o, t) ==
    /\ status[o] = "open"  /\ active[t]
    /\ PartiesAt(t) = {}  /\ LinkedTo(t) \subseteq {o}  /\ ~ReservedNow(t)
    /\ FreeLabels(t) # {}
    /\ links'   = links \ {<<t, o>>}
    /\ table'   = [table EXCEPT ![o] = t]
    /\ label'   = [label EXCEPT ![o] = NextLabel(t)]
    /\ charged' = [charged EXCEPT ![o] = tier[t]]
    /\ UNCHANGED <<now, tableVars, status, into, booking, request>>

\* Accepted requests follow their items.
Follow(q, s, r) == IF request[q].order = s THEN [request[q] EXCEPT !.order = r] ELSE request[q]

\* S is folded into R: S's table and the tables linked to S become links of R, except R's own table.
Merge(s, r) ==
    /\ s # r  /\ status[s] = "open"  /\ status[r] = "open"
    /\ status'  = [status EXCEPT ![s] = "closed"]
    /\ into'    = [into EXCEPT ![s] = r]
    /\ LET Folded == {table[s]} \cup {t \in Tables : <<t, s>> \in links}
       IN  links' = {l \in links : l[2] # s} \cup {<<t, r>> : t \in Folded \ {table[r]}}
    /\ request' = [q \in Requests |-> Follow(q, s, r)]
    /\ UNCHANGED <<now, tableVars, table, label, charged, booking>>

-----------------------------------------------------------------------------
(* Tables *)

\* Bug: only the table's own orders are looked at.
MayDeactivateOwn(t) ==
    /\ PartiesAt(t) = {}
    /\ \A r \in Reservations : ~(booking[r].status = "booked" /\ booking[r].table = t /\ booking[r].end > now)

MayDeactivate(t) ==
    /\ PartiesAt(t) = {}  /\ LinkedTo(t) = {}
    /\ \A r \in Reservations : ~(booking[r].status = "booked" /\ booking[r].table = t /\ booking[r].end > now)

SetActive(t, a) ==
    /\ ~a => MayDeactivate(t)
    /\ active' = [active EXCEPT ![t] = a]
    /\ UNCHANGED <<now, tier, orderVars, booking, request>>

SetTier(t, p) ==
    /\ PartiesAt(t) = {}
    /\ tier' = [tier EXCEPT ![t] = p]
    /\ UNCHANGED <<now, active, orderVars, booking, request>>

-----------------------------------------------------------------------------
(* Reservations *)

\* What booking and editing check; an edit may leave a start that has passed.
Bookable(r, t, s, e) ==
    /\ active[t]  /\ e > now
    /\ s >= now \/ (booking[r].status = "booked" /\ s = booking[r].start)
    /\ SlotFree(t, s, e, {r})

\* Booking a new reservation (status "none") and editing a booked one.
Book(r, t, s, e) ==
    /\ booking[r].status \in {"none", "booked"}
    /\ Bookable(r, t, s, e)
    /\ booking' = [booking EXCEPT ![r] = [status |-> "booked", table |-> t, start |-> s, end |-> e, order |-> None]]
    /\ UNCHANGED <<now, tableVars, orderVars, request>>

\* Cancelled at any time; a no-show only from the time booked.
CallOff(r, as) ==
    /\ booking[r].status = "booked"  /\ (as = "no_show" => now >= booking[r].start)
    /\ booking' = [booking EXCEPT ![r].status = as]
    /\ UNCHANGED <<now, tableVars, orderVars, request>>

\* The party may come early, when nobody sits at the table, also not by a link, and nobody else has it from now on.
Seat(r, o) ==
    LET t == booking[r].table
        start == booking[r].start
    IN  /\ booking[r].status = "booked"  /\ active[t]
        /\ now >= start - Early  /\ now < booking[r].end
        /\ PartiesAt(t) = {}  /\ LinkedTo(t) = {}
        /\ SlotFree(t, IF now < start THEN now ELSE start, booking[r].end, {r})
        /\ OpenAt(o, t)
        /\ booking' = [booking EXCEPT ![r].status = "seated", ![r].order = o]
        /\ UNCHANGED <<now, tableVars, request>>

-----------------------------------------------------------------------------
(* Orders by QR code.  Every handler marks the requests whose time is over, so a request is over when its time is. *)

Pending(q) == request[q].status = "pending" /\ now < request[q].expires

Submit(q, t) ==
    /\ request[q].status = "none"  /\ active[t]
    /\ Cardinality({p \in Requests : Pending(p) /\ request[p].table = t}) < MaxPending
    /\ request' = [request EXCEPT ![q] = [status |-> "pending", table |-> t, expires |-> now + Lifetime,
                                          order |-> None]]
    /\ UNCHANGED <<now, tableVars, orderVars, booking>>

Reject(q) ==
    /\ Pending(q)
    /\ request' = [request EXCEPT ![q].status = "rejected"]
    /\ UNCHANGED <<now, tableVars, orderVars, booking>>

Accepted(q, o) == [request EXCEPT ![q].status = "accepted", ![q].order = o]

\* Into an open order of the table, or one the table is linked to, if it is charged as the table is.
AcceptInto(q, o) ==
    LET t == request[q].table
    IN  /\ Pending(q)  /\ active[t]
        /\ status[o] = "open"  /\ (table[o] = t \/ <<t, o>> \in links)
        /\ charged[o] = tier[t]
        /\ request' = Accepted(q, o)
        /\ UNCHANGED <<now, tableVars, orderVars, booking>>

\* Or into an order of its own, as a walk-in.
AcceptNew(q, o) ==
    LET t == request[q].table
    IN  /\ Pending(q)  /\ active[t]  /\ ~ReservedNow(t)
        /\ OpenAt(o, t)
        /\ request' = Accepted(q, o)
        /\ UNCHANGED <<now, tableVars, booking>>

-----------------------------------------------------------------------------
Tick ==
    /\ now < MaxTime
    /\ now' = now + 1
    /\ UNCHANGED <<tableVars, orderVars, booking, request>>

Init ==
    /\ now = 0
    /\ active  = [t \in Tables |-> TRUE]
    /\ tier \in [Tables -> Tiers]
    /\ status  = [o \in Orders |-> "none"]
    /\ table   = [o \in Orders |-> None]
    /\ label   = [o \in Orders |-> 0]
    /\ charged = [o \in Orders |-> None]
    /\ into    = [o \in Orders |-> None]
    /\ links   = {}
    /\ booking = [r \in Reservations |-> [status |-> "none", table |-> None, start |-> 0, end |-> 0, order |-> None]]
    /\ request = [q \in Requests |-> [status |-> "none", table |-> None, expires |-> 0, order |-> None]]

Next ==
    \/ Tick
    \/ \E o \in Orders :
        \/ Bill(o) \/ Close(o)
        \/ \E t \in Tables : OpenOrder(o, t) \/ Move(o, t)
        \/ \E r \in Orders : Merge(o, r)
        \/ \E r \in Reservations : Seat(r, o)
        \/ \E q \in Requests : AcceptInto(q, o) \/ AcceptNew(q, o)
    \/ \E t \in Tables :
        \/ \E a \in BOOLEAN : SetActive(t, a)
        \/ \E p \in Tiers : SetTier(t, p)
    \/ \E r \in Reservations :
        \/ \E t \in Tables, s, e \in 0 .. MaxTime : s < e /\ Book(r, t, s, e)
        \/ \E as \in {"cancelled", "no_show"} : CallOff(r, as)
    \/ \E q \in Requests :
        \/ Reject(q)
        \/ \E t \in Tables : Submit(q, t)

Spec == Init /\ [][Next]_vars

-----------------------------------------------------------------------------
\* A table is promised to one party at a time: the slots of two reservations of one table that are booked, or whose
\* party still sits on an unpaid bill, do not overlap, whatever was moved, merged and edited since they were taken
\* (assertReservationSlot is asked when a slot is taken, never again).
SlotsDisjoint ==
    \A r, p \in Reservations :
        /\ r # p  /\ booking[r].table = booking[p].table
        /\ Holds(r)  /\ Holds(p)
        => ~Overlap(booking[p].start, booking[p].end, r)

\* Tables in use are open for use, and bills are charged as their table is: a live order and a table linked to it are
\* active, bookings to come are at active tables, two bills of a table have different letters, no order is linked to
\* its own table, and no table changes its prices under an order.
TablesInUse ==
    /\ \A o \in Orders : Live(o) =>
        /\ active[table[o]]  /\ charged[o] = tier[table[o]]
        /\ <<table[o], o>> \notin links
        /\ \A p \in PartiesAt(table[o]) \ {o} : label[p] # label[o]
    /\ \A t \in Tables : LinkedTo(t) # {} => active[t]
    /\ \A r \in Reservations : booking[r].status = "booked" /\ booking[r].end > now => active[booking[r].table]
=============================================================================
