----------------------------- MODULE MCSeating -----------------------------
(* Two tables of any tier, three bills that may be split, moved and merged  *)
(* in a chain, two reservations and one guest request.                      *)
EXTENDS Seating, TLC

MCSymmetry == Permutations(Tables) \cup Permutations(Orders) \cup Permutations(Reservations)

\* What can still matter.  No rule reads a closed order's row or links, a reservation called off or a review that is
\* over; of a merge only the order that has the bill now.
Over(r) == booking[r].status \in {"cancelled", "no_show"} \/ (booking[r].status = "seated" /\ ~Holds(r))
Reviewed(q) == request[q].status # "none" /\ ~Pending(q)
BillOf(o) == IF o = None THEN None ELSE FinalOrder[o]
MCView ==
    <<now, active, tier, status,
      [o \in {p \in Orders : Live(p)} |-> <<table[o], label[o], charged[o]>>],
      {l \in links : Live(l[2])},
      [r \in Reservations |-> IF Over(r) THEN <<"over">> ELSE <<[booking[r] EXCEPT !.order = BillOf(@)]>>],
      [q \in Requests |-> IF Reviewed(q) THEN <<"over">> ELSE <<request[q]>>]>>
=============================================================================
