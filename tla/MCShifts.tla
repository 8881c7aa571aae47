------------------------------ MODULE MCShifts ------------------------------
(* Two cashiers, two shifts, two bills of 2 and of 1, on two dates of two   *)
(* milliseconds.                                                            *)
EXTENDS Shifts, Sequences, TLC
CONSTANTS b1, b2

MCTotal    == (b1 :> 2) @@ (b2 :> 1)
MCAmounts  == {-1, 1}
MCSymmetry == Permutations(Cashiers)

\* What can still matter: earlier payments do by what is left of their bill, by how far a drawer is off, and by whether
\* a saved report still is the report of its date.
Shift(s) ==
    IF opened[s] = Never THEN <<>>
    ELSE LET until == IF Open(s) THEN clock ELSE closed[s]
             said  == IF Open(s) THEN Expected(s, clock) ELSE expected[s]
             early == Paise({p \in CashOf(s, until) : p.at = opened[s] /\ p.nr < before[s]})
         IN  <<Open(s), said - drawer[s] - early, Day(opened[s])>> \o (IF Open(s) THEN <<cashier[s], moved[s]>> ELSE <<>>)
MCView ==
    <<clock, tab, openedOn, issuedOn, endedOn, [s \in Drawers |-> Shift(s)],
      [b \in Bills |-> <<Paise(PaidOn(b)), {p.mode : p \in PaidOn(b)}>>],
      [c \in Cashiers |-> Paise({p \in cash : p.by = c /\ p.mode = "cash" /\ p.at = clock})],
      [d \in DOMAIN saved |-> IF saved[d] = Never THEN <<>> ELSE <<saved[d].on > d, saved[d].report = Report(d)>>]>>
=============================================================================
