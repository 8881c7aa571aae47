---------------------------- MODULE ShiftsProofs -----------------------------
(***************************************************************************)
(* Shifts, for any cashiers, bills, dates and clock.  What a drawer should *)
(* hold is a sum over the payments of a shift, a fold whose value is only  *)
(* known step by step: the lemmas on sums say that it is 0 for no payment  *)
(* and grows by a payment's paise, whatever order the fold takes them in.  *)
(* They argue with a smallest set of payments of which it were not so.     *)
(***************************************************************************)
EXTENDS Shifts, TLAPS, FiniteSetTheorems, WellFoundedInduction

\* Every set of naturals has a least one.
LEMMA LeastNatural ==
    ASSUME NEW S \in SUBSET Nat, S # {}
    PROVE  \E n \in S : \A m \in S : n <= m
<1> DEFINE R == {p \in Nat \X Nat : p[1] < p[2]}
<1>1. R = OpToRel(<, Nat)
  BY DEF OpToRel
<1>2. IsWellFoundedOn(R, Nat)
  BY <1>1, NatLessThanWellFounded
<1>3. \A m, n \in Nat : m < n => <<m, n>> \in R
  OBVIOUS
<1> HIDE DEF R
<1>4. \E n \in S : \A m \in S : ~ (<<m, n>> \in R)
  BY <1>2, WFMin
<1>5. PICK n \in S : \A m \in S : ~ (<<m, n>> \in R)
  BY <1>4
<1>6. ASSUME NEW m \in S PROVE n <= m
  <2>1. m \in Nat /\ n \in Nat
    OBVIOUS
  <2>2. ~ (m < n)
    BY <1>3, <1>5, <2>1
  <2> QED
    BY <2>1, <2>2
<1> QED
  BY <1>6

\* Among sets of finitely many things one is smallest: without any of its elements it is not among them.
LEMMA SmallestSet ==
    ASSUME NEW S, IsFiniteSet(S), NEW Q \in SUBSET SUBSET S, Q # {}
    PROVE  \E T \in Q : \A x \in T : T \ {x} \notin Q
<1> DEFINE N == {Cardinality(T) : T \in Q}
<1>1. \A T \in Q : IsFiniteSet(T) /\ Cardinality(T) \in Nat
  BY FS_Subset, FS_CardinalityType
<1>2. N \in SUBSET Nat /\ N # {}
  BY <1>1
<1>3. PICK n \in N : \A m \in N : n <= m
  <2> HIDE DEF N
  <2> QED
    BY <1>2, LeastNatural
<1>4. PICK T \in Q : Cardinality(T) = n
  OBVIOUS
<1>5. ASSUME NEW x \in T, T \ {x} \in Q PROVE FALSE
  <2>1. Cardinality(T \ {x}) = n - 1
    BY <1>1, <1>4, FS_RemoveElement
  <2>2. n <= n - 1
    BY <1>3, <1>5, <2>1
  <2> QED
    BY <1>1, <1>4, <2>2
<1> QED
  BY <1>5

-----------------------------------------------------------------------------
(* Sums over finite sets *)

\* W gives each set of things of S the sum of its weights, whichever thing is taken first.
Sums(S, w, W) ==
    /\ W \in [SUBSET S -> Int]  /\ W[{}] = 0
    /\ \A T \in SUBSET S : \A x \in T : W[T] = w[x] + W[T \ {x}]

LEMMA SumsGrow ==
    ASSUME NEW T, NEW x \in T, NEW w, w \in [T -> Int], NEW V, Sums(T \ {x}, w, V)
    PROVE  \E W : Sums(T, w, W)
<1> DEFINE W == [U \in SUBSET T |-> V[U \ {x}] + (IF x \in U THEN w[x] ELSE 0)]
<1>1. \A U \in SUBSET T : U \ {x} \in SUBSET (T \ {x}) /\ V[U \ {x}] \in Int
  BY DEF Sums
<1>2. W \in [SUBSET T -> Int]
  <2>1. w[x] \in Int
    OBVIOUS
  <2>2. \A U \in SUBSET T : V[U \ {x}] + (IF x \in U THEN w[x] ELSE 0) \in Int
    BY <1>1, <2>1
  <2> QED
    BY <2>2
<1>3. W[{}] = 0
  <2>1. {} \ {x} = {} /\ {} \in SUBSET T
    OBVIOUS
  <2> QED
    BY <2>1 DEF Sums
<1>4. ASSUME NEW U \in SUBSET T, NEW y \in U PROVE W[U] = w[y] + W[U \ {y}]
  <2>1. U \ {y} \in SUBSET T /\ w[y] \in Int /\ w[x] \in Int
    OBVIOUS
  <2>2. CASE y = x
    <3>1. (U \ {y}) \ {x} = U \ {x} /\ x \notin U \ {y} /\ x \in U
      BY <2>2
    <3>2. W[U] = V[U \ {x}] + w[x]
      BY <3>1
    <3>3. W[U \ {y}] = V[U \ {x}] + 0
      BY <2>1, <3>1
    <3>4. V[U \ {x}] \in Int
      BY <1>1
    <3> HIDE DEF W
    <3> QED
      BY <2>1, <2>2, <3>2, <3>3, <3>4
  <2>3. CASE y # x
    <3>1. y \in U \ {x} /\ (U \ {y}) \ {x} = (U \ {x}) \ {y} /\ (x \in U <=> x \in U \ {y})
      BY <2>3
    <3>2. V[U \ {x}] = w[y] + V[(U \ {x}) \ {y}]
      BY <1>1, <3>1 DEF Sums
    <3>3. W[U \ {y}] = V[(U \ {x}) \ {y}] + (IF x \in U THEN w[x] ELSE 0)
      BY <2>1, <3>1
    <3>4. V[(U \ {x}) \ {y}] \in Int
      BY <1>1, <2>1, <3>1
    <3>5. W[U] = V[U \ {x}] + (IF x \in U THEN w[x] ELSE 0)
      OBVIOUS
    <3> QED
      BY <1>1, <2>1, <3>2, <3>3, <3>4, <3>5
  <2> QED
    BY <2>2, <2>3
<1> QED
  <2> HIDE DEF W
  <2> QED
    BY <1>2, <1>3, <1>4 DEF Sums

LEMMA SumsExist ==
    ASSUME NEW S, IsFiniteSet(S), NEW w \in [S -> Int]
    PROVE  \E W : Sums(S, w, W)
<1> DEFINE v(T) == [x \in T |-> w[x]]
           Q == {T \in SUBSET S : ~ \E W : Sums(T, v(T), W)}
<1>1. ASSUME Q # {} PROVE FALSE
  <2>1. PICK T \in Q : \A x \in T : T \ {x} \notin Q
    <3> HIDE DEF Q
    <3>1. Q \in SUBSET SUBSET S
      BY DEF Q
    <3> QED
      BY <1>1, <3>1, SmallestSet
  <2>2. CASE T = {}
    <3> DEFINE W == [U \in SUBSET T |-> 0]
    <3>1. Sums(T, v(T), W)
      BY <2>2 DEF Sums
    <3> QED
      BY <3>1
  <2>3. ASSUME NEW x \in T PROVE FALSE
    <3>1. PICK V : Sums(T \ {x}, v(T \ {x}), V)
      BY <2>1, <2>3
    <3>2. Sums(T \ {x}, v(T), V)
      <4>1. \A U \in SUBSET (T \ {x}) : \A y \in U : v(T)[y] = v(T \ {x})[y]
        OBVIOUS
      <4> QED
        BY <3>1, <4>1 DEF Sums
    <3>3. v(T) \in [T -> Int]
      OBVIOUS
    <3> HIDE DEF v
    <3>4. \E W : Sums(T, v(T), W)
      BY <2>3, <3>2, <3>3, SumsGrow
    <3> QED
      BY <3>4
  <2> QED
    BY <2>2, <2>3
<1>2. v(S) = w
  OBVIOUS
<1> QED
  BY <1>1, <1>2

First(T) == CHOOSE x \in T : TRUE

\* Taking one thing after another, in any order, comes to that sum.
LEMMA FoldIsSum ==
    ASSUME NEW S, IsFiniteSet(S), NEW w \in [S -> Int], NEW W, Sums(S, w, W), NEW G, G[{}] = 0,
           \A T \in SUBSET S : T # {} => G[T] = w[First(T)] + G[T \ {First(T)}]
    PROVE  G[S] = W[S]
<1> DEFINE Q == {T \in SUBSET S : G[T] # W[T]}
<1>1. ASSUME Q # {} PROVE FALSE
  <2>1. PICK T \in Q : \A x \in T : T \ {x} \notin Q
    <3> HIDE DEF Q
    <3>1. Q \in SUBSET SUBSET S
      BY DEF Q
    <3> QED
      BY <1>1, <3>1, SmallestSet
  <2>2. CASE T = {}
    BY <2>2 DEF Sums
  <2>3. CASE T # {}
    <3> DEFINE x == First(T)
    <3>1. x \in T
      BY <2>3 DEF First
    <3>2. G[T] = w[x] + G[T \ {x}]
      BY <2>3
    <3> HIDE DEF x
    <3>3. G[T \ {x}] = W[T \ {x}]
      BY <2>1, <3>1
    <3> QED
      BY <3>1, <3>2, <3>3 DEF Sums
  <2> QED
    BY <2>2, <2>3
<1> QED
  BY <1>1

\* Payments as the invariant has them.
Payments(S) == IsFiniteSet(S) /\ \A p \in S : p.paise \in Int

LEMMA PaiseIsSum ==
    ASSUME NEW S, Payments(S), NEW W, Sums(S, [p \in S |-> p.paise], W)
    PROVE  Paise(S) = W[S]
<1> DEFINE w == [p \in S |-> p.paise]
           G == CHOOSE G : G = [T \in SUBSET S |->
                    IF T = {} THEN 0 ELSE First(T).paise + G[T \ {First(T)}]]
<1>1. W = [T \in SUBSET S |->
             IF T = {} THEN 0 ELSE First(T).paise + W[T \ {First(T)}]]
  <2>1. ASSUME NEW T \in SUBSET S, T # {}
        PROVE  W[T] = First(T).paise + W[T \ {First(T)}]
    <3>1. First(T) \in T
      BY <2>1 DEF First
    <3> QED
      BY <3>1 DEF Sums
  <2>2. W = [T \in SUBSET S |-> W[T]] /\ W[{}] = 0
    BY DEF Sums
  <2> QED
    BY <2>1, <2>2
<1>2. G = [T \in SUBSET S |->
             IF T = {} THEN 0 ELSE First(T).paise + G[T \ {First(T)}]]
  BY <1>1
<1>3. G[{}] = 0 /\ \A T \in SUBSET S : T # {} =>
             G[T] = w[First(T)] + G[T \ {First(T)}]
  <2> HIDE DEF G
  <2>1. \A T \in SUBSET S : T # {} => w[First(T)] = First(T).paise
    BY DEF First
  <2> QED
    BY <1>2, <2>1
<1>4. w \in [S -> Int]
  BY DEF Payments
<1>5. G[S] = W[S]
  <2> HIDE DEF G
  <2>1. Sums(S, w, W) /\ IsFiniteSet(S)
    BY DEF Payments
  <2> HIDE DEF w
  <2> QED
    BY <1>3, <1>4, <2>1, FoldIsSum
<1>6. Paise(S) = G[S]
  BY DEF Paise, MapThenSumSet, MapThenFoldSet, First
<1> QED
  BY <1>5, <1>6

LEMMA PaiseIsInt ==
    ASSUME NEW S, Payments(S)
    PROVE  Paise(S) \in Int
<1> DEFINE w == [p \in S |-> p.paise]
<1>1. w \in [S -> Int] /\ IsFiniteSet(S)
  BY DEF Payments
<1>2. PICK W : Sums(S, w, W)
  <2> HIDE DEF w
  <2> QED
    BY <1>1, SumsExist
<1>3. Paise(S) = W[S]
  BY <1>2, PaiseIsSum
<1> QED
  BY <1>2, <1>3 DEF Sums

LEMMA PaiseAdds ==
    ASSUME NEW S, Payments(S), NEW x, x \notin S, x.paise \in Int
    PROVE  Paise(S \cup {x}) = x.paise + Paise(S)
<1> DEFINE U == S \cup {x}
           w == [p \in U |-> p.paise]
           v == [p \in S |-> p.paise]
<1>1. Payments(U)
  BY FS_AddElement DEF Payments
<1>2. w \in [U -> Int] /\ IsFiniteSet(U)
  BY <1>1 DEF Payments
<1>3. PICK W : Sums(U, w, W)
  <2> HIDE DEF w, U
  <2> QED
    BY <1>2, SumsExist
<1> DEFINE V == [T \in SUBSET S |-> W[T]]
<1>4. Sums(S, v, V)
  <2>1. \A T \in SUBSET S : W[T] \in Int /\ \A p \in T : W[T] = v[p] + W[T \ {p}]
    <3>1. \A T \in SUBSET S : T \in SUBSET U /\ \A p \in T : v[p] = w[p]
      OBVIOUS
    <3> HIDE DEF v, w, U
    <3> QED
      BY <1>3, <3>1 DEF Sums
  <2>2. W[{}] = 0
    BY <1>3 DEF Sums
  <2> HIDE DEF v
  <2> QED
    BY <2>1, <2>2 DEF Sums
<1>5. Paise(U) = W[U]
  <2> HIDE DEF U
  <2> QED
    BY <1>1, <1>3, PaiseIsSum
<1>6. Paise(S) = V[S]
  <2> HIDE DEF V
  <2> QED
    BY <1>4, PaiseIsSum
<1>7. W[U] = w[x] + W[U \ {x}]
  BY <1>3 DEF Sums
<1>8. U \ {x} = S /\ w[x] = x.paise
  OBVIOUS
<1> QED
  BY <1>5, <1>6, <1>7, <1>8

\* A payment that is added is in a part of them or is not.
LEMMA PaiseSubset ==
    ASSUME NEW S, Payments(S), NEW T \in SUBSET S
    PROVE  Payments(T)
  BY FS_Subset DEF Payments

-----------------------------------------------------------------------------
(* Dates *)

LEMMA DayGrows ==
    ASSUME NEW t \in Nat
    PROVE  Day(t) \in Nat /\ Day(t + 1) \in Nat /\ Day(t) <= Day(t + 1)
  BY ShiftsAssumption DEF Day

-----------------------------------------------------------------------------
(* The inductive invariant *)

ShiftsTypeOK ==
    /\ clock \in Nat
    /\ cashier \in [Drawers -> Cashiers \cup {Nobody}]
    /\ opened \in [Drawers -> Nat \cup {Never}]  /\ closed \in [Drawers -> Nat \cup {Never}]
    /\ expected \in [Drawers -> Int \cup {Never}]
    /\ float \in [Drawers -> Int]  /\ moved \in [Drawers -> Int]  /\ drawer \in [Drawers -> Int]
    /\ before \in [Drawers -> Nat]
    /\ tab \in [Bills -> {"none", "open", "billed", "settled", "cancelled", "void"}]
    /\ openedOn \in [Bills -> Nat \cup {Never}]  /\ issuedOn \in [Bills -> Nat \cup {Never}]
    /\ endedOn \in [Bills -> Nat \cup {Never}]
    /\ Payments(cash)
    /\ \A p \in cash : p.at \in 0 .. clock /\ p.nr \in 0 .. (Cardinality(cash) - 1)
    /\ DOMAIN saved = 0 .. Day(MaxClock)

\* Shifts are numbered as they are opened, and a person has one open at most.
ShiftsInOrder ==
    /\ \E k \in 0 .. MaxShifts : \A s \in Drawers : opened[s] # Never <=> s <= k
    /\ \A s \in Drawers : opened[s] = Never => closed[s] = Never /\ moved[s] = 0
    /\ \A s \in Drawers : opened[s] # Never => opened[s] <= clock /\ before[s] <= Cardinality(cash)
    /\ \A r, s \in Drawers : Open(r) /\ Open(s) /\ cashier[r] = cashier[s] => r = s

\* An order is opened before it is billed, and both have happened.
BillDates ==
    \A b \in Bills :
        /\ tab[b] \in {"none", "open"} => issuedOn[b] = Never
        /\ tab[b] \in {"open", "billed"} => openedOn[b] \in Nat /\ openedOn[b] <= Day(clock)
        /\ tab[b] = "billed" => issuedOn[b] \in Nat /\ openedOn[b] <= issuedOn[b]

\* What a drawer was counted before in the millisecond in which it was opened.
Early(s, until) == {p \in CashOf(s, until) : p.at = opened[s] /\ p.nr < before[s]}

OpenAddsUp ==
    \A s \in Drawers : Open(s) => Expected(s, clock) - drawer[s] = Paise(Early(s, clock))

\* Nothing of a date that was closed after it ended is left to change.
DayIsOver(d) ==
    /\ d < Day(clock)
    /\ MayCloseDay(d)
    /\ saved[d].report = Report(d)

DaysAreOver ==
    \A d \in DOMAIN saved : saved[d] # Never =>
        /\ saved[d].on \in Nat  /\ saved[d].on <= Day(clock)
        /\ saved[d].on > d => DayIsOver(d)

DrawersInv == ShiftsTypeOK /\ ShiftsInOrder /\ OpenAddsUp /\ DrawerAddsUp

DaysInv == ShiftsTypeOK /\ ShiftsInOrder /\ BillDates /\ DaysAreOver

-----------------------------------------------------------------------------
(* Steps *)

USE DEF Drawers

\* The parts of a step of the shifts: one for each thing that can happen to them.
LEMMA Steps ==
    ASSUME ShiftsNext
    PROVE  \/ TimePasses
           \/ \E s \in Drawers : CloseShift(s)
           \/ \E s \in Drawers, c \in Cashiers, f \in Amounts \cap Nat : OpenShift(s, c, f)
           \/ \E s \in Drawers, paise \in Amounts : CashMovement(s, paise)
           \/ \E b \in Bills : OpenTab(b) \/ IssueBill(b) \/ CancelTab(b) \/ VoidUnpaid(b)
           \/ \E b \in Bills, c \in Cashiers, mode \in {"cash", "upi"} : SettleBill(b, c, mode)
           \/ \E b \in Bills, c \in Cashiers, paise \in Parts : RefundBill(b, c, paise)
           \/ \E d \in DOMAIN saved : CloseDay(d)
  BY DEF ShiftsNext

\* The shift a person has open is open; who has none open has none.
LEMMA ShiftOfIsOpen ==
    ASSUME NEW c
    PROVE  /\ ShiftOf(c) # Nobody => ShiftOf(c) \in Drawers /\ Open(ShiftOf(c)) /\ cashier[ShiftOf(c)] = c
           /\ ShiftOf(c) = Nobody => \A s \in Drawers : ~ (Open(s) /\ cashier[s] = c)
<1>1. CASE \E s \in Drawers : Open(s) /\ cashier[s] = c
  <2>1. ShiftOf(c) = CHOOSE s \in Drawers : Open(s) /\ cashier[s] = c
    BY <1>1 DEF ShiftOf
  <2>2. ShiftOf(c) \in Drawers /\ Open(ShiftOf(c)) /\ cashier[ShiftOf(c)] = c
    BY <1>1, <2>1
  <2>3. Nobody \notin Drawers
    BY ShiftsAssumption
  <2> QED
    BY <2>2, <2>3
<1>2. CASE ~ \E s \in Drawers : Open(s) /\ cashier[s] = c
  BY <1>2 DEF ShiftOf
<1> QED
  BY <1>1, <1>2

LEMMA ShiftsInvInit == ShiftsInit => DrawersInv /\ DaysInv
<1> SUFFICES ASSUME ShiftsInit PROVE DrawersInv /\ DaysInv
  OBVIOUS
<1>1. IsFiniteSet({}) /\ Cardinality({}) = 0
  BY FS_EmptySet
<1>2. ShiftsTypeOK
  BY <1>1 DEF ShiftsInit, ShiftsTypeOK, Payments
<1>3. ShiftsInOrder
  <2>1. 0 \in 0 .. MaxShifts /\ \A s \in Drawers : opened[s] # Never <=> s <= 0
    BY ShiftsAssumption DEF ShiftsInit
  <2> QED
    BY <2>1 DEF ShiftsInit, ShiftsInOrder, Open
<1>4. OpenAddsUp /\ DrawerAddsUp
  BY DEF ShiftsInit, OpenAddsUp, DrawerAddsUp, Open
<1>5. BillDates
  BY DEF ShiftsInit, BillDates
<1>6. DaysAreOver
  BY DEF ShiftsInit, DaysAreOver
<1> QED
  BY <1>2, <1>3, <1>4, <1>5, <1>6 DEF DrawersInv, DaysInv

\* A payment that is taken is a new one, with the number of payments before it.
LEMMA PassAdds ==
    ASSUME ShiftsTypeOK, NEW b, NEW c, NEW mode, NEW paise \in Int, Pass(b, c, mode, paise)
    PROVE  \E p : /\ cash' = cash \cup {p}  /\ p \notin cash
                  /\ p.mode = mode  /\ p.by = c  /\ p.at = clock  /\ p.paise = paise
                  /\ p.nr = Cardinality(cash)
                  /\ Payments(cash')  /\ Cardinality(cash) \in Nat
                  /\ Cardinality(cash') = Cardinality(cash) + 1
<1> DEFINE p == [bill |-> b, mode |-> mode, by |-> c, at |-> clock, paise |-> paise, nr |-> Cardinality(cash)]
<1>1. cash' = cash \cup {p}
  BY DEF Pass
<1>2. IsFiniteSet(cash) /\ Cardinality(cash) \in Nat
  BY FS_CardinalityType DEF ShiftsTypeOK, Payments
<1>3. p.nr = Cardinality(cash) /\ p.mode = mode /\ p.by = c /\ p.at = clock /\ p.paise = paise
  OBVIOUS
<1> HIDE DEF p
<1>4. p \notin cash
  BY <1>2, <1>3 DEF ShiftsTypeOK
<1>5. Payments(cash') /\ Cardinality(cash') = Cardinality(cash) + 1
  BY <1>1, <1>2, <1>3, <1>4, FS_AddElement DEF ShiftsTypeOK, Payments
<1> QED
  BY <1>1, <1>2, <1>3, <1>4, <1>5

LEMMA TypeStep == ShiftsTypeOK /\ [ShiftsNext]_dayVars => ShiftsTypeOK'
<1> SUFFICES ASSUME ShiftsTypeOK, [ShiftsNext]_dayVars PROVE ShiftsTypeOK'
  OBVIOUS
<1> USE ShiftsAssumption DEF ShiftsTypeOK
<1>1. CASE TimePasses
  BY <1>1 DEF TimePasses, shiftVars, tabVars, Payments
<1>2. ASSUME NEW s \in Drawers, CloseShift(s) PROVE ShiftsTypeOK'
  <2>1. Payments(CashOf(s, clock))
    BY PaiseSubset DEF CashOf
  <2>2. Expected(s, clock) \in Int
    BY <2>1, PaiseIsInt DEF Expected
  <2> QED
    BY <1>2, <2>2 DEF CloseShift, shiftVars, tabVars
<1>3. ASSUME NEW s \in Drawers, NEW c \in Cashiers, NEW f \in Amounts \cap Nat, OpenShift(s, c, f)
      PROVE  ShiftsTypeOK'
  <2>1. Cardinality(cash) \in Nat
    BY FS_CardinalityType DEF Payments
  <2> QED
    BY <1>3, <2>1 DEF OpenShift, tabVars
<1>4. ASSUME NEW s \in Drawers, NEW paise \in Amounts, CashMovement(s, paise) PROVE ShiftsTypeOK'
  <2>1. moved' \in [Drawers -> Int] /\ drawer' \in [Drawers -> Int]
    <3>1. paise \in Int
      OBVIOUS
    <3> QED
      BY <1>4, <3>1 DEF CashMovement
  <2> QED
    BY <1>4, <2>1 DEF CashMovement, tabVars
<1>5. ASSUME NEW b \in Bills, OpenTab(b) \/ IssueBill(b) \/ CancelTab(b) \/ VoidUnpaid(b) PROVE ShiftsTypeOK'
  <2>1. Day(clock) \in Nat
    BY DayGrows
  <2>2. UNCHANGED <<clock, shiftVars, cash, saved, drawer, before>>
    BY <1>5 DEF OpenTab, IssueBill, CancelTab, VoidUnpaid
  <2>3. tab' \in [Bills -> {"none", "open", "billed", "settled", "cancelled", "void"}]
    BY <1>5 DEF OpenTab, IssueBill, CancelTab, VoidUnpaid
  <2>4. openedOn' \in [Bills -> Nat \cup {Never}] /\ issuedOn' \in [Bills -> Nat \cup {Never}]
    BY <1>5, <2>1 DEF OpenTab, IssueBill, CancelTab, VoidUnpaid
  <2>5. endedOn' \in [Bills -> Nat \cup {Never}]
    BY <1>5, <2>1 DEF OpenTab, IssueBill, CancelTab, VoidUnpaid
  <2> QED
    BY <2>2, <2>3, <2>4, <2>5 DEF shiftVars
<1>6. ASSUME NEW b, NEW c, NEW mode, NEW paise \in Int, Pass(b, c, mode, paise),
             UNCHANGED <<clock, shiftVars, saved, before>>,
             tab' \in [Bills -> {"none", "open", "billed", "settled", "cancelled", "void"}],
             openedOn' \in [Bills -> Nat \cup {Never}], issuedOn' \in [Bills -> Nat \cup {Never}],
             endedOn' \in [Bills -> Nat \cup {Never}]
      PROVE  ShiftsTypeOK'
  <2>1. PICK p : /\ cash' = cash \cup {p} /\ p.at = clock /\ p.nr = Cardinality(cash)
                 /\ Payments(cash') /\ Cardinality(cash) \in Nat /\ Cardinality(cash') = Cardinality(cash) + 1
    BY <1>6, PassAdds
  <2>2. \A q \in cash' : q.at \in 0 .. clock /\ q.nr \in 0 .. (Cardinality(cash') - 1)
    BY <2>1
  <2>3. drawer' \in [Drawers -> Int]
    <3>1. CASE drawer' = drawer
      BY <3>1
    <3>2. CASE drawer' = [drawer EXCEPT ![ShiftOf(c)] = @ + paise]
      <4>1. \A s \in Drawers : drawer[s] \in Int /\ drawer[s] + paise \in Int
        OBVIOUS
      <4> QED
        BY <3>2, <4>1
    <3> QED
      BY <1>6, <3>1, <3>2 DEF Pass
  <2> QED
    BY <1>6, <2>1, <2>2, <2>3 DEF shiftVars
<1>7. ASSUME NEW b \in Bills, NEW c \in Cashiers, NEW mode \in {"cash", "upi"}, SettleBill(b, c, mode)
      PROVE  ShiftsTypeOK'
  <2>1. Total[b] \in Int /\ Day(clock) \in Nat
    <3>1. Total[b] \in Int
      OBVIOUS
    <3>2. Day(clock) \in Nat
      BY DayGrows
    <3> QED
      BY <3>1, <3>2
  <2>2. endedOn' \in [Bills -> Nat \cup {Never}]
    BY <1>7, <2>1 DEF SettleBill
  <2>3. tab' \in [Bills -> {"none", "open", "billed", "settled", "cancelled", "void"}]
    BY <1>7 DEF SettleBill
  <2> QED
    BY <1>6, <1>7, <2>1, <2>2, <2>3 DEF SettleBill
<1>8. ASSUME NEW b \in Bills, NEW c \in Cashiers, NEW paise \in Parts, RefundBill(b, c, paise)
      PROVE  ShiftsTypeOK'
  <2>1. PICK p \in PaidOn(b) : Pass(b, c, p.mode, -paise)
    BY <1>8 DEF RefundBill
  <2>2. -paise \in Int
    OBVIOUS
  <2> QED
    BY <1>6, <1>8, <2>1, <2>2 DEF RefundBill, tabVars
<1>9. ASSUME NEW d \in DOMAIN saved, CloseDay(d) PROVE ShiftsTypeOK'
  BY <1>9 DEF CloseDay, shiftVars, tabVars
<1>10. CASE UNCHANGED dayVars
  BY <1>10 DEF dayVars, shiftVars, tabVars
<1> QED
  BY <1>1, <1>2, <1>3, <1>4, <1>5, <1>7, <1>8, <1>9, <1>10, Steps

\* The shift that is opened next is the one after those that were.
LEMMA NextShift ==
    ASSUME ShiftsInOrder, NEW s \in Drawers, s = 1 + Cardinality({r \in Drawers : opened[r] # Never})
    PROVE  opened[s] = Never /\ \A r \in Drawers : opened[r] # Never <=> r <= s - 1
<1> USE ShiftsAssumption
<1>1. PICK k \in 0 .. MaxShifts : \A r \in Drawers : opened[r] # Never <=> r <= k
  BY DEF ShiftsInOrder
<1> DEFINE D == {r \in Drawers : opened[r] # Never}
<1>2. D = 1 .. k
  BY <1>1
<1>3. Cardinality(1 .. k) = k
  BY FS_Interval
<1>4. s = 1 + Cardinality(D)
  OBVIOUS
<1> HIDE DEF D
<1>5. s = k + 1
  BY <1>2, <1>3, <1>4
<1>6. ~ (s <= k)
  BY <1>5
<1>7. opened[s] = Never
  BY <1>1, <1>6
<1>8. k = s - 1
  BY <1>5
<1> QED
  BY <1>1, <1>7, <1>8

LEMMA OrderStep == ShiftsTypeOK /\ ShiftsInOrder /\ [ShiftsNext]_dayVars => ShiftsInOrder'
<1> SUFFICES ASSUME ShiftsTypeOK, ShiftsInOrder, [ShiftsNext]_dayVars PROVE ShiftsInOrder'
  OBVIOUS
<1> USE ShiftsAssumption
<1>1. Cardinality(cash) \in Nat
  BY FS_CardinalityType DEF ShiftsTypeOK, Payments
\* Steps that open, close and move nothing.
<1>2. ASSUME UNCHANGED <<cashier, opened, closed, moved, before>>, clock <= clock', clock' \in Nat,
             Cardinality(cash) <= Cardinality(cash'), Cardinality(cash') \in Nat
      PROVE  ShiftsInOrder'
  <2>1. \A s \in Drawers : opened'[s] # Never => opened'[s] <= clock' /\ before'[s] <= Cardinality(cash')
    BY <1>1, <1>2 DEF ShiftsTypeOK, ShiftsInOrder
  <2> QED
    BY <1>2, <2>1 DEF ShiftsInOrder, Open
<1>3. CASE TimePasses
  BY <1>1, <1>2, <1>3 DEF TimePasses, shiftVars, ShiftsTypeOK
<1>4. ASSUME NEW s \in Drawers, CloseShift(s) PROVE ShiftsInOrder'
  <2>1. \A r \in Drawers : Open(r)' => Open(r)
    BY <1>4 DEF CloseShift, Open, ShiftsTypeOK
  <2>2. opened[s] # Never
    BY <1>4 DEF CloseShift, Open
  <2> QED
    BY <1>4, <2>1, <2>2 DEF CloseShift, ShiftsInOrder, ShiftsTypeOK
<1>5. ASSUME NEW s \in Drawers, NEW c \in Cashiers, NEW f \in Amounts \cap Nat, OpenShift(s, c, f)
      PROVE  ShiftsInOrder'
  <2>1. opened[s] = Never /\ \A r \in Drawers : opened[r] # Never <=> r <= s - 1
    BY <1>5, NextShift DEF OpenShift
  <2>2. opened' = [opened EXCEPT ![s] = clock] /\ clock # Never
    BY <1>5 DEF OpenShift, ShiftsTypeOK
  <2>3. \A r \in Drawers : opened'[r] # Never <=> r <= s
    BY <2>1, <2>2 DEF ShiftsTypeOK
  <2>4. s \in 0 .. MaxShifts
    OBVIOUS
  <2>5. \A r \in Drawers : opened'[r] = Never => closed'[r] = Never /\ moved'[r] = 0
    BY <1>5, <2>2 DEF OpenShift, ShiftsInOrder, ShiftsTypeOK
  <2>6. \A r \in Drawers : opened'[r] # Never => opened'[r] <= clock' /\ before'[r] <= Cardinality(cash')
    BY <1>1, <1>5, <2>2 DEF OpenShift, ShiftsInOrder, ShiftsTypeOK
  <2>7. \A r \in Drawers : ~ (Open(r) /\ cashier[r] = c)
    BY <1>5, ShiftOfIsOpen DEF OpenShift
  <2>8. \A r \in Drawers : Open(r)' => r = s \/ (Open(r) /\ cashier'[r] = cashier[r])
    BY <1>5 DEF OpenShift, Open, ShiftsTypeOK
  <2>9. cashier'[s] = c
    BY <1>5 DEF OpenShift, ShiftsTypeOK
  <2>10. \A q, r \in Drawers : Open(q)' /\ Open(r)' /\ cashier'[q] = cashier'[r] => q = r
    BY <2>7, <2>8, <2>9 DEF ShiftsInOrder
  <2> QED
    BY <2>3, <2>4, <2>5, <2>6, <2>10 DEF ShiftsInOrder
<1>6. ASSUME NEW s \in Drawers, NEW paise \in Amounts, CashMovement(s, paise) PROVE ShiftsInOrder'
  <2>1. opened[s] # Never
    BY <1>6 DEF CashMovement, Open
  <2> QED
    BY <1>6, <2>1 DEF CashMovement, ShiftsInOrder, Open, ShiftsTypeOK
<1>7. ASSUME NEW b \in Bills, OpenTab(b) \/ IssueBill(b) \/ CancelTab(b) \/ VoidUnpaid(b) PROVE ShiftsInOrder'
  BY <1>1, <1>2, <1>7 DEF OpenTab, IssueBill, CancelTab, VoidUnpaid, shiftVars, ShiftsTypeOK
<1>8. ASSUME NEW b, NEW c, NEW mode, NEW paise \in Int, Pass(b, c, mode, paise),
             UNCHANGED <<clock, shiftVars, before>>
      PROVE  ShiftsInOrder'
  <2>1. Cardinality(cash') = Cardinality(cash) + 1
    BY <1>8, PassAdds
  <2> QED
    BY <1>1, <1>2, <1>8, <2>1 DEF shiftVars, ShiftsTypeOK
<1>9. ASSUME NEW b \in Bills, NEW c \in Cashiers, NEW mode \in {"cash", "upi"}, SettleBill(b, c, mode)
      PROVE  ShiftsInOrder'
  <2>1. Total[b] \in Int
    OBVIOUS
  <2> QED
    BY <1>8, <1>9, <2>1 DEF SettleBill
<1>10. ASSUME NEW b \in Bills, NEW c \in Cashiers, NEW paise \in Parts, RefundBill(b, c, paise)
       PROVE  ShiftsInOrder'
  <2>1. PICK p \in PaidOn(b) : Pass(b, c, p.mode, -paise)
    BY <1>10 DEF RefundBill
  <2>2. -paise \in Int
    OBVIOUS
  <2> QED
    BY <1>8, <1>10, <2>1, <2>2 DEF RefundBill
<1>11. ASSUME NEW d \in DOMAIN saved, CloseDay(d) PROVE ShiftsInOrder'
  BY <1>1, <1>2, <1>11 DEF CloseDay, shiftVars, ShiftsTypeOK
<1>12. CASE UNCHANGED dayVars
  BY <1>1, <1>2, <1>12 DEF dayVars, shiftVars, ShiftsTypeOK
<1> QED
  BY <1>3, <1>4, <1>5, <1>6, <1>7, <1>9, <1>10, <1>11, <1>12, Steps

-----------------------------------------------------------------------------
(* Drawers *)

\* Sums of a shift are numbers.
LEMMA SumsAreInts ==
    ASSUME ShiftsTypeOK, NEW s \in Drawers, NEW t
    PROVE  /\ Payments(CashOf(s, t)) /\ Paise(CashOf(s, t)) \in Int
           /\ Payments(Early(s, t)) /\ Paise(Early(s, t)) \in Int
<1>1. CashOf(s, t) \in SUBSET cash /\ Early(s, t) \in SUBSET cash
  BY DEF CashOf, Early
<1>2. Payments(CashOf(s, t)) /\ Payments(Early(s, t))
  BY <1>1, PaiseSubset DEF ShiftsTypeOK
<1> QED
  BY <1>2, PaiseIsInt

\* Steps that touch no drawer.
LEMMA DrawersAlone ==
    ASSUME ShiftsTypeOK, ShiftsInOrder, OpenAddsUp, DrawerAddsUp,
           UNCHANGED <<shiftVars, cash, drawer, before>>, clock' \in Nat, clock <= clock'
    PROVE  OpenAddsUp' /\ DrawerAddsUp'
<1> USE DEF shiftVars
<1>1. DrawerAddsUp'
  <2>1. \A s \in Drawers : closed'[s] # Never => expected'[s] - drawer'[s] = Paise(Early(s, closed[s]))
    BY DEF DrawerAddsUp, Early
  <2>2. \A s \in Drawers : Early(s, closed[s]) = {p \in CashOf(s, closed[s])' : p.at = opened'[s] /\ p.nr < before'[s]}
    BY DEF Early, CashOf
  <2> QED
    BY <2>1, <2>2 DEF DrawerAddsUp
<1>2. OpenAddsUp'
  <2>1. ASSUME NEW s \in Drawers, Open(s)' PROVE (Expected(s, clock) - drawer[s] = Paise(Early(s, clock)))'
    <3>1. Open(s)
      BY <2>1 DEF Open
    <3>2. \A p \in cash : p.at <= clock <=> p.at <= clock'
      BY DEF ShiftsTypeOK
    <3>3. CashOf(s, clock)' = CashOf(s, clock)
      BY <3>2 DEF CashOf
    <3>4. Early(s, clock)' = Early(s, clock)
      BY <3>3 DEF Early
    <3>5. Expected(s, clock)' = Expected(s, clock)
      BY <3>3 DEF Expected
    <3> QED
      BY <3>1, <3>4, <3>5 DEF OpenAddsUp
  <2> QED
    BY <2>1 DEF OpenAddsUp
<1> QED
  BY <1>1, <1>2

LEMMA OpenShiftAddsUp ==
    ASSUME ShiftsTypeOK, ShiftsInOrder, OpenAddsUp, DrawerAddsUp,
           NEW s \in Drawers, NEW c \in Cashiers, NEW f \in Amounts \cap Nat, OpenShift(s, c, f)
    PROVE  OpenAddsUp' /\ DrawerAddsUp'
<1>1. opened[s] = Never /\ closed[s] = Never /\ moved[s] = 0
  BY NextShift DEF OpenShift, ShiftsInOrder
<1>2. /\ opened' = [opened EXCEPT ![s] = clock]  /\ cashier' = [cashier EXCEPT ![s] = c]
      /\ float' = [float EXCEPT ![s] = f]  /\ drawer' = [drawer EXCEPT ![s] = f]
      /\ before' = [before EXCEPT ![s] = Cardinality(cash)]
      /\ UNCHANGED <<clock, closed, expected, moved, cash>>
  BY DEF OpenShift
<1>3. \A r \in Drawers : r # s =>
          /\ opened'[r] = opened[r] /\ cashier'[r] = cashier[r] /\ float'[r] = float[r]
          /\ drawer'[r] = drawer[r] /\ before'[r] = before[r]
  BY <1>2 DEF ShiftsTypeOK
<1>4. ASSUME NEW r \in Drawers, closed'[r] # Never
      PROVE  expected'[r] - drawer'[r] = Paise({p \in CashOf(r, closed[r])' : p.at = opened'[r] /\ p.nr < before'[r]})
  <2>1. r # s
    BY <1>1, <1>2, <1>4
  <2>2. CashOf(r, closed[r])' = CashOf(r, closed[r])
    BY <1>2, <1>3, <2>1 DEF CashOf
  <2>3. {p \in CashOf(r, closed[r]) : p.at = opened[r] /\ p.nr < before[r]}
            = {p \in CashOf(r, closed[r])' : p.at = opened'[r] /\ p.nr < before'[r]}
    BY <1>3, <2>1, <2>2
  <2> QED
    BY <1>2, <1>3, <1>4, <2>1, <2>3 DEF DrawerAddsUp
<1>5. ASSUME NEW r \in Drawers, Open(r)' PROVE (Expected(r, clock) - drawer[r] = Paise(Early(r, clock)))'
  <2>1. CASE r = s
    <3>1. opened'[r] = clock /\ before'[r] = Cardinality(cash) /\ float'[r] = f /\ drawer'[r] = f /\ moved'[r] = 0
      BY <1>1, <1>2, <2>1 DEF ShiftsTypeOK
    <3>2. \A p \in cash : p.at <= clock /\ p.at \in Nat /\ p.nr < Cardinality(cash)
      <4>1. Cardinality(cash) \in Nat
        BY FS_CardinalityType DEF ShiftsTypeOK, Payments
      <4> QED
        BY <4>1 DEF ShiftsTypeOK
    <3>3. CashOf(r, clock)' \in SUBSET cash /\ \A p \in CashOf(r, clock)' : p.at = clock
      BY <1>2, <3>1, <3>2 DEF CashOf, ShiftsTypeOK
    <3>4. Early(r, clock)' = CashOf(r, clock)'
      BY <3>1, <3>2, <3>3 DEF Early
    <3>5. Paise(CashOf(r, clock)') \in Int
      BY <3>3, PaiseSubset, PaiseIsInt DEF ShiftsTypeOK
    <3>6. Expected(r, clock)' = f + Paise(CashOf(r, clock)') + 0
      BY <3>1 DEF Expected
    <3>7. (Expected(r, clock) - drawer[r])' = Paise(CashOf(r, clock)')
      BY <3>1, <3>5, <3>6
    <3>8. Paise(Early(r, clock))' = Paise(CashOf(r, clock)')
      BY <3>4
    <3> QED
      BY <3>7, <3>8
  <2>2. CASE r # s
    <3>1. Open(r)
      BY <1>2, <1>3, <1>5, <2>2 DEF Open
    <3>2. CashOf(r, clock)' = CashOf(r, clock)
      BY <1>2, <1>3, <2>2 DEF CashOf
    <3>3. Early(r, clock)' = Early(r, clock)
      BY <1>2, <1>3, <2>2, <3>2 DEF Early
    <3>4. Expected(r, clock)' = Expected(r, clock)
      BY <1>2, <1>3, <2>2, <3>2 DEF Expected
    <3> QED
      BY <1>3, <2>2, <3>1, <3>3, <3>4 DEF OpenAddsUp
  <2> QED
    BY <2>1, <2>2
<1> QED
  BY <1>4, <1>5 DEF OpenAddsUp, DrawerAddsUp

LEMMA CashMovementAddsUp ==
    ASSUME ShiftsTypeOK, ShiftsInOrder, OpenAddsUp, DrawerAddsUp,
           NEW s \in Drawers, NEW paise \in Int, CashMovement(s, paise)
    PROVE  OpenAddsUp' /\ DrawerAddsUp'
<1>1. /\ moved' = [moved EXCEPT ![s] = @ + paise]  /\ drawer' = [drawer EXCEPT ![s] = @ + paise]
      /\ UNCHANGED <<clock, cashier, opened, float, closed, expected, cash, before>>  /\ closed[s] = Never
  BY DEF CashMovement, Open
<1>2. /\ moved'[s] = moved[s] + paise /\ drawer'[s] = drawer[s] + paise
      /\ \A r \in Drawers : r # s => moved'[r] = moved[r] /\ drawer'[r] = drawer[r]
  BY <1>1 DEF ShiftsTypeOK
<1>3. \A r, t : CashOf(r, t)' = {p \in cash : p.mode = "cash" /\ p.by = cashier[r] /\ opened[r] <= p.at /\ p.at <= t'}
  BY <1>1 DEF CashOf
<1>4. ASSUME NEW r \in Drawers, closed'[r] # Never
      PROVE  expected'[r] - drawer'[r] = Paise({p \in CashOf(r, closed[r])' : p.at = opened'[r] /\ p.nr < before'[r]})
  <2>1. r # s
    BY <1>1, <1>4
  <2>2. CashOf(r, closed[r])' = CashOf(r, closed[r])
    BY <1>1 DEF CashOf
  <2> QED
    BY <1>1, <1>2, <1>4, <2>1, <2>2 DEF DrawerAddsUp
<1>5. ASSUME NEW r \in Drawers, Open(r)' PROVE (Expected(r, clock) - drawer[r] = Paise(Early(r, clock)))'
  <2>1. Open(r)
    BY <1>1, <1>5 DEF Open
  <2>2. CashOf(r, clock)' = CashOf(r, clock)
    BY <1>1 DEF CashOf
  <2>3. Early(r, clock)' = Early(r, clock)
    BY <1>1, <2>2 DEF Early
  <2>4. Expected(r, clock)' - drawer'[r] = Expected(r, clock) - drawer[r]
    <3>1. Expected(r, clock)' = float[r] + Paise(CashOf(r, clock)) + moved'[r]
      BY <1>1, <2>2 DEF Expected
    <3>2. Expected(r, clock) = float[r] + Paise(CashOf(r, clock)) + moved[r]
      BY DEF Expected
    <3>3. /\ float[r] \in Int /\ moved[r] \in Int /\ drawer[r] \in Int
          /\ Paise(CashOf(r, clock)) \in Int
      BY SumsAreInts DEF ShiftsTypeOK
    <3>4. CASE r = s
      <4>1. moved'[r] = moved[r] + paise /\ drawer'[r] = drawer[r] + paise
        BY <1>2, <3>4
      <4> QED
        BY <3>1, <3>2, <3>3, <4>1
    <3>5. CASE r # s
      BY <1>2, <3>1, <3>2, <3>5
    <3> QED
      BY <3>4, <3>5
  <2> QED
    BY <2>1, <2>3, <2>4 DEF OpenAddsUp
<1> QED
  BY <1>4, <1>5 DEF OpenAddsUp, DrawerAddsUp

LEMMA CloseShiftAddsUp ==
    ASSUME ShiftsTypeOK, ShiftsInOrder, OpenAddsUp, DrawerAddsUp, NEW s \in Drawers, CloseShift(s)
    PROVE  OpenAddsUp' /\ DrawerAddsUp'
<1>1. /\ closed' = [closed EXCEPT ![s] = clock]  /\ expected' = [expected EXCEPT ![s] = Expected(s, clock)]
      /\ UNCHANGED <<clock, cashier, opened, float, moved, cash, drawer, before>>  /\ Open(s)
  BY DEF CloseShift
<1>2. /\ closed'[s] = clock /\ clock # Never /\ expected'[s] = Expected(s, clock)
      /\ \A r \in Drawers : r # s => closed'[r] = closed[r] /\ expected'[r] = expected[r]
  BY <1>1, ShiftsAssumption DEF ShiftsTypeOK
<1>3. ASSUME NEW r \in Drawers, NEW t
      PROVE  Early(r, t) = {p \in CashOf(r, t) : p.at = opened'[r] /\ p.nr < before'[r]}
  BY <1>1 DEF Early
<1>4. ASSUME NEW r \in Drawers, closed'[r] # Never
      PROVE  expected'[r] - drawer'[r] = Paise({p \in CashOf(r, closed[r])' : p.at = opened'[r] /\ p.nr < before'[r]})
  <2>1. CASE r = s
    <3>1. CashOf(r, closed[r])' = CashOf(s, clock)
      BY <1>1, <1>2, <2>1 DEF CashOf
    <3>2. Expected(s, clock) - drawer[s] = Paise(Early(s, clock))
      BY <1>1 DEF OpenAddsUp
    <3> QED
      BY <1>1, <1>2, <1>3, <2>1, <3>1, <3>2
  <2>2. CASE r # s
    <3>1. CashOf(r, closed[r])' = CashOf(r, closed[r])
      BY <1>1, <1>2, <2>2 DEF CashOf
    <3> QED
      BY <1>1, <1>2, <1>4, <2>2, <3>1 DEF DrawerAddsUp
  <2> QED
    BY <2>1, <2>2
<1>5. ASSUME NEW r \in Drawers, Open(r)' PROVE (Expected(r, clock) - drawer[r] = Paise(Early(r, clock)))'
  <2>1. r # s
    BY <1>2, <1>5 DEF Open
  <2>2. Open(r)
    BY <1>1, <1>2, <1>5, <2>1 DEF Open
  <2> QED
    BY <1>1, <2>2 DEF OpenAddsUp, Expected, Early, CashOf
<1> QED
  BY <1>4, <1>5 DEF OpenAddsUp, DrawerAddsUp

\* A payment or refund goes to the drawer and to the sum of the one shift its cashier has open.
LEMMA PassAddsUp ==
    ASSUME ShiftsTypeOK, ShiftsInOrder, OpenAddsUp, DrawerAddsUp,
           NEW b, NEW c, NEW mode, NEW paise \in Int, Pass(b, c, mode, paise),
           UNCHANGED <<clock, shiftVars, before>>
    PROVE  OpenAddsUp' /\ DrawerAddsUp'
<1> USE DEF shiftVars
<1>1. PICK p : /\ cash' = cash \cup {p}  /\ p \notin cash
               /\ p.mode = mode  /\ p.by = c  /\ p.at = clock  /\ p.paise = paise  /\ p.nr = Cardinality(cash)
               /\ Cardinality(cash) \in Nat
  BY PassAdds
<1>2. \A s \in Drawers : opened[s] # Never => ~ (p.nr < before[s])
  <2>1. \A s \in Drawers : before[s] \in Nat
    BY DEF ShiftsTypeOK
  <2>2. \A s \in Drawers : opened[s] # Never => before[s] <= Cardinality(cash)
    BY DEF ShiftsInOrder
  <2> QED
    BY <1>1, <2>1, <2>2
<1>3. \A s \in Drawers : closed[s] # Never => opened[s] # Never
  BY DEF ShiftsInOrder
<1>4. \A s, t : CashOf(s, t) \subseteq cash
  BY DEF CashOf
<1>5. \A s \in Drawers : \A t : opened[s] # Never =>
          {q \in {r \in cash' : r.mode = "cash" /\ r.by = cashier[s] /\ opened[s] <= r.at /\ r.at <= t} :
               q.at = opened[s] /\ q.nr < before[s]} = Early(s, t)
  BY <1>1, <1>2 DEF Early, CashOf
\* Of which shift's drawer the money is.
<1>6. ASSUME NEW s \in Drawers
      PROVE  drawer'[s] = IF mode = "cash" /\ Open(s) /\ cashier[s] = c THEN drawer[s] + paise ELSE drawer[s]
  <2> DEFINE o == ShiftOf(c)
  <2>1. drawer' = IF mode = "cash" /\ o # Nobody THEN [drawer EXCEPT ![o] = @ + paise] ELSE drawer
    BY DEF Pass
  <2>2. CASE Open(s) /\ cashier[s] = c
    <3>1. o # Nobody /\ o \in Drawers /\ Open(o) /\ cashier[o] = c
      BY <2>2, ShiftOfIsOpen
    <3>2. o = s
      BY <2>2, <3>1 DEF ShiftsInOrder
    <3> HIDE DEF o
    <3> QED
      BY <2>1, <2>2, <3>1, <3>2 DEF ShiftsTypeOK
  <2>3. CASE ~ (Open(s) /\ cashier[s] = c)
    <3>1. o # Nobody => o # s
      BY <2>3, ShiftOfIsOpen
    <3> HIDE DEF o
    <3> QED
      BY <2>1, <2>3, <3>1 DEF ShiftsTypeOK
  <2> QED
    BY <2>2, <2>3
<1>7. ASSUME NEW s \in Drawers, closed'[s] # Never
      PROVE  expected'[s] - drawer'[s] = Paise({q \in CashOf(s, closed[s])' : q.at = opened'[s] /\ q.nr < before'[s]})
  <2>1. closed[s] # Never /\ ~ Open(s)
    BY <1>7 DEF Open
  <2>2. drawer'[s] = drawer[s]
    BY <1>6, <2>1
  <2>3. {q \in CashOf(s, closed[s])' : q.at = opened'[s] /\ q.nr < before'[s]} = Early(s, closed[s])
    BY <1>3, <1>5, <2>1 DEF CashOf
  <2>4. Early(s, closed[s]) = {q \in CashOf(s, closed[s]) : q.at = opened[s] /\ q.nr < before[s]}
    BY DEF Early
  <2> QED
    BY <2>1, <2>2, <2>3, <2>4 DEF DrawerAddsUp
<1>8. ASSUME NEW s \in Drawers, Open(s)' PROVE (Expected(s, clock) - drawer[s] = Paise(Early(s, clock)))'
  <2>1. Open(s) /\ opened[s] # Never
    BY <1>8 DEF Open
  <2>2. Early(s, clock)' = Early(s, clock)
    BY <1>5, <2>1 DEF Early, CashOf
  <2>3. Expected(s, clock) - drawer[s] = Paise(Early(s, clock))
    BY <2>1 DEF OpenAddsUp
  <2>4. /\ float[s] \in Int /\ moved[s] \in Int /\ drawer[s] \in Int
        /\ Payments(CashOf(s, clock)) /\ Paise(CashOf(s, clock)) \in Int
    BY SumsAreInts DEF ShiftsTypeOK
  <2>5. /\ Expected(s, clock) = float[s] + Paise(CashOf(s, clock)) + moved[s]
        /\ Expected(s, clock)' = float[s] + Paise(CashOf(s, clock))' + moved[s]
    BY DEF Expected
  <2>6. CASE mode = "cash" /\ cashier[s] = c
    <3>1. opened[s] <= p.at /\ p.at <= clock
      BY <1>1, <2>1 DEF ShiftsInOrder, ShiftsTypeOK
    <3>2. CashOf(s, clock)' = CashOf(s, clock) \cup {p}
      BY <1>1, <2>6, <3>1 DEF CashOf
    <3>3. Paise(CashOf(s, clock) \cup {p}) = paise + Paise(CashOf(s, clock))
      BY <1>1, <1>4, <2>4, PaiseAdds
    <3>4. drawer'[s] = drawer[s] + paise
      BY <1>6, <2>1, <2>6
    <3>5. Expected(s, clock)' - drawer'[s] = Expected(s, clock) - drawer[s]
      BY <2>4, <2>5, <3>2, <3>3, <3>4
    <3> QED
      BY <2>2, <2>3, <3>5
  <2>7. CASE ~ (mode = "cash" /\ cashier[s] = c)
    <3>1. CashOf(s, clock)' = CashOf(s, clock)
      BY <1>1, <2>7 DEF CashOf
    <3>2. drawer'[s] = drawer[s]
      BY <1>6, <2>7
    <3> QED
      BY <2>2, <2>3, <2>5, <3>1, <3>2
  <2> QED
    BY <2>6, <2>7
<1> QED
  BY <1>7, <1>8 DEF OpenAddsUp, DrawerAddsUp

LEMMA DrawersStep == DrawersInv /\ [ShiftsNext]_dayVars => OpenAddsUp' /\ DrawerAddsUp'
<1> SUFFICES ASSUME DrawersInv, [ShiftsNext]_dayVars PROVE OpenAddsUp' /\ DrawerAddsUp'
  OBVIOUS
<1> USE DEF DrawersInv
<1>1. clock \in Nat /\ clock + 1 \in Nat /\ clock <= clock + 1 /\ clock <= clock
  BY DEF ShiftsTypeOK
<1>2. CASE TimePasses
  BY <1>1, <1>2, DrawersAlone DEF TimePasses
<1>3. ASSUME NEW s \in Drawers, CloseShift(s) PROVE OpenAddsUp' /\ DrawerAddsUp'
  BY <1>3, CloseShiftAddsUp
<1>4. ASSUME NEW s \in Drawers, NEW c \in Cashiers, NEW f \in Amounts \cap Nat, OpenShift(s, c, f)
      PROVE  OpenAddsUp' /\ DrawerAddsUp'
  BY <1>4, OpenShiftAddsUp
<1>5. ASSUME NEW s \in Drawers, NEW paise \in Amounts, CashMovement(s, paise) PROVE OpenAddsUp' /\ DrawerAddsUp'
  <2>1. paise \in Int
    BY ShiftsAssumption
  <2> QED
    BY <1>5, <2>1, CashMovementAddsUp
<1>6. ASSUME NEW b \in Bills, OpenTab(b) \/ IssueBill(b) \/ CancelTab(b) \/ VoidUnpaid(b)
      PROVE  OpenAddsUp' /\ DrawerAddsUp'
  <2>1. UNCHANGED <<clock, shiftVars, cash, drawer, before>>
    BY <1>6 DEF OpenTab, IssueBill, CancelTab, VoidUnpaid
  <2> QED
    BY <1>1, <2>1, DrawersAlone
<1>7. ASSUME NEW b \in Bills, NEW c \in Cashiers, NEW mode \in {"cash", "upi"}, SettleBill(b, c, mode)
      PROVE  OpenAddsUp' /\ DrawerAddsUp'
  <2>1. Total[b] \in Int
    BY ShiftsAssumption
  <2>2. Pass(b, c, mode, Total[b]) /\ UNCHANGED <<clock, shiftVars, before>>
    BY <1>7 DEF SettleBill
  <2> QED
    BY <2>1, <2>2, PassAddsUp
<1>8. ASSUME NEW b \in Bills, NEW c \in Cashiers, NEW paise \in Parts, RefundBill(b, c, paise)
      PROVE  OpenAddsUp' /\ DrawerAddsUp'
  <2>1. PICK p \in PaidOn(b) : Pass(b, c, p.mode, -paise)
    BY <1>8 DEF RefundBill
  <2>2. UNCHANGED <<clock, shiftVars, before>>
    BY <1>8 DEF RefundBill
  <2>3. -paise \in Int
    BY ShiftsAssumption
  <2> QED
    BY <2>1, <2>2, <2>3, PassAddsUp
<1>9. ASSUME NEW d \in DOMAIN saved, CloseDay(d) PROVE OpenAddsUp' /\ DrawerAddsUp'
  BY <1>1, <1>9, DrawersAlone DEF CloseDay
<1>10. CASE UNCHANGED dayVars
  BY <1>1, <1>10, DrawersAlone DEF dayVars
<1> QED
  BY <1>2, <1>3, <1>4, <1>5, <1>6, <1>7, <1>8, <1>9, <1>10, Steps

-----------------------------------------------------------------------------
(* Closed days *)

LEMMA BillDatesStep == ShiftsTypeOK /\ BillDates /\ [ShiftsNext]_dayVars => BillDates'
<1> SUFFICES ASSUME ShiftsTypeOK, BillDates, [ShiftsNext]_dayVars PROVE BillDates'
  OBVIOUS
<1>1. clock \in Nat /\ Day(clock) \in Nat /\ Day(clock + 1) \in Nat /\ Day(clock) <= Day(clock + 1)
  BY DayGrows DEF ShiftsTypeOK
<1>2. tab \in [Bills -> {"none", "open", "billed", "settled", "cancelled", "void"}]
      /\ openedOn \in [Bills -> Nat \cup {Never}] /\ issuedOn \in [Bills -> Nat \cup {Never}]
  BY DEF ShiftsTypeOK
<1>3. CASE TimePasses
  <2>1. Day(clock)' = Day(clock + 1) /\ UNCHANGED <<tab, openedOn, issuedOn>>
    BY <1>3 DEF TimePasses, tabVars, Day
  <2> QED
    BY <1>1, <2>1 DEF BillDates
<1>4. ASSUME NEW b \in Bills, OpenTab(b) PROVE BillDates'
  <2>1. Day(clock)' = Day(clock)
    BY <1>4 DEF OpenTab, Day
  <2> QED
    BY <1>1, <1>2, <1>4, <2>1 DEF OpenTab, BillDates
<1>5. ASSUME NEW b \in Bills, IssueBill(b) PROVE BillDates'
  <2>1. Day(clock)' = Day(clock)
    BY <1>5 DEF IssueBill, Day
  <2> QED
    BY <1>1, <1>2, <1>5, <2>1 DEF IssueBill, BillDates
<1>6. ASSUME NEW b \in Bills, tab[b] \in {"open", "billed"},
             NEW to \in {"settled", "cancelled", "void"}, tab' = [tab EXCEPT ![b] = to],
             UNCHANGED <<clock, openedOn, issuedOn>>
      PROVE  BillDates'
  <2>1. Day(clock)' = Day(clock)
    BY <1>6 DEF Day
  <2> QED
    BY <1>2, <1>6, <2>1 DEF BillDates
<1>7. ASSUME UNCHANGED <<clock, tab, openedOn, issuedOn>> PROVE BillDates'
  BY <1>7 DEF BillDates, Day
<1>8. ASSUME NEW b \in Bills, CancelTab(b) \/ VoidUnpaid(b) PROVE BillDates'
  BY <1>6, <1>8 DEF CancelTab, VoidUnpaid
<1>9. ASSUME NEW b \in Bills, NEW c \in Cashiers, NEW mode \in {"cash", "upi"}, SettleBill(b, c, mode)
      PROVE  BillDates'
  BY <1>6, <1>9 DEF SettleBill
<1>10. ASSUME NEW s \in Drawers, CloseShift(s) PROVE BillDates'
  BY <1>7, <1>10 DEF CloseShift, tabVars
<1>11. ASSUME NEW s \in Drawers, NEW c \in Cashiers, NEW f \in Amounts \cap Nat, OpenShift(s, c, f)
       PROVE  BillDates'
  BY <1>7, <1>11 DEF OpenShift, tabVars
<1>12. ASSUME NEW s \in Drawers, NEW paise \in Amounts, CashMovement(s, paise) PROVE BillDates'
  BY <1>7, <1>12 DEF CashMovement, tabVars
<1>13. ASSUME NEW b \in Bills, NEW c \in Cashiers, NEW paise \in Parts, RefundBill(b, c, paise)
       PROVE  BillDates'
  BY <1>7, <1>13 DEF RefundBill, tabVars
<1>14. ASSUME NEW d \in DOMAIN saved, CloseDay(d) PROVE BillDates'
  BY <1>7, <1>14 DEF CloseDay, tabVars
<1>15. CASE UNCHANGED dayVars
  BY <1>7, <1>15 DEF dayVars, tabVars
<1> QED
  BY <1>3, <1>4, <1>5, <1>8, <1>9, <1>10, <1>11, <1>12, <1>13, <1>14, <1>15, Steps

\* A close keeps what it needed of the date, and nothing else that happens later touches what the report sums:
\* it happens on a later date, to shifts and bills that were opened later.
LEMMA DayStaysOver ==
    ASSUME DaysInv, ShiftsNext, NEW d \in Int, DayIsOver(d), saved'[d] = saved[d]
    PROVE  DayIsOver(d)'
<1> USE ShiftsAssumption DEF DaysInv
<1>1. clock \in Nat /\ Day(clock) \in Nat /\ Day(clock + 1) \in Nat /\ Day(clock) <= Day(clock + 1) /\ d < Day(clock)
  BY DayGrows DEF ShiftsTypeOK, DayIsOver
<1>2. /\ \A s \in Drawers : Open(s) => Day(opened[s]) > d
      /\ \A b \in Bills : tab[b] \in {"open", "billed"} => openedOn[b] > d
      /\ saved[d].report = Report(d)
  BY DEF DayIsOver, MayCloseDay
<1>3. tab \in [Bills -> {"none", "open", "billed", "settled", "cancelled", "void"}]
      /\ openedOn \in [Bills -> Nat \cup {Never}] /\ issuedOn \in [Bills -> Nat \cup {Never}]
      /\ endedOn \in [Bills -> Nat \cup {Never}]
  BY DEF ShiftsTypeOK
<1>4. opened \in [Drawers -> Nat \cup {Never}] /\ closed \in [Drawers -> Nat \cup {Never}]
  BY DEF ShiftsTypeOK
<1>5. ASSUME UNCHANGED <<opened, closed, expected, tab, openedOn, issuedOn, endedOn, cash>>, d < Day(clock)'
      PROVE  DayIsOver(d)'
  <2>1. Report(d)' = Report(d)
    BY <1>5 DEF Report, Day
  <2>2. MayCloseDay(d)'
    BY <1>2, <1>5 DEF MayCloseDay, Open, Day
  <2> QED
    BY <1>2, <1>5, <2>1, <2>2 DEF DayIsOver
<1>6. CASE TimePasses
  <2>1. Day(clock)' = Day(clock + 1)
    BY <1>6 DEF TimePasses, Day
  <2> QED
    BY <1>1, <1>5, <1>6, <2>1 DEF TimePasses, shiftVars, tabVars
<1>7. ASSUME NEW s \in Drawers, NEW paise \in Amounts, CashMovement(s, paise) PROVE DayIsOver(d)'
  <2>1. d < Day(clock)'
    BY <1>1, <1>7 DEF CashMovement, Day
  <2> QED
    BY <1>5, <1>7, <2>1 DEF CashMovement, tabVars
<1>8. ASSUME NEW e \in DOMAIN saved, CloseDay(e) PROVE DayIsOver(d)'
  <2>1. d < Day(clock)'
    BY <1>1, <1>8 DEF CloseDay, Day
  <2> QED
    BY <1>5, <1>8, <2>1 DEF CloseDay, shiftVars, tabVars
\* Steps of shifts.
<1>9. ASSUME UNCHANGED <<clock, tab, openedOn, issuedOn, endedOn, cash>>,
             NEW s \in Drawers,
             \A r \in Drawers : r # s => opened'[r] = opened[r] /\ closed'[r] = closed[r] /\ expected'[r] = expected[r],
             ~ (opened[s] # Never /\ Day(opened[s]) = d), opened'[s] # Never, Day(opened'[s]) > d
      PROVE  DayIsOver(d)'
  <2>1. \A t : Day(t)' = t' \div DayLength
    BY DEF Day
  <2>2. {r \in Drawers : opened[r] # Never /\ Day(opened[r]) = d} = {r \in Drawers : opened'[r] # Never /\ Day(opened'[r]) = d}
    <3>1. ~ (Day(opened'[s]) = d)
      BY <1>9 DEF Day
    <3> QED
      BY <1>9, <3>1
  <2>3. s \notin {r \in Drawers : opened[r] # Never /\ Day(opened[r]) = d}
    BY <1>9
  <2>4. {<<r, expected[r]>> : r \in {q \in Drawers : opened[q] # Never /\ Day(opened[q]) = d}}
          = {<<r, expected'[r]>> : r \in {q \in Drawers : opened'[q] # Never /\ Day(opened'[q]) = d}}
    <3> DEFINE D == {q \in Drawers : opened[q] # Never /\ Day(opened[q]) = d}
    <3>1. \A r \in D : expected'[r] = expected[r]
      BY <1>9, <2>3
    <3>2. D = {q \in Drawers : opened'[q] # Never /\ Day(opened'[q]) = d}
      BY <2>2
    <3> HIDE DEF D
    <3>3. {<<r, expected[r]>> : r \in D} = {<<r, expected'[r]>> : r \in D}
      BY <3>1
    <3> QED
      BY <3>2, <3>3 DEF D
  <2>5. Report(d)' = Report(d)
    BY <1>9, <2>4 DEF Report, Day
  <2>6. \A r \in Drawers : Open(r)' => Day(opened'[r]) > d
    BY <1>2, <1>9 DEF Open
  <2>7. MayCloseDay(d)'
    BY <1>2, <1>9, <2>6 DEF MayCloseDay, Day
  <2>8. d < Day(clock)'
    BY <1>1, <1>9 DEF Day
  <2> QED
    BY <1>2, <2>5, <2>7, <2>8 DEF DayIsOver
<1>10. ASSUME NEW s \in Drawers, CloseShift(s) PROVE DayIsOver(d)'
  <2>1. opened[s] # Never /\ Day(opened[s]) > d
    BY <1>2, <1>10 DEF CloseShift, Open
  <2>2. UNCHANGED <<clock, tab, openedOn, issuedOn, endedOn, cash, opened>>
    BY <1>10 DEF CloseShift, tabVars
  <2>3. \A r \in Drawers : r # s => closed'[r] = closed[r] /\ expected'[r] = expected[r]
    BY <1>10 DEF CloseShift, ShiftsTypeOK
  <2>4. Day(opened[s]) \in Int
    <3>1. opened[s] \in Nat
      BY <1>4, <2>1
    <3> QED
      BY <3>1, DayGrows
  <2>5. Day(opened[s]) # d
    BY <2>1, <2>4
  <2> QED
    BY <1>9, <2>1, <2>2, <2>3, <2>5
<1>11. ASSUME NEW s \in Drawers, NEW c \in Cashiers, NEW f \in Amounts \cap Nat, OpenShift(s, c, f)
       PROVE  DayIsOver(d)'
  <2>1. opened[s] = Never
    BY <1>11, NextShift DEF OpenShift
  <2>2. opened' = [opened EXCEPT ![s] = clock] /\ UNCHANGED <<clock, tab, openedOn, issuedOn, endedOn, cash, closed, expected>>
    BY <1>11 DEF OpenShift, tabVars
  <2>3. opened'[s] = clock /\ clock # Never /\ \A r \in Drawers : r # s => opened'[r] = opened[r]
    BY <1>1, <1>4, <2>2
  <2>4. Day(opened'[s]) > d
    BY <1>1, <2>3
  <2> QED
    BY <1>9, <2>1, <2>2, <2>3, <2>4
\* Steps of bills and payments.
<1>12. ASSUME UNCHANGED <<clock, opened, closed, expected>>,
              \A b \in Bills :
                  /\ issuedOn'[b] = d <=> issuedOn[b] = d
                  /\ issuedOn'[b] = d /\ tab'[b] = "billed" <=> issuedOn[b] = d /\ tab[b] = "billed"
                  /\ tab'[b] = "void" /\ endedOn'[b] = d <=> tab[b] = "void" /\ endedOn[b] = d
                  /\ tab'[b] \in {"cancelled", "void"} /\ endedOn'[b] = d
                        <=> tab[b] \in {"cancelled", "void"} /\ endedOn[b] = d
                  /\ tab'[b] \in {"open", "billed"} => openedOn'[b] > d,
              \A p : p \in cash' /\ Day(p.at) = d <=> p \in cash /\ Day(p.at) = d
       PROVE  DayIsOver(d)'
  <2>1. {b \in Bills : issuedOn'[b] = d} = {b \in Bills : issuedOn[b] = d}
    BY <1>12
  <2>2. {b \in Bills : issuedOn'[b] = d /\ tab'[b] = "billed"} = {b \in Bills : issuedOn[b] = d /\ tab[b] = "billed"}
    BY <1>12
  <2>3. {b \in Bills : tab'[b] = "void" /\ endedOn'[b] = d} = {b \in Bills : tab[b] = "void" /\ endedOn[b] = d}
    BY <1>12
  <2>4. {b \in Bills : tab'[b] \in {"cancelled", "void"} /\ endedOn'[b] = d}
            = {b \in Bills : tab[b] \in {"cancelled", "void"} /\ endedOn[b] = d}
    BY <1>12
  <2>5. {p \in cash' : Day(p.at) = d} = {p \in cash : Day(p.at) = d}
    BY <1>12
  <2>6. Report(d)' = Report(d)
    <3> DEFINE shifts == {<<s, expected[s]>> : s \in {r \in Drawers : opened[r] # Never /\ Day(opened[r]) = d}}
    <3>1. {<<s, expected'[s]>> : s \in {r \in Drawers : opened'[r] # Never /\ Day(opened'[r]) = d}} = shifts
      BY <1>12
    <3>2. Report(d)' = [sales         |-> {b \in Bills : issuedOn'[b] = d},
                        outstanding   |-> {b \in Bills : issuedOn'[b] = d /\ tab'[b] = "billed"},
                        payments      |-> {p \in cash' : Day(p.at) = d},
                        creditNotes   |-> {b \in Bills : tab'[b] = "void" /\ endedOn'[b] = d},
                        cancellations |-> {b \in Bills : tab'[b] \in {"cancelled", "void"} /\ endedOn'[b] = d},
                        shifts        |-> shifts]
      <4> HIDE DEF shifts
      <4> QED
        BY <3>1 DEF Report, Day
    <3> QED
      BY <2>1, <2>2, <2>3, <2>4, <2>5, <3>2 DEF Report
  <2>7. MayCloseDay(d)'
    BY <1>2, <1>12 DEF MayCloseDay, Open, Day
  <2>8. d < Day(clock)'
    BY <1>1, <1>12 DEF Day
  <2> QED
    BY <1>2, <2>6, <2>7, <2>8 DEF DayIsOver
<1>13. ASSUME NEW b \in Bills, UNCHANGED <<clock, opened, closed, expected>>,
              \A a \in Bills : a # b => /\ tab'[a] = tab[a] /\ openedOn'[a] = openedOn[a]
                                        /\ issuedOn'[a] = issuedOn[a] /\ endedOn'[a] = endedOn[a],
              issuedOn[b] # d, issuedOn'[b] # d, tab[b] \notin {"cancelled", "void"},
              tab'[b] \in {"cancelled", "void"} => endedOn'[b] # d,
              tab'[b] \in {"open", "billed"} => openedOn'[b] > d,
              \A p : p \in cash' /\ Day(p.at) = d <=> p \in cash /\ Day(p.at) = d
       PROVE  DayIsOver(d)'
  <2>1. \A a \in Bills : a # b /\ tab'[a] \in {"open", "billed"} => openedOn'[a] > d
    BY <1>2, <1>13
  <2> QED
    BY <1>12, <1>13, <2>1
\* Bills that can still change were not issued on the date.
<1>14. \A b \in Bills : tab[b] \in {"none", "open", "billed"} => issuedOn[b] # d
  BY <1>2, <1>3 DEF BillDates
<1>15. Day(clock) # d
  BY <1>1
<1>16. ASSUME NEW b \in Bills, OpenTab(b) PROVE DayIsOver(d)'
  BY <1>1, <1>3, <1>13, <1>14, <1>15, <1>16 DEF OpenTab, shiftVars
<1>17. ASSUME NEW b \in Bills, IssueBill(b) PROVE DayIsOver(d)'
  BY <1>2, <1>3, <1>13, <1>14, <1>15, <1>17 DEF IssueBill, shiftVars
<1>18. ASSUME NEW b \in Bills, CancelTab(b) PROVE DayIsOver(d)'
  BY <1>3, <1>13, <1>14, <1>15, <1>18 DEF CancelTab, shiftVars
<1>19. ASSUME NEW b \in Bills, VoidUnpaid(b) PROVE DayIsOver(d)'
  BY <1>3, <1>13, <1>14, <1>15, <1>19 DEF VoidUnpaid, shiftVars
<1>20. ASSUME NEW b, NEW c, NEW mode, NEW paise \in Int, Pass(b, c, mode, paise)
       PROVE  \A p : p \in cash' /\ Day(p.at) = d <=> p \in cash /\ Day(p.at) = d
  <2>1. PICK p : cash' = cash \cup {p} /\ p.at = clock
    BY <1>20, PassAdds
  <2> QED
    BY <1>15, <2>1
<1>21. ASSUME NEW b \in Bills, NEW c \in Cashiers, NEW mode \in {"cash", "upi"}, SettleBill(b, c, mode)
       PROVE  DayIsOver(d)'
  <2>1. Pass(b, c, mode, Total[b]) /\ Total[b] \in Int
    BY <1>21 DEF SettleBill
  <2>2. \A p : p \in cash' /\ Day(p.at) = d <=> p \in cash /\ Day(p.at) = d
    BY <1>20, <2>1
  <2> QED
    BY <1>3, <1>13, <1>14, <1>15, <1>21, <2>2 DEF SettleBill, shiftVars
<1>22. ASSUME NEW b \in Bills, NEW c \in Cashiers, NEW paise \in Parts, RefundBill(b, c, paise)
       PROVE  DayIsOver(d)'
  <2>1. PICK p \in PaidOn(b) : Pass(b, c, p.mode, -paise)
    BY <1>22 DEF RefundBill
  <2>2. -paise \in Int
    OBVIOUS
  <2>3. \A q : q \in cash' /\ Day(q.at) = d <=> q \in cash /\ Day(q.at) = d
    BY <1>20, <2>1, <2>2
  <2>4. UNCHANGED <<clock, opened, closed, expected, tab, openedOn, issuedOn, endedOn>>
    BY <1>22 DEF RefundBill, shiftVars, tabVars
  <2> QED
    BY <1>2, <1>12, <2>3, <2>4
<1> QED
  BY <1>6, <1>7, <1>8, <1>10, <1>11, <1>16, <1>17, <1>18, <1>19, <1>21, <1>22, Steps

LEMMA DaysStep == DaysInv /\ [ShiftsNext]_dayVars => DaysAreOver'
<1> SUFFICES ASSUME DaysInv, [ShiftsNext]_dayVars PROVE DaysAreOver'
  OBVIOUS
<1>1. clock \in Nat /\ Day(clock) \in Nat /\ Day(clock + 1) \in Nat /\ Day(clock) <= Day(clock + 1)
  BY DayGrows DEF DaysInv, ShiftsTypeOK
<1>2. CASE UNCHANGED dayVars
  <2>1. \A d \in DOMAIN saved : DayIsOver(d) => DayIsOver(d)'
    BY <1>2 DEF dayVars, shiftVars, tabVars, DayIsOver, MayCloseDay, Report, Open, Day
  <2>2. Day(clock)' = Day(clock) /\ UNCHANGED saved
    BY <1>2 DEF dayVars, Day
  <2> QED
    BY <2>1, <2>2 DEF DaysInv, DaysAreOver
<1>3. CASE ShiftsNext
  <2>1. Day(clock)' \in Nat /\ Day(clock) <= Day(clock)'
    <3>1. clock' = clock \/ clock' = clock + 1
      BY <1>3, Steps DEF TimePasses, CloseShift, OpenShift, CashMovement, OpenTab, IssueBill, CancelTab, VoidUnpaid,
                         SettleBill, RefundBill, CloseDay
    <3>2. Day(clock)' = Day(clock')
      BY DEF Day
    <3> QED
      BY <1>1, <3>1, <3>2
  <2>2. \A d \in DOMAIN saved : d \in Int
    BY DEF DaysInv, ShiftsTypeOK
  <2>3. ASSUME NEW d \in DOMAIN saved, saved'[d] = saved[d], saved[d] # Never
        PROVE  (saved[d].on \in Nat /\ saved[d].on <= Day(clock) /\ (saved[d].on > d => DayIsOver(d)))'
    <3>1. saved[d].on \in Nat /\ saved[d].on <= Day(clock) /\ (saved[d].on > d => DayIsOver(d))
      BY <2>3 DEF DaysInv, DaysAreOver
    <3>2. saved'[d].on > d => DayIsOver(d)'
      BY <1>3, <2>2, <2>3, <3>1, DayStaysOver
    <3>3. saved'[d].on \in Nat /\ saved'[d].on <= Day(clock)'
      BY <1>1, <2>1, <2>3, <3>1
    <3> QED
      BY <3>2, <3>3
  <2>4. CASE \E e \in DOMAIN saved : CloseDay(e)
    <3>1. PICK e \in DOMAIN saved : CloseDay(e)
      BY <2>4
    <3>2. saved' = [saved EXCEPT ![e] = [on |-> Day(clock), report |-> Report(e)]] /\ MayCloseDay(e)
      BY <3>1 DEF CloseDay
    <3>3. DOMAIN saved' = DOMAIN saved /\ \A d \in DOMAIN saved : d # e => saved'[d] = saved[d]
      BY <3>2
    <3>4. saved'[e].on = Day(clock) /\ saved'[e].report = Report(e)
      BY <3>2
    <3>5. UNCHANGED <<clock, opened, closed, expected, tab, openedOn, issuedOn, endedOn, cash>>
      BY <3>1 DEF CloseDay, shiftVars, tabVars
    <3>6. Report(e)' = Report(e) /\ MayCloseDay(e)' /\ Day(clock)' = Day(clock)
      BY <3>2, <3>5 DEF Report, MayCloseDay, Open, Day
    <3>7. (saved[e].on \in Nat /\ saved[e].on <= Day(clock) /\ (saved[e].on > e => DayIsOver(e)))'
      BY <1>1, <2>2, <3>4, <3>6 DEF DayIsOver
    <3> QED
      BY <2>3, <3>3, <3>7 DEF DaysAreOver
  <2>5. CASE ~ \E e \in DOMAIN saved : CloseDay(e)
    <3>1. UNCHANGED saved
      BY <1>3, <2>5, Steps DEF TimePasses, CloseShift, OpenShift, CashMovement, OpenTab, IssueBill, CancelTab, VoidUnpaid,
                               SettleBill, RefundBill
    <3> QED
      BY <2>3, <3>1 DEF DaysAreOver
  <2> QED
    BY <2>4, <2>5
<1> QED
  BY <1>2, <1>3

-----------------------------------------------------------------------------
LEMMA ShiftsInvariance == ShiftsSpec => [](DrawersInv /\ DaysInv)
<1>1. ShiftsInit => DrawersInv /\ DaysInv
  BY ShiftsInvInit
<1>2. (DrawersInv /\ DaysInv) /\ [ShiftsNext]_dayVars => (DrawersInv /\ DaysInv)'
  BY TypeStep, OrderStep, DrawersStep, BillDatesStep, DaysStep DEF DrawersInv, DaysInv
<1> QED
  BY <1>1, <1>2, PTL DEF ShiftsSpec

\* Whatever was paid, refunded, paid in and paid out, in whatever millisecond, a closed shift says what lies in its drawer,
\* but for cash its cashier took earlier in the millisecond in which it was opened.
THEOREM DrawersAddUp == ShiftsSpec => []DrawerAddsUp
<1>1. DrawersInv => DrawerAddsUp
  BY DEF DrawersInv
<1> QED
  BY <1>1, ShiftsInvariance, PTL

\* The report saved with a date closed after it ended is the report of that date for ever.
THEOREM ClosedDaysStand == ShiftsSpec => []ClosedDayStands
<1>1. DaysInv => ClosedDayStands
  BY DEF DaysInv, DaysAreOver, DayIsOver, ClosedDayStands
<1> QED
  BY <1>1, ShiftsInvariance, PTL
=============================================================================
