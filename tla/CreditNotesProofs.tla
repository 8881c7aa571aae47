-------------------------- MODULE CreditNotesProofs -------------------------
(***************************************************************************)
(* CreditNotes and Loyalty, in every behaviour of Loyalty, for any bills,  *)
(* lines, units, amounts and payment methods, any points, and a clock that *)
(* runs for any time.                                                      *)
(*                                                                         *)
(* First the money: credits and payments agree.  How a share is rounded    *)
(* does not matter to it; that the last units of a line take what is left  *)
(* does.  Then the points: the invariant (PointsInv) says what the ledger  *)
(* holds of each bill (BillBook) and what replaying it may come to (Book), *)
(* and each handler is the rows it appends, one after the other.           *)
(*                                                                         *)
(* The sums are folds whose value is only known step by step: the lemmas   *)
(* on them argue with a smallest set on which they would not hold.  The    *)
(* lemmas on a replay, a sweep and a return of points, which are functions *)
(* of the row reached, argue with the least row at which they would fail.  *)
(***************************************************************************)
EXTENDS Loyalty, TLAPS, FiniteSetTheorems, SequenceTheorems, WellFoundedInduction

\* Every set of naturals has a least one.
LEMMA LeastNatural ==
    ASSUME NEW S \in SUBSET Nat, S # {}
    PROVE  \E n \in S : \A m \in S : n <= m
<1> DEFINE R == {p \in Nat \X Nat : p[1] < p[2]}
<1>1. R = OpToRel(<, Nat)
  BY DEF OpToRel
<1>2. IsWellFoundedOn(R, Nat)
  BY <1>1, NatLessThanWellFounded
<1>3. \A m, n \in Nat : m < n => <<m, n>> \in R
  OBVIOUS
<1> HIDE DEF R
<1>4. \E n \in S : \A m \in S : ~ (<<m, n>> \in R)
  BY <1>2, WFMin
<1>5. PICK n \in S : \A m \in S : ~ (<<m, n>> \in R)
  BY <1>4
<1>6. ASSUME NEW m \in S PROVE n <= m
  <2>1. m \in Nat /\ n \in Nat
    OBVIOUS
  <2>2. ~ (m < n)
    BY <1>3, <1>5, <2>1
  <2> QED
    BY <2>1, <2>2
<1> QED
  BY <1>6

\* Among sets of finitely many things one is smallest: without any of its elements it is not among them.
LEMMA SmallestSet ==
    ASSUME NEW S, IsFiniteSet(S), NEW Q \in SUBSET SUBSET S, Q # {}
    PROVE  \E T \in Q : \A x \in T : T \ {x} \notin Q
<1> DEFINE N == {Cardinality(T) : T \in Q}
<1>1. \A T \in Q : IsFiniteSet(T) /\ Cardinality(T) \in Nat
  BY FS_Subset, FS_CardinalityType
<1>2. N \in SUBSET Nat /\ N # {}
  BY <1>1
<1>3. PICK n \in N : \A m \in N : n <= m
  <2> HIDE DEF N
  <2> QED
    BY <1>2, LeastNatural
<1>4. PICK T \in Q : Cardinality(T) = n
  OBVIOUS
<1>5. ASSUME NEW x \in T, T \ {x} \in Q PROVE FALSE
  <2>1. Cardinality(T \ {x}) = n - 1
    BY <1>1, <1>4, FS_RemoveElement
  <2>2. n <= n - 1
    BY <1>3, <1>5, <2>1
  <2> QED
    BY <1>1, <1>4, <2>2
<1> QED
  BY <1>5

-----------------------------------------------------------------------------
(* Sums over finite sets *)

\* W gives each set of things of S the sum of its weights, whichever thing is taken first.
Sums(S, w, W) ==
    /\ W \in [SUBSET S -> Int]  /\ W[{}] = 0
    /\ \A T \in SUBSET S : \A x \in T : W[T] = w[x] + W[T \ {x}]

LEMMA SumsGrow ==
    ASSUME NEW T, NEW x \in T, NEW w, w \in [T -> Int], NEW V, Sums(T \ {x}, w, V)
    PROVE  \E W : Sums(T, w, W)
<1> DEFINE W == [U \in SUBSET T |-> V[U \ {x}] + (IF x \in U THEN w[x] ELSE 0)]
<1>1. \A U \in SUBSET T : U \ {x} \in SUBSET (T \ {x}) /\ V[U \ {x}] \in Int
  BY DEF Sums
<1>2. W \in [SUBSET T -> Int]
  <2>1. w[x] \in Int
    OBVIOUS
  <2>2. \A U \in SUBSET T : V[U \ {x}] + (IF x \in U THEN w[x] ELSE 0) \in Int
    BY <1>1, <2>1
  <2> QED
    BY <2>2
<1>3. W[{}] = 0
  <2>1. {} \ {x} = {} /\ {} \in SUBSET T
    OBVIOUS
  <2> QED
    BY <2>1 DEF Sums
<1>4. ASSUME NEW U \in SUBSET T, NEW y \in U PROVE W[U] = w[y] + W[U \ {y}]
  <2>1. U \ {y} \in SUBSET T /\ w[y] \in Int /\ w[x] \in Int
    OBVIOUS
  <2>2. CASE y = x
    <3>1. (U \ {y}) \ {x} = U \ {x} /\ x \notin U \ {y} /\ x \in U
      BY <2>2
    <3>2. W[U] = V[U \ {x}] + w[x]
      BY <3>1
    <3>3. W[U \ {y}] = V[U \ {x}] + 0
      BY <2>1, <3>1
    <3>4. V[U \ {x}] \in Int
      BY <1>1
    <3> HIDE DEF W
    <3> QED
      BY <2>1, <2>2, <3>2, <3>3, <3>4
  <2>3. CASE y # x
    <3>1. y \in U \ {x} /\ (U \ {y}) \ {x} = (U \ {x}) \ {y} /\ (x \in U <=> x \in U \ {y})
      BY <2>3
    <3>2. V[U \ {x}] = w[y] + V[(U \ {x}) \ {y}]
      BY <1>1, <3>1 DEF Sums
    <3>3. W[U \ {y}] = V[(U \ {x}) \ {y}] + (IF x \in U THEN w[x] ELSE 0)
      BY <2>1, <3>1
    <3>4. V[(U \ {x}) \ {y}] \in Int
      BY <1>1, <2>1, <3>1
    <3>5. W[U] = V[U \ {x}] + (IF x \in U THEN w[x] ELSE 0)
      OBVIOUS
    <3> QED
      BY <1>1, <2>1, <3>2, <3>3, <3>4, <3>5
  <2> QED
    BY <2>2, <2>3
<1> QED
  <2> HIDE DEF W
  <2> QED
    BY <1>2, <1>3, <1>4 DEF Sums

LEMMA SumsExist ==
    ASSUME NEW S, IsFiniteSet(S), NEW w \in [S -> Int]
    PROVE  \E W : Sums(S, w, W)
<1> DEFINE v(T) == [x \in T |-> w[x]]
           Q == {T \in SUBSET S : ~ \E W : Sums(T, v(T), W)}
<1>1. ASSUME Q # {} PROVE FALSE
  <2>1. PICK T \in Q : \A x \in T : T \ {x} \notin Q
    <3> HIDE DEF Q
    <3>1. Q \in SUBSET SUBSET S
      BY DEF Q
    <3> QED
      BY <1>1, <3>1, SmallestSet
  <2>2. CASE T = {}
    <3> DEFINE W == [U \in SUBSET T |-> 0]
    <3>1. Sums(T, v(T), W)
      BY <2>2 DEF Sums
    <3> QED
      BY <3>1
  <2>3. ASSUME NEW x \in T PROVE FALSE
    <3>1. PICK V : Sums(T \ {x}, v(T \ {x}), V)
      BY <2>1, <2>3
    <3>2. Sums(T \ {x}, v(T), V)
      <4>1. \A U \in SUBSET (T \ {x}) : \A y \in U : v(T)[y] = v(T \ {x})[y]
        OBVIOUS
      <4> QED
        BY <3>1, <4>1 DEF Sums
    <3>3. v(T) \in [T -> Int]
      OBVIOUS
    <3> HIDE DEF v
    <3>4. \E W : Sums(T, v(T), W)
      BY <2>3, <3>2, <3>3, SumsGrow
    <3> QED
      BY <3>4
  <2> QED
    BY <2>2, <2>3
<1>2. v(S) = w
  OBVIOUS
<1> QED
  BY <1>1, <1>2

First(T) == CHOOSE x \in T : TRUE

\* Taking one thing after another, in any order, comes to that sum.
LEMMA FoldIsSum ==
    ASSUME NEW S, IsFiniteSet(S), NEW w \in [S -> Int], NEW W, Sums(S, w, W), NEW G, G[{}] = 0,
           \A T \in SUBSET S : T # {} => G[T] = w[First(T)] + G[T \ {First(T)}]
    PROVE  G[S] = W[S]
<1> DEFINE Q == {T \in SUBSET S : G[T] # W[T]}
<1>1. ASSUME Q # {} PROVE FALSE
  <2>1. PICK T \in Q : \A x \in T : T \ {x} \notin Q
    <3> HIDE DEF Q
    <3>1. Q \in SUBSET SUBSET S
      BY DEF Q
    <3> QED
      BY <1>1, <3>1, SmallestSet
  <2>2. CASE T = {}
    BY <2>2 DEF Sums
  <2>3. CASE T # {}
    <3> DEFINE x == First(T)
    <3>1. x \in T
      BY <2>3 DEF First
    <3>2. G[T] = w[x] + G[T \ {x}]
      BY <2>3
    <3> HIDE DEF x
    <3>3. G[T \ {x}] = W[T \ {x}]
      BY <2>1, <3>1
    <3> QED
      BY <3>1, <3>2, <3>3 DEF Sums
  <2> QED
    BY <2>2, <2>3
<1> QED
  BY <1>1

\* What Sum(f, S) needs to be a sum.
Summable(f, S) == IsFiniteSet(S) /\ \A x \in S : f[x] \in Int

LEMMA SumIs ==
    ASSUME NEW f, NEW S, Summable(f, S), NEW W, Sums(S, f, W)
    PROVE  Sum(f, S) = W[S]
<1> DEFINE w == [x \in S |-> f[x]]
           G == CHOOSE G : G = [T \in SUBSET S |->
                    IF T = {} THEN 0 ELSE f[First(T)] + G[T \ {First(T)}]]
<1>1. W = [T \in SUBSET S |->
             IF T = {} THEN 0 ELSE f[First(T)] + W[T \ {First(T)}]]
  <2>1. ASSUME NEW T \in SUBSET S, T # {}
        PROVE  W[T] = f[First(T)] + W[T \ {First(T)}]
    <3>1. First(T) \in T
      BY <2>1 DEF First
    <3> QED
      BY <3>1 DEF Sums
  <2>2. W = [T \in SUBSET S |-> W[T]] /\ W[{}] = 0
    BY DEF Sums
  <2> QED
    BY <2>1, <2>2
<1>2. G = [T \in SUBSET S |->
             IF T = {} THEN 0 ELSE f[First(T)] + G[T \ {First(T)}]]
  BY <1>1
<1>3. G[{}] = 0 /\ \A T \in SUBSET S : T # {} =>
             G[T] = w[First(T)] + G[T \ {First(T)}]
  <2> HIDE DEF G
  <2>1. \A T \in SUBSET S : T # {} => w[First(T)] = f[First(T)]
    BY DEF First
  <2> QED
    BY <1>2, <2>1
<1>4. w \in [S -> Int] /\ IsFiniteSet(S)
  BY DEF Summable
<1>5. Sums(S, w, W)
  <2>1. \A T \in SUBSET S : \A x \in T : w[x] = f[x]
    OBVIOUS
  <2> HIDE DEF w
  <2> QED
    BY <2>1 DEF Sums
<1>6. G[S] = W[S]
  <2> HIDE DEF G, w
  <2> QED
    BY <1>3, <1>4, <1>5, FoldIsSum
<1>7. Sum(f, S) = G[S]
  BY DEF Sum, MapThenSumSet, MapThenFoldSet, First
<1> QED
  BY <1>6, <1>7

\* So a sum has a value, and its parts too.
LEMMA SumHas ==
    ASSUME NEW f, NEW S, Summable(f, S)
    PROVE  \E W : Sums(S, f, W) /\ Sum(f, S) = W[S] /\ Sum(f, S) \in Int
<1> DEFINE w == [x \in S |-> f[x]]
<1>1. w \in [S -> Int] /\ IsFiniteSet(S)
  BY DEF Summable
<1>2. PICK W : Sums(S, w, W)
  <2> HIDE DEF w
  <2> QED
    BY <1>1, SumsExist
<1>3. Sums(S, f, W)
  <2>1. \A T \in SUBSET S : \A x \in T : w[x] = f[x]
    OBVIOUS
  <2> HIDE DEF w
  <2> QED
    BY <1>2, <2>1 DEF Sums
<1>4. Sum(f, S) = W[S]
  BY <1>3, SumIs
<1>5. W[S] \in Int
  BY <1>3 DEF Sums
<1> QED
  BY <1>3, <1>4, <1>5

\* Two functions that add up to a third, thing by thing.
LEMMA SumAdds ==
    ASSUME NEW S, NEW f, NEW g, NEW h, Summable(f, S), Summable(g, S), \A x \in S : h[x] = f[x] + g[x]
    PROVE  Sum(h, S) = Sum(f, S) + Sum(g, S)
<1>1. PICK V : Sums(S, f, V) /\ Sum(f, S) = V[S]
  BY SumHas
<1>2. PICK W : Sums(S, g, W) /\ Sum(g, S) = W[S]
  BY SumHas
<1> DEFINE X == [T \in SUBSET S |-> V[T] + W[T]]
<1>3. Sums(S, h, X)
  <2>1. ASSUME NEW T \in SUBSET S
        PROVE  /\ V[T] \in Int  /\ W[T] \in Int
               /\ \A x \in T : V[T] = f[x] + V[T \ {x}] /\ W[T] = g[x] + W[T \ {x}]
    BY <1>1, <1>2 DEF Sums
  <2>2. X \in [SUBSET S -> Int]
    BY <2>1
  <2>3. X[{}] = 0
    BY <1>1, <1>2 DEF Sums
  <2>4. ASSUME NEW T \in SUBSET S, NEW x \in T PROVE X[T] = h[x] + X[T \ {x}]
    <3>1. T \ {x} \in SUBSET S
      OBVIOUS
    <3>2. f[x] \in Int /\ g[x] \in Int /\ h[x] = f[x] + g[x]
      BY DEF Summable
    <3>3. V[T] = f[x] + V[T \ {x}] /\ W[T] = g[x] + W[T \ {x}] /\ V[T \ {x}] \in Int /\ W[T \ {x}] \in Int
      BY <2>1, <3>1
    <3> QED
      BY <3>1, <3>2, <3>3
  <2> HIDE DEF X
  <2> QED
    BY <2>2, <2>3, <2>4 DEF Sums
<1>4. Summable(h, S)
  BY DEF Summable
<1>5. Sum(h, S) = X[S]
  <2> HIDE DEF X
  <2> QED
    BY <1>3, <1>4, SumIs
<1> QED
  BY <1>1, <1>2, <1>5

\* Functions that agree on a set have the same sum on it.
LEMMA SumSame ==
    ASSUME NEW S, NEW f, NEW g, Summable(f, S), \A x \in S : g[x] = f[x]
    PROVE  Sum(g, S) = Sum(f, S) /\ Summable(g, S)
<1>1. PICK W : Sums(S, f, W) /\ Sum(f, S) = W[S]
  BY SumHas
<1>2. Summable(g, S)
  BY DEF Summable
<1>3. Sums(S, g, W)
  BY <1>1 DEF Sums
<1> QED
  BY <1>1, <1>2, <1>3, SumIs

\* A sum of nothing but zeros.
LEMMA SumOfZeros ==
    ASSUME NEW S, IsFiniteSet(S), NEW f, \A x \in S : f[x] = 0
    PROVE  Sum(f, S) = 0
<1> DEFINE Z == [T \in SUBSET S |-> 0]
<1>1. Sums(S, f, Z)
  BY DEF Sums
<1>2. Summable(f, S)
  BY DEF Summable
<1>3. Sum(f, S) = Z[S]
  <2> HIDE DEF Z
  <2> QED
    BY <1>1, <1>2, SumIs
<1> QED
  BY <1>3

\* A sum of naturals is zero only if each of them is.
LEMMA SumOfNaturals ==
    ASSUME NEW S, IsFiniteSet(S), NEW f, \A x \in S : f[x] \in Nat, Sum(f, S) = 0
    PROVE  \A x \in S : f[x] = 0
<1>1. Summable(f, S)
  BY DEF Summable
<1>2. PICK W : Sums(S, f, W) /\ Sum(f, S) = W[S]
  BY <1>1, SumHas
<1> DEFINE Q == {T \in SUBSET S : ~ (W[T] \in Nat)}
<1>3. ASSUME Q # {} PROVE FALSE
  <2>1. PICK T \in Q : \A x \in T : T \ {x} \notin Q
    <3> HIDE DEF Q
    <3>1. Q \in SUBSET SUBSET S
      BY DEF Q
    <3> QED
      BY <1>3, <3>1, SmallestSet
  <2>2. T # {}
    <3>1. W[{}] = 0 /\ W[T] \notin Nat
      BY <1>2 DEF Sums
    <3> QED
      BY <3>1
  <2>3. PICK x \in T : W[T \ {x}] \in Nat
    BY <2>1, <2>2
  <2>4. W[T] = f[x] + W[T \ {x}] /\ f[x] \in Nat
    BY <1>2 DEF Sums
  <2> QED
    BY <2>3, <2>4
<1>4. ASSUME NEW x \in S PROVE f[x] = 0
  <2>1. W[S] = f[x] + W[S \ {x}]
    BY <1>2 DEF Sums
  <2>2. W[S \ {x}] \in Nat
    BY <1>3
  <2> QED
    BY <1>2, <2>1, <2>2
<1> QED
  BY <1>4

-----------------------------------------------------------------------------
(* The money on a bill's lines.                                            *)

LEMMA LinesFinite ==
    ASSUME NEW b
    PROVE  IsFiniteSet(LinesOf(b)) /\ LinesOf(b) \subseteq Lines
<1>1. LinesOf(b) \subseteq Lines
  BY DEF LinesOf
<1> QED
  BY <1>1, FS_Subset, CreditNotesAssumption

\* What every line of bill b carries in every field.
OnLines(b, f) == \A l \in LinesOf(b) : \A x \in Fields : f[l][x] \in Int

LineSums(b, f) == [l \in LinesOf(b) |-> Sum(f[l], Fields)]

LEMMA LinesSum ==
    ASSUME NEW b, NEW f, OnLines(b, f)
    PROVE  /\ \A l \in LinesOf(b) : Summable(f[l], Fields)
           /\ Summable(LineSums(b, f), LinesOf(b))
           /\ MoneyOn(b, f) = Sum(LineSums(b, f), LinesOf(b))  /\ MoneyOn(b, f) \in Int
<1>1. ASSUME NEW l \in LinesOf(b) PROVE Summable(f[l], Fields) /\ Sum(f[l], Fields) \in Int
  <2>1. Summable(f[l], Fields)
    BY CreditNotesAssumption DEF Summable, OnLines
  <2> QED
    BY <2>1, SumHas
<1>2. Summable(LineSums(b, f), LinesOf(b))
  BY <1>1, LinesFinite DEF Summable, LineSums
<1>3. MoneyOn(b, f) = Sum(LineSums(b, f), LinesOf(b))
  BY DEF MoneyOn, LineSums
<1>4. Sum(LineSums(b, f), LinesOf(b)) \in Int
  BY <1>2, SumHas
<1> QED
  BY <1>1, <1>2, <1>3, <1>4

\* Field by field on every line, and so in all.
LEMMA MoneyAdds ==
    ASSUME NEW b, NEW f, NEW g, NEW h, OnLines(b, f), OnLines(b, g),
           \A l \in LinesOf(b) : \A x \in Fields : h[l][x] = f[l][x] + g[l][x]
    PROVE  MoneyOn(b, h) = MoneyOn(b, f) + MoneyOn(b, g)
<1>1. OnLines(b, h)
  BY DEF OnLines
<1>2. ASSUME NEW l \in LinesOf(b) PROVE LineSums(b, h)[l] = LineSums(b, f)[l] + LineSums(b, g)[l]
  <2>1. Summable(f[l], Fields) /\ Summable(g[l], Fields)
    BY LinesSum
  <2>2. \A x \in Fields : h[l][x] = f[l][x] + g[l][x]
    OBVIOUS
  <2>3. Sum(h[l], Fields) = Sum(f[l], Fields) + Sum(g[l], Fields)
    BY <2>1, <2>2, SumAdds
  <2> QED
    BY <2>3 DEF LineSums
<1>3. Summable(LineSums(b, f), LinesOf(b)) /\ Summable(LineSums(b, g), LinesOf(b))
  BY LinesSum
<1>4. Sum(LineSums(b, h), LinesOf(b)) = Sum(LineSums(b, f), LinesOf(b)) + Sum(LineSums(b, g), LinesOf(b))
  BY <1>2, <1>3, SumAdds
<1> QED
  BY <1>1, <1>4, LinesSum

LEMMA MoneySame ==
    ASSUME NEW b, NEW f, NEW g, OnLines(b, f), \A l \in LinesOf(b) : \A x \in Fields : g[l][x] = f[l][x]
    PROVE  MoneyOn(b, g) = MoneyOn(b, f)
<1>1. OnLines(b, g)
  BY DEF OnLines
<1>2. ASSUME NEW l \in LinesOf(b) PROVE LineSums(b, g)[l] = LineSums(b, f)[l]
  <2>1. Summable(f[l], Fields) /\ \A x \in Fields : g[l][x] = f[l][x]
    BY LinesSum
  <2>2. Sum(g[l], Fields) = Sum(f[l], Fields)
    BY <2>1, SumSame
  <2> QED
    BY <2>2 DEF LineSums
<1>3. Summable(LineSums(b, f), LinesOf(b))
  BY LinesSum
<1>4. Sum(LineSums(b, g), LinesOf(b)) = Sum(LineSums(b, f), LinesOf(b))
  BY <1>2, <1>3, SumSame
<1> QED
  BY <1>1, <1>4, LinesSum

LEMMA NoMoney ==
    ASSUME NEW b, NEW f, \A l \in LinesOf(b) : \A x \in Fields : f[l][x] = 0
    PROVE  MoneyOn(b, f) = 0
<1>1. OnLines(b, f)
  BY DEF OnLines
<1>2. ASSUME NEW l \in LinesOf(b) PROVE LineSums(b, f)[l] = 0
  <2>1. Sum(f[l], Fields) = 0
    BY CreditNotesAssumption, SumOfZeros
  <2> QED
    BY <2>1 DEF LineSums
<1>3. Sum(LineSums(b, f), LinesOf(b)) = 0
  BY <1>2, LinesFinite, SumOfZeros
<1> QED
  BY <1>1, <1>3, LinesSum

LEMMA TotalIs ==
    ASSUME NEW b
    PROVE  OnLines(b, Billed) /\ Total(b) = MoneyOn(b, Billed) /\ Total(b) \in Int
<1>1. OnLines(b, Billed)
  BY LinesFinite, CreditNotesAssumption DEF OnLines
<1> QED
  BY <1>1, LinesSum DEF Total

-----------------------------------------------------------------------------
(* The invariant.                                                          *)

BillStates == {"none", "unpaid", "paid", "void"}

CreditsTypeOK ==
    /\ billStatus \in [Bills -> BillStates]
    /\ creditQty \in [Lines -> Nat]
    /\ credited \in [Lines -> [Fields -> Int]]
    /\ paid \in [Bills -> [Modes -> Nat]]  /\ refunded \in [Bills -> [Modes -> Nat]]

\* No more units are credited than were billed, and a line whose units are all credited has been credited all it carries.
LinesOK ==
    \A l \in Lines :
        /\ creditQty[l] <= Qty[l]
        /\ creditQty[l] = Qty[l] => \A x \in Fields : credited[l][x] = Billed[l][x]

\* Nothing is credited or paid of a bill before it is paid.
Untouched(b) ==
    /\ \A l \in LinesOf(b) : creditQty[l] = 0 /\ \A x \in Fields : credited[l][x] = 0
    /\ \A m \in Modes : paid[b][m] = 0 /\ refunded[b][m] = 0

\* What is still held of a paid bill is what has not been credited; of a void one nothing.
BillsOK ==
    \A b \in Bills :
        /\ billStatus[b] \in {"none", "unpaid"} => Untouched(b)
        /\ billStatus[b] = "paid" => Held(b) = Total(b) - Credited(b)
        /\ \A m \in Modes : refunded[b][m] <= paid[b][m]
        /\ billStatus[b] = "void" => Held(b) = 0 /\ Credited(b) = Total(b)

CreditsInv == CreditsTypeOK /\ LinesOK /\ BillsOK

\* A credit note a counter may ask for: units of the bill's lines and amounts by method.
Asks(b, want, asked) ==
    /\ \A l \in LinesOf(b) : want[l] \in Nat
    /\ asked \in [Modes -> Nat]

-----------------------------------------------------------------------------
(* Credit notes.                                                           *)

LEMMA ProportionIsInt ==
    ASSUME NEW v \in Int, NEW q \in Nat, NEW n \in Nat \ {0}
    PROVE  Proportion(v, q, n) \in Int
<1> DEFINE a == IF v < 0 THEN -v ELSE v
<1>1. a \in Int
  OBVIOUS
<1> HIDE DEF a
<1>2. 2 * a * q \in Int
  BY <1>1
<1>3. 2 * a * q + n \in Int /\ 2 * n \in Int /\ 2 * n > 0
  BY <1>2
<1>4. (2 * a * q + n) \div (2 * n) \in Int
  BY <1>3
<1> QED
  BY <1>4 DEF Proportion, a

\* A draft is of integers, and the last units of a line bring its credit to what it carries.
LEMMA DraftIs ==
    ASSUME CreditsTypeOK, LinesOK, NEW b \in Bills, NEW want,
           \A l \in LinesOf(b) : want[l] \in Nat /\ want[l] <= Left(l)
    PROVE  /\ OnLines(b, Draft(b, want))  /\ OnLines(b, credited)
           /\ \A l \in LinesOf(b) : /\ creditQty[l] + want[l] \in Nat  /\ creditQty[l] + want[l] <= Qty[l]
                                    /\ creditQty[l] + want[l] = Qty[l] =>
                                         \A x \in Fields : credited[l][x] + Draft(b, want)[l][x] = Billed[l][x]
<1> SUFFICES ASSUME NEW l \in LinesOf(b)
             PROVE  /\ \A x \in Fields : Draft(b, want)[l][x] \in Int /\ credited[l][x] \in Int
                    /\ creditQty[l] + want[l] \in Nat  /\ creditQty[l] + want[l] <= Qty[l]
                    /\ creditQty[l] + want[l] = Qty[l] =>
                         \A x \in Fields : credited[l][x] + Draft(b, want)[l][x] = Billed[l][x]
  BY DEF OnLines
<1>1. l \in Lines
  BY LinesFinite
<1>2. /\ creditQty[l] \in Nat  /\ Qty[l] \in Nat \ {0}  /\ want[l] \in Nat  /\ want[l] <= Qty[l] - creditQty[l]
      /\ creditQty[l] <= Qty[l]
  BY <1>1, CreditNotesAssumption DEF CreditsTypeOK, LinesOK, Left
<1>3. \A x \in Fields : Billed[l][x] \in Int /\ credited[l][x] \in Int
  BY <1>1, CreditNotesAssumption DEF CreditsTypeOK
<1>4. creditQty[l] + want[l] \in Nat /\ creditQty[l] + want[l] <= Qty[l]
  BY <1>2
<1>5. ASSUME NEW x \in Fields
      PROVE  /\ Draft(b, want)[l][x] \in Int
             /\ creditQty[l] + want[l] = Qty[l] => credited[l][x] + Draft(b, want)[l][x] = Billed[l][x]
  <2>1. CASE want[l] = 0
    <3>1. Draft(b, want)[l][x] = 0
      BY <2>1 DEF Draft
    <3>2. creditQty[l] + want[l] = Qty[l] => credited[l][x] = Billed[l][x]
      BY <1>1, <1>2, <2>1 DEF LinesOK
    <3> QED
      BY <1>3, <3>1, <3>2
  <2>2. CASE want[l] > 0
    <3>1. Draft(b, want)[l][x] = CreditOne(l, want[l])[x]
      BY <2>2 DEF Draft
    <3>2. CASE want[l] = Left(l)
      <4>1. Draft(b, want)[l][x] = Billed[l][x] - credited[l][x]
        BY <3>1, <3>2 DEF CreditOne
      <4> QED
        BY <1>3, <4>1
    <3>3. CASE want[l] # Left(l)
      <4>1. Draft(b, want)[l][x] = Proportion(Billed[l][x], want[l], Qty[l])
        BY <3>1, <3>3 DEF CreditOne
      <4>2. creditQty[l] + want[l] # Qty[l]
        BY <1>2, <3>3 DEF Left
      <4> QED
        BY <1>2, <1>3, <4>1, <4>2, ProportionIsInt
    <3> QED
      BY <3>2, <3>3
  <2> QED
    BY <1>2, <2>1, <2>2
<1> QED
  BY <1>3, <1>4, <1>5

\* The rest of a bill: what all its units but those credited would give back.
LEMMA RemainderIs ==
    ASSUME CreditsTypeOK, LinesOK, NEW b \in Bills
    PROVE  /\ \A l \in LinesOf(b) : Remainder(b)[l] \in Nat /\ Remainder(b)[l] <= Left(l) /\ Remainder(b)[l] = Left(l)
           /\ DraftTotal(b, Remainder(b)) \in Int  /\ Credited(b) \in Int  /\ Total(b) \in Int
           /\ DraftTotal(b, Remainder(b)) = Total(b) - Credited(b)
<1>1. ASSUME NEW l \in LinesOf(b)
      PROVE  /\ Remainder(b)[l] \in Nat  /\ Remainder(b)[l] <= Left(l)  /\ Remainder(b)[l] = Left(l)
             /\ creditQty[l] + Remainder(b)[l] = Qty[l]
  <2>1. l \in Lines
    BY LinesFinite
  <2>2. creditQty[l] \in Nat /\ Qty[l] \in Nat /\ creditQty[l] <= Qty[l]
    BY <2>1, CreditNotesAssumption DEF CreditsTypeOK, LinesOK
  <2>3. Remainder(b)[l] = Qty[l] - creditQty[l]
    BY DEF Remainder, Left
  <2> QED
    BY <2>2, <2>3 DEF Left
<1> DEFINE draft == Draft(b, Remainder(b))
<1>2. OnLines(b, draft) /\ OnLines(b, credited)
  BY <1>1, DraftIs
<1>3. ASSUME NEW l \in LinesOf(b), NEW x \in Fields PROVE Billed[l][x] = credited[l][x] + draft[l][x]
  BY <1>1, DraftIs
<1> HIDE DEF draft
<1>4. MoneyOn(b, Billed) = MoneyOn(b, credited) + MoneyOn(b, draft)
  BY <1>2, <1>3, MoneyAdds
<1>5. MoneyOn(b, credited) \in Int /\ MoneyOn(b, draft) \in Int
  BY <1>2, LinesSum
<1>6. DraftTotal(b, Remainder(b)) = MoneyOn(b, draft) /\ Credited(b) = MoneyOn(b, credited)
  BY DEF DraftTotal, Credited, draft
<1> QED
  BY <1>1, <1>4, <1>5, <1>6, TotalIs

-----------------------------------------------------------------------------
(* Every step.                                                             *)

LEMMA CreditedIs ==
    ASSUME NEW b \in Bills
    PROVE  /\ Credited(b)' = MoneyOn(b, credited')  /\ Total(b)' = Total(b)
           /\ Held(b)' = Sum(paid'[b], Modes) - Sum(refunded'[b], Modes)
  BY DEF Credited, Total, Held

\* The sums of payments and refunds.
LEMMA HeldIs ==
    ASSUME CreditsTypeOK, NEW b \in Bills
    PROVE  /\ Summable(paid[b], Modes) /\ Summable(refunded[b], Modes)
           /\ Sum(paid[b], Modes) \in Int /\ Sum(refunded[b], Modes) \in Int /\ Held(b) \in Int
<1>1. Summable(paid[b], Modes) /\ Summable(refunded[b], Modes)
  BY CreditNotesAssumption DEF Summable, CreditsTypeOK
<1>2. Sum(paid[b], Modes) \in Int /\ Sum(refunded[b], Modes) \in Int
  BY <1>1, SumHas
<1> QED
  BY <1>1, <1>2 DEF Held

\* A credit note adds its draft to what was credited and what it pays back to the refunds, and touches no other bill.
LEMMA CreditNoteIs ==
    ASSUME CreditsInv, NEW b \in Bills, NEW want, NEW asked, Asks(b, want, asked),
           \A l \in LinesOf(b) : want[l] <= Left(l),
           WriteCreditNote(b, want, asked)
    PROVE  /\ creditQty' \in [Lines -> Nat]  /\ credited' \in [Lines -> [Fields -> Int]]
           /\ refunded' \in [Bills -> [Modes -> Nat]]  /\ paid' = paid
           /\ LinesOK'
           /\ Credited(b)' = Credited(b) + DraftTotal(b, want)  /\ Credited(b) \in Int  /\ DraftTotal(b, want) \in Int
           /\ Held(b)' = Held(b) - Sum(asked, Modes)  /\ Held(b) \in Int  /\ Sum(asked, Modes) \in Int
           /\ \A m \in Modes : refunded'[b][m] = refunded[b][m] + asked[m]
           /\ \A o \in Bills \ {b} : /\ \A l \in LinesOf(o) : creditQty'[l] = creditQty[l] /\ credited'[l] = credited[l]
                                     /\ Credited(o)' = Credited(o)  /\ refunded'[o] = refunded[o]  /\ Held(o)' = Held(o)
<1> DEFINE draft == Draft(b, want)
<1>1. CreditsTypeOK /\ LinesOK
  BY DEF CreditsInv
<1>2. /\ OnLines(b, draft)  /\ OnLines(b, credited)
      /\ \A l \in LinesOf(b) : /\ creditQty[l] + want[l] \in Nat  /\ creditQty[l] + want[l] <= Qty[l]
                               /\ creditQty[l] + want[l] = Qty[l] =>
                                    \A x \in Fields : credited[l][x] + draft[l][x] = Billed[l][x]
  BY <1>1, DraftIs DEF Asks
<1>3. LinesOf(b) \subseteq Lines
  BY LinesFinite
<1>4. /\ creditQty' = [l \in Lines |-> IF l \in LinesOf(b) THEN creditQty[l] + want[l] ELSE creditQty[l]]
      /\ credited'  = [l \in Lines |-> IF l \in LinesOf(b)
                         THEN [x \in Fields |-> credited[l][x] + draft[l][x]] ELSE credited[l]]
      /\ refunded'  = [refunded EXCEPT ![b] = [m \in Modes |-> @[m] + asked[m]]]
      /\ paid' = paid
  BY DEF WriteCreditNote
<1> HIDE DEF draft
<1>5. creditQty' \in [Lines -> Nat]
  BY <1>1, <1>2, <1>4 DEF CreditsTypeOK
<1>6. credited' \in [Lines -> [Fields -> Int]]
  <2>1. \A l \in LinesOf(b) : \A x \in Fields : credited[l][x] + draft[l][x] \in Int
    BY <1>2 DEF OnLines
  <2> QED
    BY <1>1, <1>4, <2>1 DEF CreditsTypeOK
<1>7. /\ refunded' \in [Bills -> [Modes -> Nat]]
      /\ \A m \in Modes : refunded'[b][m] = refunded[b][m] + asked[m]
      /\ \A o \in Bills \ {b} : refunded'[o] = refunded[o]
  <2>1. \A m \in Modes : refunded[b][m] + asked[m] \in Nat
    BY <1>1 DEF CreditsTypeOK, Asks
  <2> QED
    BY <1>1, <1>4, <2>1 DEF CreditsTypeOK
<1>8. LinesOK'
  <2> SUFFICES ASSUME NEW l \in Lines
               PROVE  /\ creditQty'[l] <= Qty[l]
                      /\ creditQty'[l] = Qty[l] => \A x \in Fields : credited'[l][x] = Billed[l][x]
    BY DEF LinesOK
  <2>1. CASE l \in LinesOf(b)
    <3>1. creditQty'[l] = creditQty[l] + want[l] /\ \A x \in Fields : credited'[l][x] = credited[l][x] + draft[l][x]
      BY <1>4, <2>1
    <3> QED
      BY <1>2, <2>1, <3>1
  <2>2. CASE l \notin LinesOf(b)
    BY <1>1, <1>4, <2>2 DEF LinesOK
  <2> QED
    BY <2>1, <2>2
<1>9. /\ Credited(b)' = Credited(b) + DraftTotal(b, want)
      /\ Credited(b) \in Int  /\ DraftTotal(b, want) \in Int
  <2>1. PICK after : after = credited'
    OBVIOUS
  <2>2. \A l \in LinesOf(b) : \A x \in Fields : after[l][x] = credited[l][x] + draft[l][x]
    BY <1>3, <1>4, <2>1
  <2>3. MoneyOn(b, after) = MoneyOn(b, credited) + MoneyOn(b, draft)
    BY <1>2, <2>2, MoneyAdds
  <2>4. MoneyOn(b, credited) \in Int /\ MoneyOn(b, draft) \in Int
    BY <1>2, LinesSum
  <2>5. Credited(b)' = MoneyOn(b, after) /\ Credited(b) = MoneyOn(b, credited) /\ DraftTotal(b, want) = MoneyOn(b, draft)
    BY <2>1, CreditedIs DEF Credited, DraftTotal, draft
  <2> QED
    BY <2>3, <2>4, <2>5
<1>10. Held(b)' = Held(b) - Sum(asked, Modes) /\ Held(b) \in Int /\ Sum(asked, Modes) \in Int
  <2>1. Summable(asked, Modes)
    BY CreditNotesAssumption DEF Summable, Asks
  <2>2. PICK after : after = refunded'[b]
    OBVIOUS
  <2>3. Sum(after, Modes) = Sum(refunded[b], Modes) + Sum(asked, Modes)
    BY <1>1, <1>7, <2>1, <2>2, HeldIs, SumAdds
  <2>4. Held(b)' = Sum(paid[b], Modes) - Sum(after, Modes)
    BY <1>4, <2>2, CreditedIs
  <2>5. Sum(asked, Modes) \in Int
    BY <2>1, SumHas
  <2> QED
    BY <1>1, <2>3, <2>4, <2>5, HeldIs DEF Held
<1>11. ASSUME NEW o \in Bills \ {b}
       PROVE  /\ \A l \in LinesOf(o) : creditQty'[l] = creditQty[l] /\ credited'[l] = credited[l]
              /\ Credited(o)' = Credited(o)  /\ Held(o)' = Held(o)
  <2>1. \A l \in LinesOf(o) : l \in Lines /\ l \notin LinesOf(b)
    BY DEF LinesOf
  <2>2. \A l \in LinesOf(o) : creditQty'[l] = creditQty[l] /\ credited'[l] = credited[l]
    BY <1>4, <2>1
  <2>3. PICK after : after = credited'
    OBVIOUS
  <2>4. OnLines(o, credited)
    BY <1>1, <2>1 DEF OnLines, CreditsTypeOK
  <2>5. MoneyOn(o, after) = MoneyOn(o, credited)
    BY <2>2, <2>3, <2>4, MoneySame
  <2>6. Credited(o)' = MoneyOn(o, after) /\ Credited(o) = MoneyOn(o, credited)
    BY <2>3, CreditedIs DEF Credited
  <2>7. Held(o)' = Held(o)
    BY <1>4, <1>7, CreditedIs DEF Held
  <2> QED
    BY <2>2, <2>5, <2>6, <2>7
<1> QED
  BY <1>4, <1>5, <1>6, <1>7, <1>8, <1>9, <1>10, <1>11

LEMMA SameCredits ==
    ASSUME CreditsInv, UNCHANGED <<creditQty, credited, paid, refunded>>, CreditsTypeOK',
           \A b \in Bills : /\ billStatus'[b] \in {"none", "unpaid"} => billStatus[b] \in {"none", "unpaid"}
                            /\ billStatus'[b] \in {"paid", "void"} => billStatus'[b] = billStatus[b]
    PROVE  CreditsInv'
<1>1. LinesOK'
  BY DEF CreditsInv, LinesOK
<1>2. \A b \in Bills : Credited(b)' = Credited(b) /\ Total(b)' = Total(b) /\ Held(b)' = Held(b)
  BY CreditedIs DEF Credited, Held
<1>3. \A b \in Bills : Untouched(b) => Untouched(b)'
  BY DEF Untouched
<1>4. BillsOK'
  BY <1>2, <1>3 DEF CreditsInv, BillsOK
<1> QED
  BY <1>1, <1>4 DEF CreditsInv

LEMMA IssueKeeps ==
    ASSUME CreditsInv, NEW b \in Bills, Issue(b)
    PROVE  CreditsInv'
<1>1. UNCHANGED <<creditQty, credited, paid, refunded>> /\ billStatus[b] = "none"
      /\ billStatus' = [billStatus EXCEPT ![b] = "unpaid"]
  BY DEF Issue
<1>2. CreditsTypeOK'
  BY <1>1 DEF CreditsInv, CreditsTypeOK, BillStates
<1> QED
  BY <1>1, <1>2, SameCredits DEF CreditsInv, CreditsTypeOK

\* The payments make the total, and nothing is credited yet.
LEMMA SettleKeeps ==
    ASSUME CreditsInv, NEW b \in Bills, NEW payments \in [Modes -> Nat], Settle(b, payments)
    PROVE  CreditsInv'
<1>1. /\ billStatus[b] = "unpaid"  /\ Sum(payments, Modes) = Total(b)
      /\ billStatus' = [billStatus EXCEPT ![b] = "paid"]
      /\ paid' = [paid EXCEPT ![b] = payments]
      /\ UNCHANGED <<creditQty, credited, refunded>>
  BY DEF Settle
<1>2. CreditsTypeOK /\ CreditsTypeOK'
  BY <1>1 DEF CreditsInv, CreditsTypeOK, BillStates
<1>3. LinesOK'
  BY <1>1 DEF CreditsInv, LinesOK
<1>4. Untouched(b)
  BY <1>1 DEF CreditsInv, BillsOK
<1>5. \A o \in Bills : Credited(o)' = Credited(o) /\ Total(o)' = Total(o)
  BY <1>1, CreditedIs DEF Credited
<1>6. Held(b)' = Total(b) - Credited(b)
  <2>1. Sum(refunded[b], Modes) = 0
    BY <1>4, CreditNotesAssumption, SumOfZeros DEF Untouched
  <2>2. Credited(b) = 0
    BY <1>4, NoMoney DEF Untouched, Credited
  <2>3. Held(b)' = Sum(payments, Modes) - Sum(refunded[b], Modes)
    BY <1>1, <1>2, CreditedIs DEF CreditsTypeOK
  <2> QED
    BY <1>1, <2>1, <2>2, <2>3, TotalIs
<1>7. \A m \in Modes : refunded'[b][m] <= paid'[b][m]
  BY <1>1, <1>2, <1>4 DEF CreditsTypeOK, Untouched
<1>8. ASSUME NEW o \in Bills \ {b}
      PROVE  /\ billStatus'[o] = billStatus[o]  /\ paid'[o] = paid[o]  /\ Held(o)' = Held(o)
             /\ Untouched(o) => Untouched(o)'
  <2>1. billStatus'[o] = billStatus[o] /\ paid'[o] = paid[o]
    BY <1>1, <1>2 DEF CreditsTypeOK
  <2> QED
    BY <1>1, <2>1, CreditedIs DEF Held, Untouched
<1>9. BillsOK'
  <2> SUFFICES ASSUME NEW o \in Bills
               PROVE  /\ billStatus'[o] \in {"none", "unpaid"} => Untouched(o)'
                      /\ billStatus'[o] = "paid" => Held(o)' = Total(o)' - Credited(o)'
                      /\ \A m \in Modes : refunded'[o][m] <= paid'[o][m]
                      /\ billStatus'[o] = "void" => Held(o)' = 0 /\ Credited(o)' = Total(o)'
    BY DEF BillsOK
  <2>1. CASE o = b
    <3>1. billStatus'[b] = "paid"
      BY <1>1, <1>2 DEF CreditsTypeOK
    <3> QED
      BY <2>1, <3>1, <1>5, <1>6, <1>7
  <2>2. CASE o # b
    BY <2>2, <1>1, <1>5, <1>8 DEF CreditsInv, BillsOK
  <2> QED
    BY <2>1, <2>2
<1> QED
  BY <1>2, <1>3, <1>9 DEF CreditsInv

\* A credit note keeps the invariant when it does for its own bill.
LEMMA CreditNoteKeeps ==
    ASSUME CreditsInv, NEW b \in Bills, NEW want, NEW asked, Asks(b, want, asked),
           \A l \in LinesOf(b) : want[l] <= Left(l),
           WriteCreditNote(b, want, asked),
           NEW state \in {"paid", "void"}, billStatus' = [billStatus EXCEPT ![b] = state],
           state = "paid" => Held(b)' = Total(b) - Credited(b)',
           state = "void" => Held(b)' = 0 /\ Credited(b)' = Total(b),
           \A m \in Modes : refunded[b][m] + asked[m] <= paid[b][m]
    PROVE  CreditsInv'
<1>1. CreditsTypeOK'
  BY CreditNoteIs DEF CreditsInv, CreditsTypeOK, BillStates
<1>2. ASSUME NEW o \in Bills \ {b}, Untouched(o) PROVE Untouched(o)'
  <2>1. /\ \A l \in LinesOf(o) : creditQty'[l] = creditQty[l] /\ credited'[l] = credited[l]
        /\ refunded'[o] = refunded[o]  /\ paid' = paid
    BY CreditNoteIs
  <2> QED
    BY <1>2, <2>1 DEF Untouched
<1>3. BillsOK'
  <2> SUFFICES ASSUME NEW o \in Bills
               PROVE  /\ billStatus'[o] \in {"none", "unpaid"} => Untouched(o)'
                      /\ billStatus'[o] = "paid" => Held(o)' = Total(o)' - Credited(o)'
                      /\ \A m \in Modes : refunded'[o][m] <= paid'[o][m]
                      /\ billStatus'[o] = "void" => Held(o)' = 0 /\ Credited(o)' = Total(o)'
    BY DEF BillsOK
  <2>1. Total(o)' = Total(o) /\ paid' = paid
    BY CreditedIs, CreditNoteIs
  <2>2. CASE o = b
    <3>1. billStatus'[b] = state
      BY DEF CreditsInv, CreditsTypeOK
    <3>2. \A m \in Modes : refunded'[b][m] <= paid'[b][m]
      BY <2>1, CreditNoteIs
    <3> QED
      BY <2>1, <2>2, <3>1, <3>2
  <2>3. CASE o # b
    <3>1. /\ billStatus'[o] = billStatus[o]  /\ Credited(o)' = Credited(o)
          /\ refunded'[o] = refunded[o]  /\ Held(o)' = Held(o)
      BY <2>3, CreditNoteIs
    <3> QED
      BY <1>2, <2>1, <2>3, <3>1 DEF CreditsInv, BillsOK
  <2> QED
    BY <2>2, <2>3
<1>4. LinesOK'
  BY CreditNoteIs
<1> QED
  BY <1>1, <1>3, <1>4 DEF CreditsInv

\* Within the methods: no method gives back more than it still holds.
LEMMA MethodsHold ==
    ASSUME CreditsInv, NEW b \in Bills, NEW asked \in [Modes -> Nat], WithinMethods(b, asked), NEW m \in Modes
    PROVE  refunded[b][m] + asked[m] <= paid[b][m]
<1>1. paid[b][m] \in Nat /\ refunded[b][m] \in Nat /\ asked[m] \in Nat /\ refunded[b][m] <= paid[b][m]
  BY DEF CreditsInv, CreditsTypeOK, BillsOK
<1>2. asked[m] <= HeldBy(b, m)
  BY DEF WithinMethods
<1> QED
  BY <1>1, <1>2 DEF HeldBy

LEMMA RefundKeeps ==
    ASSUME CreditsInv, NEW b \in Bills, NEW want, NEW asked, Asks(b, want, asked), Refund(b, want, asked)
    PROVE  CreditsInv'
<1>1. /\ billStatus[b] = "paid"  /\ billStatus' = billStatus  /\ WriteCreditNote(b, want, asked)
      /\ \A l \in LinesOf(b) : want[l] <= Left(l)
      /\ Sum(asked, Modes) = DraftTotal(b, want)  /\ WithinMethods(b, asked)
  BY DEF Refund, Draftable, RefundMatches
<1>2. billStatus' = [billStatus EXCEPT ![b] = "paid"]
  BY <1>1 DEF CreditsInv, CreditsTypeOK
<1>3. Held(b) = Total(b) - Credited(b) /\ Total(b) \in Int
  BY <1>1, TotalIs DEF CreditsInv, BillsOK
<1>4. Held(b)' = Total(b) - Credited(b)'
  BY <1>1, <1>3, CreditNoteIs
<1>5. \A m \in Modes : refunded[b][m] + asked[m] <= paid[b][m]
  BY <1>1, MethodsHold DEF Asks
<1> QED
  BY <1>1, <1>2, <1>4, <1>5, CreditNoteKeeps

\* A void credits the rest of the bill and gives back all that is held.
LEMMA VoidKeeps ==
    ASSUME CreditsInv, NEW b \in Bills, NEW asked \in [Modes -> Nat], Void(b, asked)
    PROVE  CreditsInv'
<1> DEFINE want == Remainder(b)
<1>1. /\ billStatus[b] \in {"unpaid", "paid"}  /\ billStatus' = [billStatus EXCEPT ![b] = "void"]
      /\ WriteCreditNote(b, want, asked)  /\ VoidMatches(b, asked)
  BY DEF Void
<1>2. CreditsTypeOK /\ LinesOK
  BY DEF CreditsInv
<1>3. PICK units : units = want
  OBVIOUS
<1>4. Asks(b, units, asked) /\ \A l \in LinesOf(b) : units[l] <= Left(l)
  BY <1>2, <1>3, RemainderIs DEF Asks
<1>5. WriteCreditNote(b, units, asked)
  BY <1>1, <1>3
<1>6. /\ DraftTotal(b, units) = Total(b) - Credited(b)
      /\ DraftTotal(b, units) \in Int  /\ Credited(b) \in Int  /\ Total(b) \in Int
  BY <1>2, <1>3, RemainderIs
<1>7. Credited(b)' = Total(b)
  BY <1>4, <1>5, <1>6, CreditNoteIs
<1>8. Held(b)' = Held(b) - Sum(asked, Modes) /\ Held(b) \in Int /\ Sum(asked, Modes) \in Int
  BY <1>4, <1>5, CreditNoteIs
<1>9. CASE billStatus[b] = "unpaid"
  <2>1. Untouched(b) /\ Sum(asked, Modes) = 0
    BY <1>1, <1>9 DEF CreditsInv, BillsOK, VoidMatches
  <2>2. \A m \in Modes : asked[m] = 0
    BY <2>1, CreditNotesAssumption, SumOfNaturals
  <2>3. \A m \in Modes : refunded[b][m] + asked[m] <= paid[b][m]
    BY <2>1, <2>2 DEF Untouched
  <2>4. Held(b) = 0
    <3>1. Sum(paid[b], Modes) = 0 /\ Sum(refunded[b], Modes) = 0
      BY <2>1, CreditNotesAssumption, SumOfZeros DEF Untouched
    <3> QED
      BY <3>1 DEF Held
  <2>5. Held(b)' = 0
    BY <1>8, <2>1, <2>4
  <2> QED
    BY <1>1, <1>4, <1>5, <1>7, <2>3, <2>5, CreditNoteKeeps
<1>10. CASE billStatus[b] = "paid"
  <2>1. Held(b) = DraftTotal(b, units) /\ Sum(asked, Modes) = DraftTotal(b, units) /\ WithinMethods(b, asked)
    BY <1>1, <1>3, <1>10 DEF VoidMatches, RefundMatches
  <2>2. \A m \in Modes : refunded[b][m] + asked[m] <= paid[b][m]
    BY <2>1, MethodsHold
  <2>3. Held(b)' = 0
    BY <1>6, <1>8, <2>1
  <2> QED
    BY <1>1, <1>4, <1>5, <1>7, <2>2, <2>3, CreditNoteKeeps
<1> QED
  BY <1>1, <1>9, <1>10

-----------------------------------------------------------------------------
(* The theorem.                                                            *)

LEMMA CreditsBegin ==
    Init => CreditsInv
<1> SUFFICES ASSUME Init PROVE CreditsInv
  OBVIOUS
<1>1. CreditsTypeOK
  BY DEF Init, CreditsInit, CreditsTypeOK, BillStates
<1>2. \A l \in Lines : creditQty[l] = 0 /\ Qty[l] \in Nat \ {0}
  BY CreditNotesAssumption DEF Init, CreditsInit
<1>3. LinesOK
  BY <1>2 DEF LinesOK
<1>4. ASSUME NEW b \in Bills PROVE Untouched(b) /\ billStatus[b] = "none"
  BY LinesFinite DEF Init, CreditsInit, Untouched
<1>5. BillsOK
  BY <1>4 DEF BillsOK, Untouched
<1> QED
  BY <1>1, <1>3, <1>5 DEF CreditsInv

LEMMA AmountsAreNat ==
    ASSUME NEW b \in Bills, NEW asked \in Amounts(b)
    PROVE  asked \in [Modes -> Nat]
<1>1. \A m \in Modes : asked[m] \in 0..Total(b)
  BY DEF Amounts
<1>2. \A m \in Modes : asked[m] \in Nat
  BY <1>1, TotalIs
<1> QED
  BY <1>2 DEF Amounts

LEMMA CreditsStep ==
    CreditsInv /\ [Next]_loyaltyVars => CreditsInv'
<1> SUFFICES ASSUME CreditsInv, [Next]_loyaltyVars PROVE CreditsInv'
  OBVIOUS
<1>1. ASSUME UNCHANGED creditVars PROVE CreditsInv'
  <2>1. UNCHANGED <<billStatus, creditQty, credited, paid, refunded>>
    BY <1>1 DEF creditVars
  <2>2. CreditsTypeOK'
    BY <2>1 DEF CreditsInv, CreditsTypeOK
  <2> QED
    BY <2>1, <2>2, SameCredits
<1>2. CASE \E b \in Bills, r \in RedeemChoices, e \in EarnChoices, m \in Months : IssueBill(b, r, e, m)
  BY <1>2, IssueKeeps DEF IssueBill
<1>3. CASE \E b \in Bills : \E payments \in Amounts(b) : SettleBill(b, payments)
  BY <1>3, SettleKeeps, AmountsAreNat DEF SettleBill
<1>4. CASE \E b \in Bills : \E want \in Wants(b), asked \in Amounts(b) : RefundBill(b, want, asked)
  <2>0. PICK b \in Bills : \E want \in Wants(b), asked \in Amounts(b) : Refund(b, want, asked)
    BY <1>4 DEF RefundBill
  <2>1. PICK want \in Wants(b), asked \in Amounts(b) : Refund(b, want, asked)
    BY <2>0
  <2>2. PICK n : want \in [LinesOf(b) -> 0..n]
    BY DEF Wants
  <2>3. \A l \in LinesOf(b) : want[l] \in Nat
    BY <2>2
  <2> QED
    BY <2>1, <2>3, AmountsAreNat, RefundKeeps DEF Asks
<1>5. CASE \E b \in Bills : \E asked \in Amounts(b), m \in Months : VoidBill(b, asked, m)
  BY <1>5, VoidKeeps, AmountsAreNat DEF VoidBill
<1>6. CASE \E p \in AdjustChoices, m \in Months : Adjust(p, m)
  BY <1>1, <1>6 DEF Adjust
<1>7. CASE SweepAll \/ TimePasses \/ UNCHANGED loyaltyVars
  BY <1>1, <1>7 DEF SweepAll, TimePasses, loyaltyVars
<1> QED
  BY <1>2, <1>3, <1>4, <1>5, <1>6, <1>7 DEF Next

\* Whatever is refunded and voided in whatever portions, credits and money agree.
THEOREM CreditsMatchTheMoney == Spec => []CreditsMatchMoney
<1>1. CreditsInv => CreditsMatchMoney
  <2> SUFFICES ASSUME CreditsInv PROVE CreditsMatchMoney
    OBVIOUS
  <2>1. \A b \in Bills : DraftTotal(b, Remainder(b)) = Total(b) - Credited(b)
    BY RemainderIs DEF CreditsInv
  <2> QED
    BY <2>1 DEF CreditsInv, BillsOK, CreditsMatchMoney
<1> QED
  BY <1>1, CreditsBegin, CreditsStep, PTL DEF Spec

-----------------------------------------------------------------------------
(* More on sums.                                                           *)

\* One thing more or less.
LEMMA SumRemoves ==
    ASSUME NEW S, NEW f, Summable(f, S), NEW x \in S
    PROVE  /\ Sum(f, S) = f[x] + Sum(f, S \ {x})
           /\ Sum(f, S) \in Int  /\ Sum(f, S \ {x}) \in Int  /\ f[x] \in Int  /\ Summable(f, S \ {x})
<1>1. PICK W : Sums(S, f, W) /\ Sum(f, S) = W[S]
  BY SumHas
<1>2. Summable(f, S \ {x}) /\ f[x] \in Int
  BY FS_RemoveElement DEF Summable
<1> DEFINE V == [T \in SUBSET (S \ {x}) |-> W[T]]
<1>3. Sums(S \ {x}, f, V)
  <2>1. V \in [SUBSET (S \ {x}) -> Int] /\ V[{}] = 0
    BY <1>1 DEF Sums
  <2>2. \A T \in SUBSET (S \ {x}) : \A y \in T : V[T] = f[y] + V[T \ {y}]
    BY <1>1 DEF Sums
  <2> HIDE DEF V
  <2> QED
    BY <2>1, <2>2 DEF Sums
<1>4. Sum(f, S \ {x}) = V[S \ {x}]
  <2> HIDE DEF V
  <2> QED
    BY <1>2, <1>3, SumIs
<1>5. W[S] = f[x] + W[S \ {x}] /\ W[S] \in Int /\ W[S \ {x}] \in Int
  BY <1>1 DEF Sums
<1> QED
  BY <1>1, <1>2, <1>4, <1>5

LEMMA SumOfNone ==
    ASSUME NEW f
    PROVE  Sum(f, {}) = 0 /\ Summable(f, {})
BY SumOfZeros, FS_EmptySet DEF Summable

LEMMA SumInserts ==
    ASSUME NEW S, NEW f, Summable(f, S), NEW x, x \notin S, f[x] \in Int
    PROVE  Sum(f, S \cup {x}) = Sum(f, S) + f[x] /\ Summable(f, S \cup {x})
<1>1. Summable(f, S \cup {x})
  BY FS_AddElement DEF Summable
<1>2. (S \cup {x}) \ {x} = S
  OBVIOUS
<1>3. /\ Sum(f, S \cup {x}) = f[x] + Sum(f, (S \cup {x}) \ {x})
      /\ Sum(f, (S \cup {x}) \ {x}) \in Int
  BY <1>1, SumRemoves
<1>4. Sum(f, (S \cup {x}) \ {x}) = Sum(f, S)
  BY <1>2
<1> QED
  BY <1>1, <1>3, <1>4

LEMMA PartSummable ==
    ASSUME NEW S, NEW f, Summable(f, S), NEW T \in SUBSET S
    PROVE  Summable(f, T) /\ Summable(f, S \ T) /\ Sum(f, T) \in Int /\ Sum(f, S \ T) \in Int
<1>1. Summable(f, T) /\ Summable(f, S \ T)
  BY FS_Subset DEF Summable
<1> QED
  BY <1>1, SumHas

\* A set and the rest.
LEMMA SumSplits ==
    ASSUME NEW S, NEW f, Summable(f, S), NEW T \in SUBSET S
    PROVE  Sum(f, S) = Sum(f, T) + Sum(f, S \ T) /\ Sum(f, T) \in Int /\ Sum(f, S \ T) \in Int
<1> DEFINE Q == {U \in SUBSET T : Sum(f, (S \ T) \cup U) # Sum(f, U) + Sum(f, S \ T)}
<1>1. IsFiniteSet(T) /\ Summable(f, T)
  BY PartSummable DEF Summable
<1>2. ASSUME Q # {} PROVE FALSE
  <2>1. PICK U \in Q : \A x \in U : U \ {x} \notin Q
    <3> HIDE DEF Q
    <3>1. Q \in SUBSET SUBSET T
      BY DEF Q
    <3> QED
      BY <1>1, <1>2, <3>1, SmallestSet
  <2>2. CASE U = {}
    <3>1. (S \ T) \cup U = S \ T /\ Sum(f, S \ T) \in Int
      BY <2>2, PartSummable
    <3> QED
      BY <2>1, <2>2, <3>1, SumOfNone
  <2>3. ASSUME NEW x \in U PROVE FALSE
    <3>1. U \ {x} \in SUBSET T /\ (S \ T) \cup U \in SUBSET S /\ U \in SUBSET S
      BY <2>1
    <3>2. Sum(f, (S \ T) \cup (U \ {x})) = Sum(f, U \ {x}) + Sum(f, S \ T)
      BY <2>1, <3>1
    <3>3. ((S \ T) \cup U) \ {x} = (S \ T) \cup (U \ {x}) /\ x \in (S \ T) \cup U
      BY <3>1
    <3>4. Summable(f, (S \ T) \cup U) /\ Summable(f, U) /\ Sum(f, S \ T) \in Int
      BY <3>1, PartSummable
    <3>5. /\ Sum(f, (S \ T) \cup U) = f[x] + Sum(f, ((S \ T) \cup U) \ {x})
          /\ f[x] \in Int
      BY <3>3, <3>4, SumRemoves
    <3>6. Sum(f, U) = f[x] + Sum(f, U \ {x}) /\ Sum(f, U \ {x}) \in Int
      BY <3>4, SumRemoves
    <3>7. Sum(f, ((S \ T) \cup U) \ {x}) = Sum(f, (S \ T) \cup (U \ {x}))
      BY <3>3
    <3>8. Sum(f, (S \ T) \cup U) = Sum(f, U) + Sum(f, S \ T)
      BY <3>2, <3>4, <3>5, <3>6, <3>7
    <3> QED
      BY <2>1, <3>8
  <2> QED
    BY <2>2, <2>3
<1>3. (S \ T) \cup T = S
  OBVIOUS
<1> QED
  BY <1>2, <1>3, PartSummable

\* Nothing is left of a sum without what is zero.
LEMMA SumWithoutZeros ==
    ASSUME NEW S, NEW f, Summable(f, S), NEW T \in SUBSET S, \A x \in S \ T : f[x] = 0
    PROVE  Sum(f, S) = Sum(f, T)
<1>1. Sum(f, S \ T) = 0
  BY PartSummable, SumOfZeros DEF Summable
<1> QED
  BY <1>1, SumSplits

LEMMA SumOfNats ==
    ASSUME NEW S, IsFiniteSet(S), NEW f, \A x \in S : f[x] \in Nat
    PROVE  Sum(f, S) \in Nat /\ Summable(f, S) /\ \A x \in S : f[x] <= Sum(f, S)
<1>1. Summable(f, S)
  BY DEF Summable
<1> DEFINE Q == {T \in SUBSET S : ~ (Sum(f, T) \in Nat)}
<1>2. ASSUME Q # {} PROVE FALSE
  <2>1. PICK T \in Q : \A x \in T : T \ {x} \notin Q
    <3> HIDE DEF Q
    <3>1. Q \in SUBSET SUBSET S
      BY DEF Q
    <3> QED
      BY <1>2, <3>1, SmallestSet
  <2>2. CASE T = {}
    BY <2>1, <2>2, SumOfNone
  <2>3. ASSUME NEW x \in T PROVE FALSE
    <3>1. Sum(f, T \ {x}) \in Nat /\ f[x] \in Nat
      BY <2>1
    <3>2. Summable(f, T)
      BY <1>1, <2>1, PartSummable
    <3>3. Sum(f, T) = f[x] + Sum(f, T \ {x})
      BY <3>2, SumRemoves
    <3> QED
      BY <2>1, <3>1, <3>3
  <2> QED
    BY <2>2, <2>3
<1>3. ASSUME NEW x \in S PROVE f[x] <= Sum(f, S)
  <2>1. Sum(f, S) = f[x] + Sum(f, S \ {x})
    BY <1>1, SumRemoves
  <2>2. Sum(f, S \ {x}) \in Nat
    BY <1>2
  <2> QED
    BY <2>1, <2>2
<1> QED
  BY <1>1, <1>2, <1>3

LEMMA SumBelow ==
    ASSUME NEW S, NEW f, NEW g, Summable(f, S), Summable(g, S), \A x \in S : f[x] <= g[x]
    PROVE  Sum(f, S) <= Sum(g, S)
<1> DEFINE d == [x \in S |-> g[x] - f[x]]
<1>1. \A x \in S : d[x] \in Nat /\ g[x] = f[x] + d[x]
  BY DEF Summable
<1>2. Sum(d, S) \in Nat /\ Summable(d, S)
  <2> HIDE DEF d
  <2> QED
    BY <1>1, SumOfNats DEF Summable
<1>3. Sum(g, S) = Sum(f, S) + Sum(d, S)
  <2> HIDE DEF d
  <2> QED
    BY <1>1, <1>2, SumAdds
<1>4. Sum(f, S) \in Int
  BY SumHas
<1> QED
  BY <1>2, <1>3, <1>4

\* Two functions that differ at one place.
LEMMA SumDiffers ==
    ASSUME NEW S, NEW f, NEW g, Summable(f, S), NEW x \in S, g[x] \in Int, \A y \in S \ {x} : g[y] = f[y]
    PROVE  /\ Sum(f, S) = f[x] + Sum(f, S \ {x})  /\ Sum(g, S) = g[x] + Sum(f, S \ {x})
           /\ Summable(g, S)  /\ f[x] \in Int  /\ Sum(f, S \ {x}) \in Int
<1>1. Summable(g, S)
  BY DEF Summable
<1>2. /\ Sum(f, S) = f[x] + Sum(f, S \ {x})  /\ Sum(f, S \ {x}) \in Int
      /\ Summable(f, S \ {x})  /\ f[x] \in Int  /\ Sum(f, S) \in Int
  BY SumRemoves
<1>3. Sum(g, S) = g[x] + Sum(g, S \ {x})
  BY <1>1, SumRemoves
<1>4. Sum(g, S \ {x}) = Sum(f, S \ {x})
  BY <1>2, SumSame
<1> QED
  BY <1>1, <1>2, <1>3, <1>4

-----------------------------------------------------------------------------
(* Taking points from lots.                                                *)

\* Lots 1..n that hold points.
Holds(f, n) == f \in [1..n -> Nat]

LEMMA LotsSum ==
    ASSUME NEW n \in Nat, NEW f, Holds(f, n), NEW S \in SUBSET (1..n)
    PROVE  IsFiniteSet(S) /\ Summable(f, S) /\ Sum(f, S) \in Nat /\ \A i \in S : f[i] <= Sum(f, S)
<1>1. IsFiniteSet(S)
  <2>1. IsFiniteSet(1..n)
    BY FS_Interval
  <2> QED
    BY <2>1, FS_Subset
<1>2. \A i \in S : f[i] \in Nat
  BY DEF Holds
<1> QED
  BY <1>1, <1>2, SumOfNats

LEMMA UsedIs ==
    ASSUME NEW n \in Nat, NEW t, Holds(t.left, n), t.owed \in Nat, NEW from \in SUBSET (1..n), NEW i \in 1..n
    PROVE  /\ Used(t, from, i) \in Nat  /\ Used(t, from, i) <= t.left[i]  /\ t.left[i] \in Nat
           /\ i \notin from \/ t.owed = 0 => Used(t, from, i) = 0
<1>1. {j \in from : j < i} \in SUBSET (1..n)
  OBVIOUS
<1>2. Sum(t.left, {j \in from : j < i}) \in Nat
  BY <1>1, LotsSum
<1>3. t.left[i] \in Nat
  BY DEF Holds
<1>4. AtLeastZero(t.owed - Sum(t.left, {j \in from : j < i})) \in Nat
  BY <1>2 DEF AtLeastZero
<1>5. t.owed = 0 => AtLeastZero(t.owed - Sum(t.left, {j \in from : j < i})) = 0
  BY <1>2 DEF AtLeastZero
<1> QED
  BY <1>3, <1>4, <1>5 DEF Used, Smaller

\* What the lots held is what they hold now and what is not owed any more, the lots in question first.
LEMMA TakeIs ==
    ASSUME NEW n \in Nat, NEW t, Holds(t.left, n), t.owed \in Nat, NEW from \in SUBSET (1..n), NEW u, u = Take(t, from)
    PROVE  /\ Holds(u.left, n)  /\ u.owed \in Nat
           /\ u.owed = AtLeastZero(t.owed - Sum(t.left, from))
           /\ \A i \in 1..n : u.left[i] <= t.left[i] /\ (i \notin from => u.left[i] = t.left[i])
           /\ Sum(u.left, from) = AtLeastZero(Sum(t.left, from) - t.owed)
           /\ Sum(t.left, 1..n) - t.owed = Sum(u.left, 1..n) - u.owed
           /\ t.owed = 0 => u.left = t.left
<1>1. \A i \in 1..n : /\ Used(t, from, i) \in Nat  /\ Used(t, from, i) <= t.left[i]  /\ t.left[i] \in Nat
                      /\ i \notin from \/ t.owed = 0 => Used(t, from, i) = 0
  BY UsedIs
<1>2. u.left = [i \in 1..n |-> t.left[i] - Used(t, from, i)] /\ u.owed = AtLeastZero(t.owed - Sum(t.left, from))
  BY DEF Take, Holds
<1>3. Holds(u.left, n)
  BY <1>1, <1>2 DEF Holds
<1>4. u.owed \in Nat
  BY <1>2, LotsSum DEF AtLeastZero
<1>5. \A i \in 1..n : u.left[i] <= t.left[i] /\ (i \notin from => u.left[i] = t.left[i])
  BY <1>1, <1>2
<1> DEFINE upTo(m) == {j \in from : j <= m}
           Q == {m \in 0..n : Sum(u.left, upTo(m)) # AtLeastZero(Sum(t.left, upTo(m)) - t.owed)}
<1>6. (\A m \in 0..n : upTo(m) \in SUBSET (1..n)) /\ \A j \in from : j \in Int /\ 1 <= j /\ j <= n
  <2>1. \A j \in from : j \in 1..n
    OBVIOUS
  <2>2. \A j \in from : j \in Int /\ 1 <= j /\ j <= n
    BY <2>1
  <2> QED
    BY <2>1, <2>2
<1>7. ASSUME Q # {} PROVE FALSE
  <2>1. PICK m \in Q : \A o \in Q : m <= o
    <3>1. Q \in SUBSET Nat
      OBVIOUS
    <3> HIDE DEF Q
    <3> QED
      BY <1>7, <3>1, LeastNatural
  <2>2. CASE m = 0
    <3>1. upTo(m) = {}
      BY <1>6, <2>2
    <3>2. Sum(u.left, upTo(m)) = 0 /\ Sum(t.left, upTo(m)) = 0
      BY <3>1, SumOfNone
    <3> QED
      BY <2>1, <3>2 DEF AtLeastZero
  <2>3. CASE m # 0
    <3>1. m - 1 \in 0..n /\ m \in 1..n
      BY <2>1, <2>3
    <3>2. m - 1 \notin Q
      <4>1. ~ (m <= m - 1)
        BY <3>1
      <4> HIDE DEF Q
      <4> QED
        BY <2>1, <4>1
    <3>3. Sum(u.left, upTo(m-1)) = AtLeastZero(Sum(t.left, upTo(m-1)) - t.owed)
      BY <3>1, <3>2
    <3>4. CASE m \notin from
      <4>1. upTo(m) = upTo(m-1)
        <5>1. \A j \in from : j <= m <=> j <= m - 1
          BY <1>6, <3>1, <3>4
        <5> QED
          BY <5>1
      <4> QED
        BY <2>1, <3>3, <4>1
    <3>5. CASE m \in from
      <4>1. upTo(m) = upTo(m-1) \cup {m} /\ m \notin upTo(m-1) /\ {j \in from : j < m} = upTo(m-1)
        <5>1. \A j \in from : (j <= m <=> j <= m - 1 \/ j = m) /\ (j < m <=> j <= m - 1)
          BY <1>6, <3>1
        <5>2. ~ (m <= m - 1) /\ m <= m
          BY <3>1
        <5> QED
          BY <3>5, <5>1, <5>2
      <4> HIDE DEF upTo
      <4>2. /\ Summable(u.left, upTo(m-1))  /\ Summable(t.left, upTo(m-1))
            /\ Sum(u.left, upTo(m-1)) \in Nat  /\ Sum(t.left, upTo(m-1)) \in Nat
        BY <1>3, <1>6, <3>1, LotsSum
      <4>3. t.left[m] \in Nat /\ u.left[m] \in Nat
        BY <1>3, <3>1 DEF Holds
      <4>4. Sum(u.left, upTo(m)) = Sum(u.left, upTo(m-1)) + u.left[m]
        BY <4>1, <4>2, <4>3, SumInserts
      <4>5. Sum(t.left, upTo(m)) = Sum(t.left, upTo(m-1)) + t.left[m]
        BY <4>1, <4>2, <4>3, SumInserts
      <4>6. Used(t, from, m) = Smaller(t.left[m], AtLeastZero(t.owed - Sum(t.left, upTo(m-1))))
        BY <3>5, <4>1 DEF Used
      <4>7. u.left[m] = t.left[m] - Smaller(t.left[m], AtLeastZero(t.owed - Sum(t.left, upTo(m-1))))
        BY <1>2, <3>1, <4>6
      <4>8. Sum(u.left, upTo(m)) = AtLeastZero(Sum(t.left, upTo(m)) - t.owed)
        BY <3>3, <4>2, <4>3, <4>4, <4>5, <4>7 DEF AtLeastZero, Smaller
      <4> QED
        BY <2>1, <4>8
    <3> QED
      BY <3>4, <3>5
  <2> QED
    BY <2>2, <2>3
<1>8. Sum(u.left, from) = AtLeastZero(Sum(t.left, from) - t.owed)
  <2>1. upTo(n) = from
    BY <1>6
  <2>0. n \in 0..n
    OBVIOUS
  <2>2. Sum(u.left, upTo(n)) = AtLeastZero(Sum(t.left, upTo(n)) - t.owed)
    BY <1>7, <2>0
  <2> QED
    BY <2>1, <2>2
<1>9. Sum(t.left, 1..n) - t.owed = Sum(u.left, 1..n) - u.owed
  <2>1. Summable(t.left, 1..n) /\ Summable(u.left, 1..n)
    BY <1>3, LotsSum
  <2>2. /\ Sum(t.left, 1..n) = Sum(t.left, from) + Sum(t.left, (1..n) \ from)
        /\ Sum(u.left, 1..n) = Sum(u.left, from) + Sum(u.left, (1..n) \ from)
        /\ Sum(t.left, from) \in Int  /\ Sum(t.left, (1..n) \ from) \in Int
    BY <2>1, SumSplits
  <2>3. Summable(t.left, (1..n) \ from)
    BY <2>1, PartSummable
  <2>4. Sum(u.left, (1..n) \ from) = Sum(t.left, (1..n) \ from)
    BY <1>5, <2>3, SumSame
  <2> QED
    BY <1>2, <1>8, <2>2, <2>4 DEF AtLeastZero
<1>10. t.owed = 0 => u.left = t.left
  <2>1. ASSUME t.owed = 0 PROVE \A i \in 1..n : u.left[i] = t.left[i]
    BY <1>1, <1>2, <2>1
  <2> QED
    BY <1>3, <2>1 DEF Holds
<1> QED
  BY <1>2, <1>3, <1>4, <1>5, <1>8, <1>9, <1>10
-----------------------------------------------------------------------------
(* The replay, row by row.                                                 *)

Nothing == [left |-> <<>>, debt |-> 0]

\* F is what the first n rows of L come to, row by row.
Replays(L, n, F) == F = [k \in 0..n |-> IF k = 0 THEN Nothing ELSE Apply(L, F[k-1], k)]

LEMMA ReplaysGrow ==
    ASSUME NEW L, NEW n \in Nat, NEW F, Replays(L, n, F)
    PROVE  \E G : Replays(L, n + 1, G)
<1> DEFINE G == [k \in 0..n+1 |-> IF k = n + 1 THEN Apply(L, F[n], n + 1) ELSE F[k]]
<1>1. ASSUME NEW k \in 0..n+1 PROVE G[k] = IF k = 0 THEN Nothing ELSE Apply(L, G[k-1], k)
  <2>1. CASE k = 0
    <3>1. G[k] = F[k]
      BY <2>1
    <3> QED
      BY <2>1, <3>1 DEF Replays
  <2>2. CASE k \in 1..n
    <3>1. k - 1 \in 0..n /\ k \in 0..n /\ k # 0
      BY <2>2
    <3>2. k # n + 1 /\ k - 1 # n + 1
      BY <2>2
    <3>3. G[k] = F[k] /\ G[k-1] = F[k-1]
      BY <3>1, <3>2
    <3>4. F[k] = Apply(L, F[k-1], k)
      BY <3>1 DEF Replays
    <3> HIDE DEF G
    <3> QED
      BY <3>1, <3>3, <3>4
  <2>3. CASE k = n + 1
    <3>1. (n + 1) - 1 = n /\ n + 1 # 0 /\ n # n + 1 /\ n \in 0..n+1
      OBVIOUS
    <3>2. G[n] = F[n] /\ G[n+1] = Apply(L, F[n], n + 1)
      BY <3>1
    <3> HIDE DEF G
    <3> QED
      BY <2>3, <3>1, <3>2
  <2> QED
    BY <2>1, <2>2, <2>3
<1>2. G = [k \in 0..n+1 |-> G[k]]
  OBVIOUS
<1>3. Replays(L, n + 1, G)
  <2> HIDE DEF G
  <2> QED
    BY <1>1, <1>2 DEF Replays
<1> QED
  BY <1>3

LEMMA AfterIs ==
    ASSUME NEW L, Len(L) \in Nat
    PROVE  /\ After(L)[0] = Nothing  /\ Replay(L) = After(L)[Len(L)]
           /\ \A k \in 1..Len(L) : After(L)[k] = Apply(L, After(L)[k-1], k)
<1> DEFINE Q == {n \in Nat : ~ \E F : Replays(L, n, F)}
<1>1. ASSUME Q # {} PROVE FALSE
  <2>1. PICK n \in Q : \A m \in Q : n <= m
    <3>1. Q \in SUBSET Nat
      OBVIOUS
    <3> HIDE DEF Q
    <3> QED
      BY <1>1, <3>1, LeastNatural
  <2>2. CASE n = 0
    <3> DEFINE F == [k \in 0..0 |-> Nothing]
    <3>1. F = [k \in 0..0 |-> IF k = 0 THEN Nothing ELSE Apply(L, F[k-1], k)]
      OBVIOUS
    <3>2. Replays(L, n, F)
      <4> HIDE DEF F
      <4> QED
        BY <2>2, <3>1 DEF Replays
    <3> QED
      BY <2>1, <3>2
  <2>3. CASE n # 0
    <3>1. n - 1 \in Nat /\ (n - 1) + 1 = n /\ ~ (n <= n - 1)
      BY <2>1, <2>3
    <3>2. PICK F : Replays(L, n - 1, F)
      BY <2>1, <3>1
    <3>3. \E G : Replays(L, (n - 1) + 1, G)
      BY <3>1, <3>2, ReplaysGrow
    <3> QED
      BY <2>1, <3>1, <3>3
  <2> QED
    BY <2>2, <2>3
<1>2. \E F : Replays(L, Len(L), F)
  BY <1>1
<1>3. Replays(L, Len(L), After(L))
  BY <1>2 DEF Replays, After, Nothing
<1> QED
  BY <1>3 DEF Replays, Replay

\* M continues L.
Continues(M, L) == Len(L) <= Len(M) /\ \A i \in 1..Len(L) : M[i] = L[i]

\* What a row comes to depends on no later row.
LEMMA ApplySame ==
    ASSUME NEW L, NEW M, Len(L) \in Nat, Len(M) \in Nat, Continues(M, L), NEW k \in 1..Len(L), NEW was
    PROVE  Apply(M, was, k) = Apply(L, was, k)
<1>1. M[k] = L[k] /\ \A i \in 1..k-1 : M[i] = L[i]
  BY DEF Continues
<1>2. OwnLots(M, k) = OwnLots(L, k)
  BY <1>1 DEF OwnLots
<1>3. GoodLots(M, k) = GoodLots(L, k)
  BY <1>1 DEF GoodLots
<1> QED
  BY <1>1, <1>2, <1>3 DEF Apply

LEMMA AfterSame ==
    ASSUME NEW L, NEW M, Len(L) \in Nat, Len(M) \in Nat, Continues(M, L)
    PROVE  \A k \in 0..Len(L) : After(M)[k] = After(L)[k]
<1> DEFINE Q == {k \in 0..Len(L) : After(M)[k] # After(L)[k]}
<1>1. ASSUME Q # {} PROVE FALSE
  <2>1. PICK k \in Q : \A m \in Q : k <= m
    <3>1. Q \in SUBSET Nat
      OBVIOUS
    <3> HIDE DEF Q
    <3> QED
      BY <1>1, <3>1, LeastNatural
  <2>2. CASE k = 0
    BY <2>1, <2>2, AfterIs
  <2>3. CASE k # 0
    <3>1. k - 1 \in 0..Len(L) /\ k \in 1..Len(L) /\ k \in 1..Len(M) /\ ~ (k <= k - 1)
      BY <2>1, <2>3 DEF Continues
    <3>2. After(M)[k-1] = After(L)[k-1]
      BY <2>1, <3>1
    <3>3. Apply(M, After(L)[k-1], k) = Apply(L, After(L)[k-1], k)
      BY <3>1, ApplySame
    <3>4. /\ After(M)[k] = Apply(M, After(M)[k-1], k)
          /\ After(L)[k] = Apply(L, After(L)[k-1], k)
      BY <3>1, AfterIs
    <3> QED
      BY <2>1, <3>2, <3>3, <3>4
  <2> QED
    BY <2>2, <2>3
<1> QED
  BY <1>1

\* Lot n + 1 of g is new, the others are those of f.
LotAdded(g, f, n, e) == Holds(g, n + 1) /\ g[n+1] = e /\ \A i \in 1..n : g[i] = f[i]

LEMMA AppendAdds ==
    ASSUME NEW n \in Nat, NEW f, Holds(f, n), NEW e \in Nat
    PROVE  LotAdded(Append(f, e), f, n, e)
<1>1. f \in Seq(Nat) /\ Len(f) = n
  BY DEF Holds
<1>2. /\ Append(f, e) \in Seq(Nat)  /\ Len(Append(f, e)) = n + 1  /\ Append(f, e)[n+1] = e
      /\ \A i \in 1..n : Append(f, e)[i] = f[i]
  BY <1>1, AppendProperties
<1>3. Holds(Append(f, e), n + 1)
  BY <1>2, LenProperties DEF Holds
<1> QED
  BY <1>2, <1>3 DEF LotAdded

LEMMA LotAddedSums ==
    ASSUME NEW n \in Nat, NEW f, Holds(f, n), NEW e \in Nat, NEW g, LotAdded(g, f, n, e)
    PROVE  /\ Sum(g, 1..n+1) = Sum(f, 1..n) + e
           /\ \A S \in SUBSET (1..n) : Sum(g, S) = Sum(f, S)
<1>1. \A S \in SUBSET (1..n) : Sum(g, S) = Sum(f, S) /\ Summable(g, S)
  <2> SUFFICES ASSUME NEW S \in SUBSET (1..n) PROVE Sum(g, S) = Sum(f, S) /\ Summable(g, S)
    OBVIOUS
  <2>1. \A i \in S : g[i] = f[i]
    BY DEF LotAdded
  <2> QED
    BY <2>1, LotsSum, SumSame
<1>2. PICK S : S = 1..n
  OBVIOUS
<1>3. PICK x : x = n + 1
  OBVIOUS
<1>4. x \notin S /\ S \in SUBSET (1..n) /\ 1..n+1 = S \cup {x} /\ g[x] = e /\ g[x] \in Int
  BY <1>2, <1>3 DEF LotAdded
<1>5. Sum(g, S \cup {x}) = Sum(g, S) + g[x]
  BY <1>1, <1>4, SumInserts
<1> QED
  BY <1>1, <1>2, <1>4, <1>5

\* A row that takes points: what the lots lose is what it takes and does not leave as a debt.
LEMMA RowTakes ==
    ASSUME NEW L, NEW n \in Nat, L[n+1].points \in Int, L[n+1].points <= 0,
           NEW was, Holds(was.left, n), was.debt \in Nat, NEW is, is = Apply(L, was, n + 1)
    PROVE  /\ Holds(is.left, n + 1)  /\ is.debt \in Nat  /\ is.left[n+1] = 0
           /\ \A i \in 1..n : is.left[i] <= was.left[i]
           /\ Sum(is.left, 1..n+1) - is.debt = Sum(was.left, 1..n) - was.debt + L[n+1].points
           /\ Sum(is.left, OwnLots(L, n + 1)) <= AtLeastZero(Sum(was.left, OwnLots(L, n + 1)) + L[n+1].points)
           /\ is.debt >= was.debt
           /\ OwnLots(L, n + 1) = {} /\ Sum(was.left, GoodLots(L, n + 1)) + L[n+1].points >= 0 => is.debt = was.debt
           /\ Sum(was.left, OwnLots(L, n + 1)) + L[n+1].points >= 0 =>
                 is.debt = was.debt /\ \A i \in (1..n) \ OwnLots(L, n + 1) : is.left[i] = was.left[i]
<1> DEFINE own  == OwnLots(L, n + 1)
           good == GoodLots(L, n + 1)
           owed == -L[n+1].points
<1>1. own \in SUBSET (1..n) /\ good \in SUBSET (1..n) /\ owed \in Nat
  BY DEF OwnLots, GoodLots
<1>2. PICK t : t = [left |-> was.left, owed |-> owed]
  OBVIOUS
<1>3. PICK u : u = Take(t, own)
  OBVIOUS
<1>4. PICK v : v = Take(u, good)
  OBVIOUS
<1>5. is = [left |-> Append(v.left, 0), debt |-> was.debt + v.owed]
  BY <1>2, <1>3, <1>4 DEF Apply
<1> HIDE DEF own, good, owed
<1>6. Holds(t.left, n) /\ t.owed \in Nat /\ t.left = was.left /\ t.owed = owed
  BY <1>1, <1>2
<1>7. /\ Holds(u.left, n)  /\ u.owed \in Nat
      /\ u.owed = AtLeastZero(t.owed - Sum(t.left, own))
      /\ \A i \in 1..n : u.left[i] <= t.left[i] /\ (i \notin own => u.left[i] = t.left[i])
      /\ Sum(u.left, own) = AtLeastZero(Sum(t.left, own) - t.owed)
      /\ Sum(t.left, 1..n) - t.owed = Sum(u.left, 1..n) - u.owed
  BY <1>1, <1>3, <1>6, TakeIs
<1>8. /\ Holds(v.left, n)  /\ v.owed \in Nat
      /\ v.owed = AtLeastZero(u.owed - Sum(u.left, good))
      /\ \A i \in 1..n : v.left[i] <= u.left[i]
      /\ Sum(u.left, 1..n) - u.owed = Sum(v.left, 1..n) - v.owed
      /\ u.owed = 0 => v.left = u.left
  BY <1>1, <1>4, <1>7, TakeIs
<1>9. /\ Holds(is.left, n + 1)  /\ is.left[n+1] = 0  /\ \A i \in 1..n : is.left[i] = v.left[i]
      /\ Sum(is.left, 1..n+1) = Sum(v.left, 1..n) + 0
      /\ Sum(is.left, own) = Sum(v.left, own)
  <2>1. LotAdded(is.left, v.left, n, 0)
    <3>1. is.left = Append(v.left, 0)
      BY <1>5
    <3>2. LotAdded(Append(v.left, 0), v.left, n, 0)
      BY <1>8, AppendAdds
    <3> QED
      BY <3>1, <3>2
  <2> QED
    BY <1>1, <1>8, <2>1, LotAddedSums DEF LotAdded
<1>10. is.debt = was.debt + v.owed
  BY <1>5
<1>11. \A i \in 1..n : v.left[i] \in Int /\ u.left[i] \in Int /\ t.left[i] \in Int
  BY <1>6, <1>7, <1>8 DEF Holds
<1>12. ASSUME NEW i \in 1..n PROVE is.left[i] <= was.left[i]
  <2>1. v.left[i] \in Int /\ u.left[i] \in Int /\ t.left[i] \in Int
    BY <1>11
  <2>2. v.left[i] <= u.left[i] /\ u.left[i] <= t.left[i] /\ is.left[i] = v.left[i] /\ t.left[i] = was.left[i]
    BY <1>6, <1>7, <1>8, <1>9
  <2> QED
    BY <2>1, <2>2
<1>13. Sum(is.left, 1..n+1) - is.debt = Sum(was.left, 1..n) - was.debt + L[n+1].points
  <2>1. 1..n \in SUBSET (1..n)
    OBVIOUS
  <2>2. Sum(t.left, 1..n) \in Int /\ Sum(u.left, 1..n) \in Int /\ Sum(v.left, 1..n) \in Int
    BY <1>6, <1>7, <1>8, <2>1, LotsSum
  <2>3. t.owed = -L[n+1].points
    BY <1>6 DEF owed
  <2>4. Sum(t.left, 1..n) = Sum(was.left, 1..n)
    BY <1>6
  <2>5. Sum(t.left, 1..n) - t.owed = Sum(v.left, 1..n) - v.owed
    BY <1>7, <1>8
  <2> QED
    BY <1>8, <1>9, <1>10, <2>2, <2>3, <2>4, <2>5
<1>14. /\ Sum(was.left, own) \in Nat  /\ Sum(u.left, own) \in Nat  /\ Sum(v.left, own) \in Nat
       /\ Sum(was.left, good) \in Nat  /\ Sum(u.left, good) \in Nat
  BY <1>1, <1>7, <1>8, LotsSum
<1>15. Sum(is.left, own) <= AtLeastZero(Sum(was.left, own) + L[n+1].points)
  <2>1. Summable(v.left, own) /\ Summable(u.left, own)
    BY <1>1, <1>7, <1>8, LotsSum
  <2>2. \A i \in own : v.left[i] <= u.left[i]
    BY <1>1, <1>8
  <2>3. Sum(v.left, own) <= Sum(u.left, own)
    BY <2>1, <2>2, SumBelow
  <2> QED
    BY <1>6, <1>7, <1>9, <1>14, <2>3 DEF owed, AtLeastZero
<1>16. ASSUME own = {}, Sum(was.left, good) + L[n+1].points >= 0 PROVE is.debt = was.debt
  <2>1. \A i \in good : u.left[i] = was.left[i]
    BY <1>1, <1>6, <1>7, <1>16
  <2>2. Summable(was.left, good)
    BY <1>1, LotsSum
  <2>3. Sum(u.left, good) = Sum(was.left, good)
    BY <2>1, <2>2, SumSame
  <2>4. u.owed <= owed
    BY <1>1, <1>6, <1>7, <1>14 DEF AtLeastZero
  <2>5. v.owed = 0
    BY <1>1, <1>7, <1>8, <1>14, <1>16, <2>3, <2>4 DEF owed, AtLeastZero
  <2> QED
    BY <1>10, <2>5
<1>17. ASSUME Sum(was.left, own) + L[n+1].points >= 0
       PROVE  is.debt = was.debt /\ \A i \in (1..n) \ own : is.left[i] = was.left[i]
  <2>1. u.owed = 0
    BY <1>6, <1>7, <1>14, <1>17 DEF owed, AtLeastZero
  <2>2. v.owed = 0 /\ v.left = u.left
    BY <1>8, <1>14, <2>1 DEF AtLeastZero
  <2> QED
    BY <1>6, <1>7, <1>9, <1>10, <2>2
<1> QED
  BY <1>8, <1>9, <1>10, <1>12, <1>13, <1>15, <1>16, <1>17 DEF own, good

\* A row that brings points pays the debt first.
LEMMA RowBrings ==
    ASSUME NEW L, NEW n \in Nat, L[n+1].points \in Int, L[n+1].points > 0,
           NEW was, Holds(was.left, n), was.debt \in Nat, NEW is, is = Apply(L, was, n + 1)
    PROVE  /\ Holds(is.left, n + 1)  /\ is.debt \in Nat  /\ is.left[n+1] <= L[n+1].points
           /\ \A i \in 1..n : is.left[i] = was.left[i]
           /\ Sum(is.left, 1..n+1) - is.debt = Sum(was.left, 1..n) - was.debt + L[n+1].points
           /\ \A S \in SUBSET (1..n) : Sum(is.left, S) = Sum(was.left, S)
<1> DEFINE pays == Smaller(was.debt, L[n+1].points)
<1>1. is.left = Append(was.left, L[n+1].points - pays) /\ is.debt = was.debt - pays
  BY DEF Apply
<1>2. /\ pays \in Nat  /\ L[n+1].points - pays \in Nat  /\ L[n+1].points - pays <= L[n+1].points
      /\ was.debt - pays \in Nat
  BY DEF Smaller
<1> HIDE DEF pays
<1>3. /\ Holds(is.left, n + 1)  /\ is.left[n+1] = L[n+1].points - pays  /\ \A i \in 1..n : is.left[i] = was.left[i]
      /\ Sum(is.left, 1..n+1) = Sum(was.left, 1..n) + (L[n+1].points - pays)
      /\ \A S \in SUBSET (1..n) : Sum(is.left, S) = Sum(was.left, S)
  <2>1. PICK e \in Nat : e = L[n+1].points - pays
    BY <1>2
  <2>2. LotAdded(is.left, was.left, n, e)
    BY <1>1, <2>1, AppendAdds
  <2>3. /\ Sum(is.left, 1..n+1) = Sum(was.left, 1..n) + e
        /\ \A S \in SUBSET (1..n) : Sum(is.left, S) = Sum(was.left, S)
    BY <2>2, LotAddedSums
  <2> QED
    BY <2>1, <2>2, <2>3 DEF LotAdded
<1>4. Sum(was.left, 1..n) \in Int
  <2>1. 1..n \in SUBSET (1..n)
    OBVIOUS
  <2> QED
    BY <2>1, LotsSum
<1>5. Sum(is.left, 1..n+1) - is.debt = Sum(was.left, 1..n) - was.debt + L[n+1].points
  BY <1>1, <1>2, <1>3, <1>4
<1> QED
  BY <1>1, <1>2, <1>3, <1>5
-----------------------------------------------------------------------------
(* Ledgers.                                                                *)

Kinds == {"earn", "redeem", "reverse", "adjust", "expire"}
Rows  == [kind : Kinds, points : Int, bill : Bills \cup {None}, lot : Nat, at : Int, expires : Int]

\* An expire row names an earlier row, no other row names one.
NamesLot(r, k) == IF r.kind = "expire" THEN r.lot \in 1..k-1 ELSE r.lot = 0

Ledger(L) == L \in Seq(Rows) /\ \A k \in 1..Len(L) : NamesLot(L[k], k)

LEMMA LedgerRows ==
    ASSUME NEW L, Ledger(L)
    PROVE  /\ Len(L) \in Nat  /\ DOMAIN L = 1..Len(L)
           /\ \A k \in 1..Len(L) : /\ L[k] \in Rows  /\ L[k].points \in Int  /\ L[k].kind \in Kinds
                                   /\ NamesLot(L[k], k)
                                   /\ PointsOf(L)[k] = L[k].points
<1>1. Len(L) \in Nat /\ DOMAIN L = 1..Len(L) /\ \A k \in 1..Len(L) : L[k] \in Rows
  BY LenProperties, ElementOfSeq DEF Ledger
<1> QED
  BY <1>1 DEF Ledger, Rows, PointsOf

LEMMA PointsSum ==
    ASSUME NEW L, Ledger(L), NEW S \in SUBSET (1..Len(L))
    PROVE  Summable(PointsOf(L), S) /\ SumOf(L, S) = Sum(PointsOf(L), S) /\ SumOf(L, S) \in Int
<1>1. IsFiniteSet(1..Len(L))
  BY LedgerRows, FS_Interval
<1>2. IsFiniteSet(S)
  BY <1>1, FS_Subset
<1>3. \A i \in S : PointsOf(L)[i] \in Int
  BY LedgerRows
<1> QED
  BY <1>2, <1>3, SumHas DEF Summable, SumOf

\* M is L and row r.
Added(M, L, r) ==
    /\ Ledger(L)  /\ Ledger(M)
    /\ Len(M) = Len(L) + 1  /\ M[Len(L)+1] = r  /\ \A i \in 1..Len(L) : M[i] = L[i]

LEMMA AppendIsAdded ==
    ASSUME NEW L, Ledger(L), NEW r \in Rows, NamesLot(r, Len(L) + 1)
    PROVE  Added(Append(L, r), L, r)
<1>1. /\ Append(L, r) \in Seq(Rows)  /\ Len(Append(L, r)) = Len(L) + 1
      /\ Append(L, r)[Len(L)+1] = r  /\ \A i \in 1..Len(L) : Append(L, r)[i] = L[i]
  BY AppendProperties DEF Ledger
<1>2. Len(L) \in Nat
  BY LedgerRows
<1>3. \A k \in 1..Len(L)+1 : NamesLot(Append(L, r)[k], k)
  <2> SUFFICES ASSUME NEW k \in 1..Len(L)+1 PROVE NamesLot(Append(L, r)[k], k)
    OBVIOUS
  <2>1. CASE k = Len(L) + 1
    BY <1>1, <2>1
  <2>2. CASE k # Len(L) + 1
    <3>1. k \in 1..Len(L)
      BY <1>2, <2>2
    <3>2. NamesLot(L[k], k)
      BY <3>1 DEF Ledger
    <3> QED
      BY <1>1, <3>1, <3>2
  <2> QED
    BY <2>1, <2>2
<1> QED
  BY <1>1, <1>3 DEF Added, Ledger

\* What the rows of a set come to, with a row more.
LEMMA AddedSums ==
    ASSUME NEW L, NEW M, NEW r, Added(M, L, r), NEW S \in SUBSET (1..Len(L))
    PROVE  /\ SumOf(M, S) = SumOf(L, S)
           /\ SumOf(M, S \cup {Len(L)+1}) = SumOf(L, S) + r.points
           /\ SumOf(L, S) \in Int
<1>1. Len(L) \in Nat /\ Ledger(L) /\ Ledger(M) /\ Len(M) = Len(L) + 1
  BY LedgerRows DEF Added
<1>2. PICK x : x = Len(L) + 1
  OBVIOUS
<1>3. x \notin S /\ x \in 1..Len(M) /\ S \in SUBSET (1..Len(M))
  BY <1>1, <1>2
<1>4. Summable(PointsOf(L), S) /\ SumOf(L, S) = Sum(PointsOf(L), S) /\ SumOf(L, S) \in Int
  BY <1>1, PointsSum
<1>5. \A i \in S : PointsOf(M)[i] = PointsOf(L)[i]
  <2> SUFFICES ASSUME NEW i \in S PROVE PointsOf(M)[i] = PointsOf(L)[i]
    OBVIOUS
  <2>1. i \in 1..Len(L) /\ i \in 1..Len(M)
    BY <1>3
  <2>2. M[i] = L[i]
    BY <2>1 DEF Added
  <2> QED
    BY <1>1, <2>1, <2>2, LedgerRows
<1>6. Sum(PointsOf(M), S) = Sum(PointsOf(L), S) /\ Summable(PointsOf(M), S)
  BY <1>4, <1>5, SumSame
<1>7. PointsOf(M)[x] = r.points /\ PointsOf(M)[x] \in Int
  BY <1>1, <1>2, <1>3, LedgerRows DEF Added
<1>8. Sum(PointsOf(M), S \cup {x}) = Sum(PointsOf(M), S) + PointsOf(M)[x]
  BY <1>3, <1>6, <1>7, SumInserts
<1> QED
  BY <1>2, <1>4, <1>6, <1>7, <1>8 DEF SumOf

\* The points of the rows, the lots and the debt, after any number of rows.
ReplayOK(L, k) ==
    /\ Holds(After(L)[k].left, k)  /\ After(L)[k].debt \in Nat
    /\ SumOf(L, 1..k) = Sum(After(L)[k].left, 1..k) - After(L)[k].debt

LEMMA ReplayGoesOn ==
    ASSUME NEW L, Ledger(L), NEW n \in Nat, n + 1 \in 1..Len(L), ReplayOK(L, n)
    PROVE  ReplayOK(L, n + 1)
<1>1. Len(L) \in Nat /\ L[n+1].points \in Int
  BY LedgerRows
<1>2. PICK was : was = After(L)[n]
  OBVIOUS
<1>3. PICK is : is = Apply(L, was, n + 1)
  OBVIOUS
<1>4. Holds(was.left, n) /\ was.debt \in Nat
  BY <1>2 DEF ReplayOK
<1>5. /\ Holds(is.left, n + 1)  /\ is.debt \in Nat
      /\ Sum(is.left, 1..n+1) - is.debt = Sum(was.left, 1..n) - was.debt + L[n+1].points
  BY <1>1, <1>3, <1>4, RowTakes, RowBrings
<1>6. SumOf(L, 1..n+1) = SumOf(L, 1..n) + L[n+1].points /\ SumOf(L, 1..n) \in Int
  <2>1. PICK x : x = n + 1
    OBVIOUS
  <2>2. PICK S : S = 1..n
    OBVIOUS
  <2>3. S \in SUBSET (1..Len(L)) /\ x \notin S /\ 1..n+1 = S \cup {x} /\ x \in 1..Len(L)
    BY <1>1, <2>1, <2>2
  <2>4. Summable(PointsOf(L), S) /\ SumOf(L, S) \in Int
    BY <2>3, PointsSum
  <2>5. PointsOf(L)[x] = L[n+1].points
    BY <2>1, <2>3, LedgerRows
  <2>6. Sum(PointsOf(L), S \cup {x}) = Sum(PointsOf(L), S) + PointsOf(L)[x]
    BY <1>1, <2>3, <2>4, <2>5, SumInserts
  <2> QED
    BY <2>2, <2>3, <2>4, <2>5, <2>6 DEF SumOf
<1>7. After(L)[n+1] = is
  <2>1. (n + 1) - 1 = n
    OBVIOUS
  <2> QED
    BY <1>1, <1>2, <1>3, <2>1, AfterIs
<1>8. SumOf(L, 1..n) = Sum(was.left, 1..n) - was.debt
  BY <1>2 DEF ReplayOK
<1>9. Sum(was.left, 1..n) \in Int /\ Sum(is.left, 1..n+1) \in Int
  <2>1. 1..n \in SUBSET (1..n) /\ 1..n+1 \in SUBSET (1..n+1)
    OBVIOUS
  <2> QED
    BY <1>4, <1>5, <2>1, LotsSum
<1>10. SumOf(L, 1..n+1) = Sum(is.left, 1..n+1) - is.debt
  BY <1>1, <1>4, <1>5, <1>6, <1>8, <1>9
<1> QED
  BY <1>5, <1>7, <1>10 DEF ReplayOK

LEMMA ReplayIsOK ==
    ASSUME NEW L, Ledger(L)
    PROVE  \A k \in 0..Len(L) : ReplayOK(L, k)
<1>1. Len(L) \in Nat
  BY LedgerRows
<1> DEFINE Q == {k \in 0..Len(L) : ~ ReplayOK(L, k)}
<1>2. ASSUME Q # {} PROVE FALSE
  <2>1. PICK k \in Q : \A m \in Q : k <= m
    <3>1. Q \in SUBSET Nat
      OBVIOUS
    <3> HIDE DEF Q
    <3> QED
      BY <1>2, <3>1, LeastNatural
  <2>2. CASE k = 0
    <3>1. After(L)[0].left = <<>> /\ After(L)[0].debt = 0
      BY <1>1, AfterIs DEF Nothing
    <3>2. 1..0 = {} /\ <<>> \in [{} -> Nat]
      OBVIOUS
    <3>3. Sum(After(L)[0].left, 1..0) = 0 /\ SumOf(L, 1..0) = 0
      BY <3>2, SumOfNone DEF SumOf
    <3>4. ReplayOK(L, 0)
      BY <3>1, <3>2, <3>3 DEF ReplayOK, Holds
    <3> QED
      BY <2>1, <2>2, <3>4
  <2>3. CASE k # 0
    <3>1. k - 1 \in Nat /\ (k - 1) + 1 = k /\ k - 1 \in 0..Len(L) /\ k \in 1..Len(L) /\ ~ (k <= k - 1)
      BY <1>1, <2>1, <2>3
    <3>2. ReplayOK(L, k - 1)
      BY <2>1, <3>1
    <3>3. ReplayOK(L, (k - 1) + 1)
      BY <3>1, <3>2, ReplayGoesOn
    <3> QED
      BY <2>1, <3>1, <3>3
  <2> QED
    BY <2>2, <2>3
<1> QED
  BY <1>2

-----------------------------------------------------------------------------
(* A ledger with a row more.                                               *)

\* What the lots of a ledger hold, and its debt.
LEMMA ReplayHas ==
    ASSUME NEW L, Ledger(L)
    PROVE  /\ Holds(Replay(L).left, Len(L))  /\ Replay(L).debt \in Nat
           /\ Balance(L) = Sum(Replay(L).left, 1..Len(L)) - Replay(L).debt
<1>1. Len(L) \in 0..Len(L) /\ Len(L) \in Nat /\ DOMAIN L = 1..Len(L)
  BY LedgerRows
<1>2. ReplayOK(L, Len(L)) /\ Replay(L) = After(L)[Len(L)]
  BY <1>1, ReplayIsOK, AfterIs
<1> QED
  BY <1>1, <1>2 DEF ReplayOK, Balance

LEMMA AddedReplay ==
    ASSUME NEW L, NEW M, NEW r, Added(M, L, r)
    PROVE  /\ Len(L) \in Nat  /\ Len(M) = Len(L) + 1
           /\ \A k \in 0..Len(L) : After(M)[k] = After(L)[k]
           /\ Replay(M) = Apply(M, Replay(L), Len(L) + 1)
           /\ Replay(M) = After(M)[Len(L)+1]  /\ Replay(L) = After(M)[Len(L)]
<1>1. Len(L) \in Nat /\ Len(M) \in Nat /\ Len(M) = Len(L) + 1
  BY LedgerRows DEF Added
<1>2. Continues(M, L)
  BY <1>1 DEF Added, Continues
<1>3. \A k \in 0..Len(L) : After(M)[k] = After(L)[k]
  BY <1>1, <1>2, AfterSame
<1>4. Len(L) + 1 \in 1..Len(M) /\ (Len(L) + 1) - 1 = Len(L) /\ Len(L) \in 0..Len(L)
  BY <1>1
<1>5. Replay(M) = After(M)[Len(L)+1] /\ Replay(L) = After(M)[Len(L)]
  BY <1>1, <1>3, <1>4, AfterIs
<1>6. After(M)[Len(L)+1] = Apply(M, After(M)[Len(L)], Len(L) + 1)
  <2>1. PICK k : k = Len(L) + 1
    OBVIOUS
  <2>2. k \in 1..Len(M) /\ k - 1 = Len(L)
    BY <1>4, <2>1
  <2>3. After(M)[k] = Apply(M, After(M)[k-1], k)
    BY <1>1, <2>2, AfterIs
  <2> QED
    BY <2>1, <2>2, <2>3
<1> QED
  BY <1>1, <1>3, <1>5, <1>6

\* The sum of the same rows, and of the new one when it is one of them.
LEMMA RowsGrow ==
    ASSUME NEW L, NEW M, NEW r, Added(M, L, r), NEW S \in SUBSET (1..Len(L)), NEW T \in SUBSET (1..Len(M)),
           \A i \in 1..Len(L) : i \in T <=> i \in S
    PROVE  /\ SumOf(M, T) = SumOf(L, S) + (IF Len(L) + 1 \in T THEN r.points ELSE 0)
           /\ SumOf(L, S) \in Int  /\ SumOf(M, T) \in Int  /\ r.points \in Int
<1>1. Len(L) \in Nat /\ Len(M) = Len(L) + 1
  BY AddedReplay
<1>2. /\ SumOf(M, S) = SumOf(L, S)
      /\ SumOf(M, S \cup {Len(L)+1}) = SumOf(L, S) + r.points
      /\ SumOf(L, S) \in Int
  BY AddedSums
<1>3. r.points \in Int
  <2>1. Len(L) + 1 \in 1..Len(M) /\ Ledger(M) /\ M[Len(L)+1] = r
    BY <1>1 DEF Added
  <2> QED
    BY <2>1, LedgerRows
<1>6. PICK x : x = Len(L) + 1
  OBVIOUS
<1>7. (\A i \in T : i \in 1..Len(L) \/ i = x) /\ \A i \in S : i \in 1..Len(L)
  <2>1. \A i \in 1..Len(L)+1 : i \in 1..Len(L) \/ i = Len(L) + 1
    BY <1>1
  <2> QED
    BY <1>1, <1>6, <2>1
<1>4. CASE Len(L) + 1 \in T
  <2>1. T = S \cup {x}
    BY <1>4, <1>6, <1>7
  <2> QED
    BY <1>2, <1>3, <1>4, <1>6, <2>1
<1>5. CASE Len(L) + 1 \notin T
  <2>1. T = S
    BY <1>5, <1>6, <1>7
  <2> QED
    BY <1>2, <1>3, <1>5, <2>1
<1> QED
  BY <1>4, <1>5

EarnRows(L, b)   == {i \in DOMAIN L : L[i].kind = "earn" /\ L[i].bill = b}
BackRows(L, b)   == {i \in DOMAIN L : L[i].kind = "reverse" /\ L[i].bill = b /\ L[i].points < 0}
LapsedRows(L, b) == {i \in DOMAIN L : L[i].kind = "expire" /\ L[L[i].lot].kind = "earn" /\ L[L[i].lot].bill = b}

\* A bill's points, with a row more.
LEMMA BillGrows ==
    ASSUME NEW L, NEW M, NEW r, Added(M, L, r), NEW b
    PROVE  /\ Earned(M, b) = Earned(L, b) + (IF r.kind = "earn" /\ r.bill = b THEN r.points ELSE 0)
           /\ TakenBack(M, b) = TakenBack(L, b)
                - (IF r.kind = "reverse" /\ r.bill = b /\ r.points < 0 THEN r.points ELSE 0)
           /\ Lapsed(M, b) = Lapsed(L, b)
                - (IF r.kind = "expire" /\ L[r.lot].kind = "earn" /\ L[r.lot].bill = b THEN r.points ELSE 0)
           /\ Earned(L, b) \in Int  /\ TakenBack(L, b) \in Int  /\ Lapsed(L, b) \in Int
           /\ \A i \in 1..Len(L) : i \in EarnRows(M, b) <=> i \in EarnRows(L, b)
           /\ Len(L) + 1 \in EarnRows(M, b) <=> r.kind = "earn" /\ r.bill = b
           /\ EarnRows(L, b) \in SUBSET (1..Len(L))  /\ EarnRows(M, b) \in SUBSET (1..Len(M))
<1>1. /\ Len(L) \in Nat  /\ Len(M) = Len(L) + 1  /\ M[Len(L)+1] = r  /\ \A i \in 1..Len(L) : M[i] = L[i]
      /\ DOMAIN L = 1..Len(L)  /\ DOMAIN M = 1..Len(M)  /\ Len(L) + 1 \in 1..Len(M)  /\ r.points \in Int
      /\ \A i \in 1..Len(L) : i \in 1..Len(M)
  BY LedgerRows DEF Added
<1>2. \A i \in 1..Len(L)+1 : M[i].kind = "expire" => M[i].lot \in 1..Len(L)
  <2> SUFFICES ASSUME NEW i \in 1..Len(L)+1, M[i].kind = "expire" PROVE M[i].lot \in 1..Len(L)
    OBVIOUS
  <2>1. NamesLot(M[i], i)
    BY <1>1, LedgerRows DEF Added
  <2>2. M[i].lot \in 1..i-1 /\ i - 1 <= Len(L) /\ i \in Int
    BY <1>1, <2>1 DEF NamesLot
  <2> QED
    BY <1>1, <2>2
<1>3. /\ EarnRows(L, b) \in SUBSET (1..Len(L))  /\ EarnRows(M, b) \in SUBSET (1..Len(M))
      /\ \A i \in 1..Len(L) : i \in EarnRows(M, b) <=> i \in EarnRows(L, b)
      /\ Len(L) + 1 \in EarnRows(M, b) <=> r.kind = "earn" /\ r.bill = b
  BY <1>1 DEF EarnRows
<1>4. /\ BackRows(L, b) \in SUBSET (1..Len(L))  /\ BackRows(M, b) \in SUBSET (1..Len(M))
      /\ \A i \in 1..Len(L) : i \in BackRows(M, b) <=> i \in BackRows(L, b)
      /\ Len(L) + 1 \in BackRows(M, b) <=> r.kind = "reverse" /\ r.bill = b /\ r.points < 0
  BY <1>1 DEF BackRows
<1>5. /\ LapsedRows(L, b) \in SUBSET (1..Len(L))  /\ LapsedRows(M, b) \in SUBSET (1..Len(M))
  BY <1>1 DEF LapsedRows
<1>6. \A i \in 1..Len(L) : i \in LapsedRows(M, b) <=> i \in LapsedRows(L, b)
  <2> SUFFICES ASSUME NEW i \in 1..Len(L) PROVE i \in LapsedRows(M, b) <=> i \in LapsedRows(L, b)
    OBVIOUS
  <2>1. M[i] = L[i] /\ i \in DOMAIN L /\ i \in DOMAIN M
    BY <1>1
  <2>2. L[i].kind = "expire" => M[L[i].lot] = L[L[i].lot]
    BY <1>1, <1>2, <2>1
  <2> QED
    BY <2>1, <2>2 DEF LapsedRows
<1>7. Len(L) + 1 \in LapsedRows(M, b) <=> r.kind = "expire" /\ L[r.lot].kind = "earn" /\ L[r.lot].bill = b
  <2>1. r.kind = "expire" => M[r.lot] = L[r.lot]
    BY <1>1, <1>2
  <2> QED
    BY <1>1, <2>1 DEF LapsedRows
<1>8. /\ Earned(L, b) = SumOf(L, EarnRows(L, b))  /\ Earned(M, b) = SumOf(M, EarnRows(M, b))
      /\ TakenBack(L, b) = -SumOf(L, BackRows(L, b))  /\ TakenBack(M, b) = -SumOf(M, BackRows(M, b))
      /\ Lapsed(L, b) = -SumOf(L, LapsedRows(L, b))  /\ Lapsed(M, b) = -SumOf(M, LapsedRows(M, b))
  BY DEF Earned, TakenBack, Lapsed, EarnRows, BackRows, LapsedRows
<1>9. /\ SumOf(M, EarnRows(M, b)) = SumOf(L, EarnRows(L, b))
                                     + (IF Len(L) + 1 \in EarnRows(M, b) THEN r.points ELSE 0)
      /\ SumOf(L, EarnRows(L, b)) \in Int
  BY <1>3, RowsGrow
<1>10. /\ SumOf(M, BackRows(M, b)) = SumOf(L, BackRows(L, b))
                                     + (IF Len(L) + 1 \in BackRows(M, b) THEN r.points ELSE 0)
       /\ SumOf(L, BackRows(L, b)) \in Int
  BY <1>4, RowsGrow
<1>11. /\ SumOf(M, LapsedRows(M, b)) = SumOf(L, LapsedRows(L, b))
                                     + (IF Len(L) + 1 \in LapsedRows(M, b) THEN r.points ELSE 0)
       /\ SumOf(L, LapsedRows(L, b)) \in Int
  BY <1>5, <1>6, RowsGrow
<1>12. Earned(M, b) = Earned(L, b) + (IF r.kind = "earn" /\ r.bill = b THEN r.points ELSE 0) /\ Earned(L, b) \in Int
  BY <1>1, <1>3, <1>8, <1>9
<1>13. /\ TakenBack(M, b) = TakenBack(L, b)
                - (IF r.kind = "reverse" /\ r.bill = b /\ r.points < 0 THEN r.points ELSE 0)
       /\ TakenBack(L, b) \in Int
  BY <1>1, <1>4, <1>8, <1>10
<1>14. /\ Lapsed(M, b) = Lapsed(L, b)
                - (IF r.kind = "expire" /\ L[r.lot].kind = "earn" /\ L[r.lot].bill = b THEN r.points ELSE 0)
       /\ Lapsed(L, b) \in Int
  BY <1>1, <1>7, <1>8, <1>11
<1> QED
  BY <1>3, <1>12, <1>13, <1>14

-----------------------------------------------------------------------------
(* Ledgers as the handlers write them.                                     *)

GoodRow(r) ==
    /\ r \in Rows
    /\ r.kind = "earn" => r.points > 0 /\ r.bill \in Bills
    /\ r.kind = "redeem" => r.points < 0 /\ r.bill \in Bills
    /\ r.kind = "reverse" => r.bill \in Bills
    /\ r.kind = "expire" => r.points < 0 /\ r.bill = None
    /\ r.kind = "adjust" => r.bill = None

\* What is left of a bill's points, what was taken back of them and what has lapsed were all earned.
NotLost(L, b) == Sum(Replay(L).left, EarnRows(L, b)) + TakenBack(L, b) + Lapsed(L, b) <= Earned(L, b)

\* A lot that an expire row names is empty, and no redemption made a debt.
Book(L) ==
    /\ Ledger(L)
    /\ \A k \in 1..Len(L) : GoodRow(L[k])
    /\ \A k \in 1..Len(L) : L[k].kind = "expire" => Replay(L).left[L[k].lot] = 0
    /\ \A k \in 1..Len(L) : L[k].kind = "redeem" => After(L)[k].debt = After(L)[k-1].debt
    /\ \A b \in Bills : NotLost(L, b)

\* What a new row does to the lots.
LEMMA RowReplay ==
    ASSUME NEW L, NEW M, NEW r, Added(M, L, r), NEW n, n = Len(L), NEW was, was = Replay(L), NEW is, is = Replay(M)
    PROVE  /\ n \in Nat  /\ Len(M) = n + 1  /\ M[n+1] = r  /\ r.points \in Int  /\ is = Apply(M, was, n + 1)
           /\ Holds(was.left, n)  /\ was.debt \in Nat  /\ Holds(is.left, n + 1)  /\ is.debt \in Nat
           /\ \A i \in 1..n : is.left[i] <= was.left[i]
           /\ r.points > 0 => is.left[n+1] <= r.points /\ \A i \in 1..n : is.left[i] = was.left[i]
           /\ r.points <= 0 => is.left[n+1] = 0
<1>1. n \in Nat /\ Len(M) = n + 1 /\ is = Apply(M, was, n + 1) /\ Ledger(L) /\ Ledger(M) /\ M[n+1] = r
  BY AddedReplay DEF Added
<1>2. Holds(was.left, n) /\ was.debt \in Nat
  BY <1>1, ReplayHas
<1>3. r.points \in Int
  <2>1. n + 1 \in 1..Len(M)
    BY <1>1
  <2> QED
    BY <1>1, <2>1, LedgerRows
<1>4. CASE r.points > 0
  <2>1. /\ Holds(is.left, n + 1)  /\ is.debt \in Nat  /\ is.left[n+1] <= M[n+1].points
        /\ \A i \in 1..n : is.left[i] = was.left[i]
    BY <1>1, <1>2, <1>3, <1>4, RowBrings
  <2>2. \A i \in 1..n : is.left[i] <= was.left[i]
    BY <1>2, <2>1 DEF Holds
  <2> QED
    BY <1>1, <1>2, <1>3, <1>4, <2>1, <2>2
<1>5. CASE r.points <= 0
  <2>1. /\ Holds(is.left, n + 1)  /\ is.debt \in Nat  /\ is.left[n+1] = 0
        /\ \A i \in 1..n : is.left[i] <= was.left[i]
    BY <1>1, <1>2, <1>3, <1>5, RowTakes
  <2> QED
    BY <1>1, <1>2, <1>3, <1>5, <2>1
<1> QED
  BY <1>3, <1>4, <1>5

\* No new row but one that says so takes or brings a bill's points.
LEMMA EarnLeft ==
    ASSUME NEW L, NEW M, NEW r, Added(M, L, r), NEW b, ~ (r.kind = "earn" /\ r.bill = b)
    PROVE  /\ EarnRows(M, b) = EarnRows(L, b)
           /\ Sum(Replay(M).left, EarnRows(M, b)) <= Sum(Replay(L).left, EarnRows(L, b))
           /\ Sum(Replay(M).left, EarnRows(M, b)) \in Nat  /\ Sum(Replay(L).left, EarnRows(L, b)) \in Nat
<1>1. PICK n : n = Len(L)
  OBVIOUS
<1>2. /\ n \in Nat  /\ Len(M) = n + 1  /\ Holds(Replay(L).left, n)  /\ Holds(Replay(M).left, n + 1)
      /\ \A i \in 1..n : Replay(M).left[i] <= Replay(L).left[i]
  BY <1>1, RowReplay
<1>3. PICK E : E = EarnRows(L, b)
  OBVIOUS
<1>4. EarnRows(M, b) = E /\ E \in SUBSET (1..n) /\ E \in SUBSET (1..n+1)
  <2>1. /\ \A i \in 1..n : i \in EarnRows(M, b) <=> i \in E
        /\ n + 1 \notin EarnRows(M, b)
        /\ E \in SUBSET (1..n)  /\ EarnRows(M, b) \in SUBSET (1..n+1)
    BY <1>1, <1>2, <1>3, BillGrows
  <2>2. \A i \in 1..n+1 : i \in 1..n \/ i = n + 1
    BY <1>2
  <2>3. \A i \in 1..n : i \in 1..n+1
    BY <1>2
  <2> QED
    BY <2>1, <2>2, <2>3
<1>5. Summable(Replay(L).left, E) /\ Sum(Replay(L).left, E) \in Nat
  BY <1>2, <1>4, LotsSum
<1>6. Summable(Replay(M).left, E) /\ Sum(Replay(M).left, E) \in Nat
  <2>1. PICK m \in Nat : m = n + 1
    BY <1>2
  <2> QED
    BY <1>2, <1>4, <2>1, LotsSum
<1>7. Sum(Replay(M).left, E) <= Sum(Replay(L).left, E)
  BY <1>2, <1>4, <1>5, <1>6, SumBelow
<1> QED
  BY <1>3, <1>4, <1>5, <1>6, <1>7

LEMMA BookGrows ==
    ASSUME NEW L, NEW M, NEW r, Added(M, L, r), Book(L), GoodRow(r),
           r.kind = "expire" => Replay(M).left[r.lot] = 0,
           r.kind = "redeem" => Replay(M).debt = Replay(L).debt,
           \A b \in Bills : NotLost(M, b)
    PROVE  Book(M)
<1>1. PICK n : n = Len(L)
  OBVIOUS
<1>2. /\ n \in Nat  /\ Len(M) = n + 1  /\ M[n+1] = r  /\ Ledger(M)  /\ Ledger(L)
      /\ Holds(Replay(L).left, n)  /\ Holds(Replay(M).left, n + 1)
      /\ \A i \in 1..n : Replay(M).left[i] <= Replay(L).left[i]
      /\ \A i \in 1..n : M[i] = L[i]
  BY <1>1, RowReplay DEF Added
<1>3. /\ \A k \in 0..n : After(M)[k] = After(L)[k]
      /\ Replay(M) = After(M)[n+1]  /\ Replay(L) = After(M)[n]
  BY <1>1, AddedReplay
<1>4. ASSUME NEW k \in 1..n+1
      PROVE  /\ GoodRow(M[k])
             /\ M[k].kind = "expire" => Replay(M).left[M[k].lot] = 0
             /\ M[k].kind = "redeem" => After(M)[k].debt = After(M)[k-1].debt
  <2>1. CASE k = n + 1
    <3>1. k - 1 = n
      BY <1>2, <2>1
    <3> QED
      BY <1>2, <1>3, <2>1, <3>1
  <2>2. CASE k # n + 1
    <3>1. k \in 1..n /\ k \in 0..n /\ k - 1 \in 0..n
      BY <1>2, <2>2
    <3>2. M[k] = L[k] /\ After(M)[k] = After(L)[k] /\ After(M)[k-1] = After(L)[k-1]
      BY <1>2, <1>3, <3>1
    <3>3. ASSUME M[k].kind = "expire" PROVE Replay(M).left[M[k].lot] = 0
      <4>1. PICK i : i = L[k].lot
        OBVIOUS
      <4>2. NamesLot(L[k], k)
        BY <1>1, <1>2, <3>1, LedgerRows
      <4>3. i \in 1..n /\ i \in 1..n+1
        BY <1>2, <3>1, <3>2, <3>3, <4>1, <4>2 DEF NamesLot
      <4>4. Replay(L).left[i] = 0
        BY <1>1, <3>1, <3>2, <3>3, <4>1 DEF Book
      <4>5. Replay(M).left[i] <= Replay(L).left[i] /\ Replay(M).left[i] \in Nat
        BY <1>2, <4>3 DEF Holds
      <4> QED
        BY <3>2, <4>1, <4>4, <4>5
    <3> QED
      BY <1>1, <3>1, <3>2, <3>3 DEF Book
  <2> QED
    BY <2>1, <2>2
<1> QED
  BY <1>2, <1>4 DEF Book

\* Rows that neither bring nor take points of the bill leave it as it was.
LEMMA NotLostStays ==
    ASSUME NEW L, NEW M, NEW r, Added(M, L, r), NEW b, NotLost(L, b), ~ (r.kind = "earn" /\ r.bill = b),
           ~ (r.kind = "reverse" /\ r.bill = b /\ r.points < 0), r.kind # "expire"
    PROVE  NotLost(M, b)
<1>1. /\ Earned(M, b) = Earned(L, b)  /\ TakenBack(M, b) = TakenBack(L, b)  /\ Lapsed(M, b) = Lapsed(L, b)
      /\ Earned(L, b) \in Int  /\ TakenBack(L, b) \in Int  /\ Lapsed(L, b) \in Int
  <2>1. /\ Earned(M, b) = Earned(L, b) + 0  /\ TakenBack(M, b) = TakenBack(L, b) - 0
        /\ Lapsed(M, b) = Lapsed(L, b) - 0
        /\ Earned(L, b) \in Int  /\ TakenBack(L, b) \in Int  /\ Lapsed(L, b) \in Int
    BY BillGrows
  <2> QED
    BY <2>1
<1>2. /\ Sum(Replay(M).left, EarnRows(M, b)) <= Sum(Replay(L).left, EarnRows(L, b))
      /\ Sum(Replay(M).left, EarnRows(M, b)) \in Nat  /\ Sum(Replay(L).left, EarnRows(L, b)) \in Nat
  BY EarnLeft
<1> QED
  BY <1>1, <1>2 DEF NotLost

\* The earned points of a bill.
LEMMA EarnRow ==
    ASSUME NEW L, NEW M, NEW r, Added(M, L, r), Book(L), GoodRow(r), r.kind = "earn"
    PROVE  Book(M)
<1>1. PICK n : n = Len(L)
  OBVIOUS
<1>2. PICK x : x = n + 1
  OBVIOUS
<1>3. PICK was : was = Replay(L).left
  OBVIOUS
<1>4. PICK is : is = Replay(M).left
  OBVIOUS
<1>5. r.points \in Int /\ r.points > 0
  BY RowReplay DEF GoodRow
<1>6. /\ n \in Nat  /\ Len(M) = x  /\ Holds(was, n)  /\ Holds(is, x)  /\ x \in Nat
      /\ is[x] <= r.points  /\ \A i \in 1..n : is[i] = was[i]
  <2>1. /\ n \in Nat  /\ Len(M) = n + 1  /\ Holds(was, n)  /\ Holds(is, n + 1)
        /\ is[n+1] <= r.points  /\ \A i \in 1..n : is[i] = was[i]
    BY <1>1, <1>3, <1>4, <1>5, RowReplay
  <2> QED
    BY <1>2, <2>1
<1>7. ASSUME NEW b \in Bills, b = r.bill PROVE NotLost(M, b)
  <2>1. PICK E : E = EarnRows(L, b)
    OBVIOUS
  <2>2. /\ EarnRows(M, b) = E \cup {x}  /\ x \notin E  /\ E \in SUBSET (1..n)  /\ E \in SUBSET (1..x)
        /\ Earned(M, b) = Earned(L, b) + r.points
        /\ TakenBack(M, b) = TakenBack(L, b) - 0  /\ Lapsed(M, b) = Lapsed(L, b) - 0
        /\ Earned(L, b) \in Int  /\ TakenBack(L, b) \in Int  /\ Lapsed(L, b) \in Int
    <3>1. /\ \A i \in 1..n : i \in EarnRows(M, b) <=> i \in E
          /\ x \in EarnRows(M, b)
          /\ E \in SUBSET (1..n)  /\ EarnRows(M, b) \in SUBSET (1..x)
          /\ Earned(M, b) = Earned(L, b) + r.points
          /\ TakenBack(M, b) = TakenBack(L, b) - 0  /\ Lapsed(M, b) = Lapsed(L, b) - 0
          /\ Earned(L, b) \in Int  /\ TakenBack(L, b) \in Int  /\ Lapsed(L, b) \in Int
      BY <1>1, <1>2, <1>6, <1>7, <2>1, BillGrows
    <3>2. (\A i \in 1..x : i \in 1..n \/ i = x) /\ x \notin 1..n /\ \A i \in 1..n : i \in 1..x
      BY <1>2, <1>6
    <3> QED
      BY <3>1, <3>2
  <2>3. Summable(was, E) /\ Sum(was, E) \in Nat /\ Summable(is, E) /\ Sum(is, E) \in Nat
    BY <1>6, <2>2, LotsSum
  <2>4. Sum(is, E) = Sum(was, E)
    BY <1>6, <2>2, <2>3, SumSame
  <2>5. is[x] \in Int
    BY <1>2, <1>6 DEF Holds
  <2>6. Sum(is, E \cup {x}) = Sum(is, E) + is[x]
    BY <2>2, <2>3, <2>5, SumInserts
  <2>7. Sum(was, E) + TakenBack(L, b) + Lapsed(L, b) <= Earned(L, b)
    BY <1>3, <2>1 DEF Book, NotLost
  <2>8. Sum(is, E \cup {x}) + TakenBack(M, b) + Lapsed(M, b) <= Earned(M, b)
    BY <1>5, <1>6, <2>2, <2>3, <2>4, <2>5, <2>6, <2>7
  <2> QED
    BY <1>4, <2>2, <2>8 DEF NotLost
<1>8. ASSUME NEW b \in Bills, b # r.bill PROVE NotLost(M, b)
  BY <1>8, NotLostStays DEF Book
<1> QED
  BY <1>7, <1>8, BookGrows

\* A redemption of no more than the lots that have not expired hold; all that is left in a lot is written off.
Backed(M, L, r)  == Sum(Replay(L).left, GoodLots(M, Len(L) + 1)) + r.points >= 0
WrittenOff(L, r) == r.points = -Replay(L).left[r.lot]

LEMMA RedeemRow ==
    ASSUME NEW L, NEW M, NEW r, Added(M, L, r), Book(L), GoodRow(r), r.kind = "redeem", Backed(M, L, r)
    PROVE  Book(M) /\ Replay(M).debt = Replay(L).debt
<1>1. PICK n : n = Len(L)
  OBVIOUS
<1>6. PICK was : was = Replay(L)
  OBVIOUS
<1>7. PICK is : is = Replay(M)
  OBVIOUS
<1>8. r.points < 0
  BY DEF GoodRow
<1>2. /\ n \in Nat  /\ M[n+1] = r  /\ r.points \in Int
      /\ is = Apply(M, was, n + 1)
      /\ Holds(was.left, n)  /\ was.debt \in Nat
  BY <1>1, <1>6, <1>7, RowReplay
<1>3. OwnLots(M, n + 1) = {}
  BY <1>2 DEF OwnLots
<1>4. Replay(M).debt = Replay(L).debt
  <2>1. M[n+1].points \in Int /\ M[n+1].points <= 0 /\ Sum(was.left, GoodLots(M, n + 1)) + M[n+1].points >= 0
    BY <1>1, <1>2, <1>6, <1>8 DEF Backed
  <2>2. is.debt = was.debt
    BY <1>2, <1>3, <2>1, RowTakes
  <2> QED
    BY <1>6, <1>7, <2>2
<1>5. \A b \in Bills : NotLost(M, b)
  BY NotLostStays DEF Book
<1> QED
  BY <1>4, <1>5, BookGrows

\* Points given or taken by hand, and redeemed points given back.
LEMMA OtherRow ==
    ASSUME NEW L, NEW M, NEW r, Added(M, L, r), Book(L), GoodRow(r),
           r.kind = "adjust" \/ (r.kind = "reverse" /\ r.points >= 0)
    PROVE  Book(M)
<1>1. r.points \in Int
  BY RowReplay
<1>2. \A b \in Bills : NotLost(M, b)
  BY <1>1, NotLostStays DEF Book
<1> QED
  BY <1>2, BookGrows

\* Points taken back, no more than the bill earned and has not lost.
LEMMA TakeBackRow ==
    ASSUME NEW L, NEW M, NEW r, Added(M, L, r), Book(L), GoodRow(r), r.kind = "reverse", r.points < 0,
           TakenBack(L, r.bill) - r.points + Lapsed(L, r.bill) <= Earned(L, r.bill)
    PROVE  Book(M)
<1>1. PICK n : n = Len(L)
  OBVIOUS
<1>2. PICK was : was = Replay(L)
  OBVIOUS
<1>3. PICK is : is = Replay(M)
  OBVIOUS
<1>4. PICK b \in Bills : b = r.bill
  BY DEF GoodRow
<1>5. PICK E : E = EarnRows(L, b)
  OBVIOUS
<1>6. /\ n \in Nat  /\ Len(M) = n + 1  /\ M[n+1] = r  /\ r.points \in Int
      /\ is = Apply(M, was, n + 1)
      /\ Holds(was.left, n)  /\ was.debt \in Nat
      /\ DOMAIN L = 1..n  /\ \A i \in 1..n : M[i] = L[i]
  <2>1. /\ n \in Nat  /\ Len(M) = n + 1  /\ M[n+1] = r  /\ r.points \in Int
        /\ is = Apply(M, was, n + 1)
        /\ Holds(was.left, n)  /\ was.debt \in Nat
    BY <1>1, <1>2, <1>3, RowReplay
  <2> QED
    BY <1>1, <2>1, LedgerRows DEF Added
<1>7. OwnLots(M, n + 1) = E
  <2>1. (n + 1) - 1 = n
    BY <1>6
  <2>2. OwnLots(M, n + 1) = {i \in 1..n : M[i].kind = "earn" /\ M[i].bill = b}
    BY <1>4, <1>6, <2>1 DEF OwnLots
  <2> QED
    BY <1>5, <1>6, <2>2 DEF EarnRows
<1>8. Sum(is.left, E) <= AtLeastZero(Sum(was.left, E) + r.points)
  BY <1>6, <1>7, RowTakes
<1>9. Sum(was.left, E) \in Nat /\ Sum(is.left, E) \in Nat /\ EarnRows(M, b) = E
  BY <1>2, <1>3, <1>5, EarnLeft
<1>10. /\ Earned(M, b) = Earned(L, b)  /\ TakenBack(M, b) = TakenBack(L, b) - r.points  /\ Lapsed(M, b) = Lapsed(L, b)
       /\ Earned(L, b) \in Int  /\ TakenBack(L, b) \in Int  /\ Lapsed(L, b) \in Int
  <2>1. /\ Earned(M, b) = Earned(L, b) + 0  /\ TakenBack(M, b) = TakenBack(L, b) - r.points
        /\ Lapsed(M, b) = Lapsed(L, b) - 0
        /\ Earned(L, b) \in Int  /\ TakenBack(L, b) \in Int  /\ Lapsed(L, b) \in Int
    BY <1>4, BillGrows
  <2> QED
    BY <2>1
<1>11. Sum(was.left, E) + TakenBack(L, b) + Lapsed(L, b) <= Earned(L, b)
  BY <1>2, <1>5 DEF Book, NotLost
<1>12. Sum(is.left, E) + TakenBack(M, b) + Lapsed(M, b) <= Earned(M, b)
  BY <1>4, <1>6, <1>8, <1>9, <1>10, <1>11 DEF AtLeastZero
<1>13. NotLost(M, b)
  BY <1>3, <1>9, <1>12 DEF NotLost
<1>14. ASSUME NEW c \in Bills, c # b PROVE NotLost(M, c)
  BY <1>4, <1>14, NotLostStays DEF Book
<1> QED
  BY <1>13, <1>14, BookGrows

\* What is left in an expired lot is written off.
LEMMA ExpireRow ==
    ASSUME NEW L, NEW M, NEW r, Added(M, L, r), Book(L), GoodRow(r), r.kind = "expire", WrittenOff(L, r)
    PROVE  /\ Book(M)  /\ Replay(M).debt = Replay(L).debt
           /\ r.lot \in 1..Len(L)  /\ Replay(M).left[r.lot] = 0  /\ Replay(M).left[Len(L)+1] = 0
           /\ \A i \in 1..Len(L) : i # r.lot => Replay(M).left[i] = Replay(L).left[i]
<1>1. PICK n : n = Len(L)
  OBVIOUS
<1>2. PICK was : was = Replay(L)
  OBVIOUS
<1>3. PICK is : is = Replay(M)
  OBVIOUS
<1>4. PICK x : x = r.lot
  OBVIOUS
<1>5. /\ n \in Nat  /\ Len(M) = n + 1  /\ M[n+1] = r  /\ r.points \in Int  /\ r.points < 0
      /\ is = Apply(M, was, n + 1)
      /\ Holds(was.left, n)  /\ was.debt \in Nat  /\ Holds(is.left, n + 1)  /\ is.left[n+1] = 0
      /\ \A i \in 1..n : is.left[i] <= was.left[i]
      /\ Ledger(M)  /\ Ledger(L)
  <2>1. r.points < 0 /\ Ledger(M) /\ Ledger(L)
    BY DEF GoodRow, Added
  <2>2. /\ n \in Nat  /\ Len(M) = n + 1  /\ M[n+1] = r  /\ r.points \in Int
        /\ is = Apply(M, was, n + 1)
        /\ Holds(was.left, n)  /\ was.debt \in Nat  /\ Holds(is.left, n + 1)
        /\ r.points <= 0 => is.left[n+1] = 0
        /\ \A i \in 1..n : is.left[i] <= was.left[i]
    BY <1>1, <1>2, <1>3, RowReplay
  <2> QED
    BY <2>1, <2>2
<1>6. x \in 1..n
  <2>1. n + 1 \in 1..Len(M)
    BY <1>5
  <2>2. NamesLot(r, n + 1)
    BY <1>5, <2>1, LedgerRows
  <2>3. x \in 1..(n+1)-1
    BY <1>4, <2>2 DEF NamesLot
  <2>4. (n + 1) - 1 = n
    BY <1>5
  <2> QED
    BY <2>3, <2>4
<1>7. OwnLots(M, n + 1) = {x}
  <2>1. (n + 1) - 1 = n
    BY <1>5
  <2> QED
    BY <1>4, <1>5, <1>6, <2>1 DEF OwnLots
<1>8. Sum(was.left, {x}) = was.left[x] /\ was.left[x] \in Nat /\ r.points = -was.left[x]
  <2>1. was.left[x] \in Nat
    BY <1>5, <1>6 DEF Holds
  <2>2. {} \cup {x} = {x} /\ x \notin {}
    OBVIOUS
  <2>3. Sum(was.left, {} \cup {x}) = Sum(was.left, {}) + was.left[x]
    BY <2>1, <2>2, SumOfNone, SumInserts
  <2> QED
    BY <1>2, <1>4, <2>1, <2>2, <2>3, SumOfNone DEF WrittenOff
<1>9. /\ is.debt = was.debt  /\ \A i \in (1..n) \ {x} : is.left[i] = was.left[i]
      /\ Sum(is.left, {x}) <= AtLeastZero(Sum(was.left, {x}) + r.points)
  <2>3. Sum(was.left, OwnLots(M, n + 1)) = was.left[x] /\ M[n+1].points = -was.left[x]
    BY <1>5, <1>7, <1>8
  <2>1. M[n+1].points \in Int /\ M[n+1].points <= 0 /\ Sum(was.left, OwnLots(M, n + 1)) + M[n+1].points >= 0
    BY <1>8, <2>3
  <2>2. /\ is.debt = was.debt /\ \A i \in (1..n) \ OwnLots(M, n + 1) : is.left[i] = was.left[i]
        /\ Sum(is.left, OwnLots(M, n + 1)) <= AtLeastZero(Sum(was.left, OwnLots(M, n + 1)) + M[n+1].points)
    BY <1>5, <2>1, RowTakes
  <2> QED
    BY <1>5, <1>7, <2>2
<1>10. is.left[x] = 0
  <2>1. is.left[x] \in Nat
    BY <1>5, <1>6 DEF Holds
  <2>2. {} \cup {x} = {x} /\ x \notin {}
    OBVIOUS
  <2>3. Sum(is.left, {} \cup {x}) = Sum(is.left, {}) + is.left[x]
    BY <2>1, <2>2, SumOfNone, SumInserts
  <2> QED
    BY <1>8, <1>9, <2>1, <2>2, <2>3, SumOfNone DEF AtLeastZero
<1>11. ASSUME NEW b \in Bills PROVE NotLost(M, b)
  <2>1. PICK E : E = EarnRows(L, b)
    OBVIOUS
  <2>2. /\ Sum(was.left, E) \in Nat  /\ Sum(is.left, E) \in Nat  /\ EarnRows(M, b) = E
        /\ Sum(is.left, E) <= Sum(was.left, E)
    BY <1>2, <1>3, <2>1, EarnLeft
  <2>3. /\ Earned(M, b) = Earned(L, b) + 0  /\ TakenBack(M, b) = TakenBack(L, b) - 0
        /\ Lapsed(M, b) = Lapsed(L, b) - (IF L[x].kind = "earn" /\ L[x].bill = b THEN r.points ELSE 0)
        /\ Earned(L, b) \in Int  /\ TakenBack(L, b) \in Int  /\ Lapsed(L, b) \in Int
        /\ E \in SUBSET (1..n)
    BY <1>1, <1>4, <2>1, BillGrows
  <2>4. Sum(was.left, E) + TakenBack(L, b) + Lapsed(L, b) <= Earned(L, b)
    BY <1>2, <2>1 DEF Book, NotLost
  <2>5. x \in E <=> L[x].kind = "earn" /\ L[x].bill = b
    BY <1>1, <1>5, <1>6, <2>1, LedgerRows DEF EarnRows
  <2>6. CASE x \in E
    <3>1. Summable(was.left, E)
      BY <1>5, <2>3, LotsSum
    <3>2. \A i \in E \ {x} : is.left[i] = was.left[i]
      BY <1>9, <2>3
    <3>3. Sum(is.left, E) = Sum(was.left, E) + is.left[x] - was.left[x]
      <4>1. PICK f : f = was.left
        OBVIOUS
      <4>2. PICK g : g = is.left
        OBVIOUS
      <4>3. Summable(f, E) /\ x \in E /\ g[x] \in Int /\ \A i \in E \ {x} : g[i] = f[i]
        BY <1>10, <2>6, <3>1, <3>2, <4>1, <4>2
      <4>4. Sum(g, E) = g[x] + Sum(f, E \ {x})
        BY <4>3, SumDiffers
      <4>5. Sum(f, E) = f[x] + Sum(f, E \ {x}) /\ Sum(f, E \ {x}) \in Int
        BY <4>3, SumRemoves
      <4> QED
        BY <1>8, <1>10, <2>2, <4>1, <4>2, <4>4, <4>5
    <3>4. Sum(is.left, E) + TakenBack(M, b) + Lapsed(M, b) <= Earned(M, b)
      BY <1>8, <1>10, <2>2, <2>3, <2>4, <2>5, <2>6, <3>3
    <3> QED
      BY <1>3, <2>2, <3>4 DEF NotLost
  <2>7. CASE x \notin E
    <3>1. Sum(is.left, E) + TakenBack(M, b) + Lapsed(M, b) <= Earned(M, b)
      BY <2>2, <2>3, <2>4, <2>5, <2>7
    <3> QED
      BY <1>3, <2>2, <3>1 DEF NotLost
  <2> QED
    BY <2>6, <2>7
<1>12. Book(M)
  BY <1>3, <1>4, <1>10, <1>11, BookGrows
<1> QED
  BY <1>1, <1>2, <1>3, <1>4, <1>5, <1>6, <1>9, <1>10, <1>12

-----------------------------------------------------------------------------
(* Rows written one after the other.                                       *)

\* F is what L comes to as a row is written for each of the first n that are in S.
Writes(L, S, rows, n, F) ==
    F = [k \in 0..n |-> IF k = 0 THEN L ELSE IF k \in S THEN Append(F[k-1], rows[k]) ELSE F[k-1]]

LEMMA WritesGrow ==
    ASSUME NEW L, NEW S, NEW rows, NEW n \in Nat, NEW F, Writes(L, S, rows, n, F)
    PROVE  \E G : Writes(L, S, rows, n + 1, G)
<1> DEFINE last == IF n + 1 \in S THEN Append(F[n], rows[n+1]) ELSE F[n]
           G == [k \in 0..n+1 |-> IF k = n + 1 THEN last ELSE F[k]]
<1>1. ASSUME NEW k \in 0..n+1
      PROVE  G[k] = IF k = 0 THEN L ELSE IF k \in S THEN Append(G[k-1], rows[k]) ELSE G[k-1]
  <2>1. CASE k = 0
    <3>1. G[k] = F[k]
      BY <2>1
    <3> QED
      BY <2>1, <3>1 DEF Writes
  <2>2. CASE k \in 1..n
    <3>1. k - 1 \in 0..n /\ k \in 0..n /\ k # 0
      BY <2>2
    <3>2. k # n + 1 /\ k - 1 # n + 1
      BY <2>2
    <3>3. G[k] = F[k] /\ G[k-1] = F[k-1]
      BY <3>1, <3>2
    <3>4. F[k] = IF k \in S THEN Append(F[k-1], rows[k]) ELSE F[k-1]
      BY <3>1 DEF Writes
    <3> HIDE DEF G
    <3> QED
      BY <3>1, <3>3, <3>4
  <2>3. CASE k = n + 1
    <3>1. (n + 1) - 1 = n /\ n + 1 # 0 /\ n # n + 1 /\ n \in 0..n+1
      OBVIOUS
    <3>2. G[n] = F[n] /\ G[n+1] = last
      BY <3>1
    <3>3. k # 0 /\ k - 1 = n
      BY <2>3, <3>1
    <3> HIDE DEF G
    <3> QED
      BY <2>3, <3>2, <3>3
  <2> QED
    BY <2>1, <2>2, <2>3
<1>2. G = [k \in 0..n+1 |-> G[k]]
  OBVIOUS
<1>3. Writes(L, S, rows, n + 1, G)
  <2> HIDE DEF G
  <2> QED
    BY <1>1, <1>2 DEF Writes
<1> QED
  BY <1>3

LEMMA WriteIs ==
    ASSUME NEW L, Len(L) \in Nat, NEW S, NEW rows
    PROVE  \E F : /\ F[0] = L  /\ Write(L, S, rows) = F[Len(L)]
                  /\ \A k \in 1..Len(L) : F[k] = IF k \in S THEN Append(F[k-1], rows[k]) ELSE F[k-1]
<1> DEFINE Q == {n \in Nat : ~ \E F : Writes(L, S, rows, n, F)}
<1>1. ASSUME Q # {} PROVE FALSE
  <2>1. PICK n \in Q : \A m \in Q : n <= m
    <3>1. Q \in SUBSET Nat
      OBVIOUS
    <3> HIDE DEF Q
    <3> QED
      BY <1>1, <3>1, LeastNatural
  <2>2. CASE n = 0
    <3> DEFINE F == [k \in 0..0 |-> L]
    <3>1. F = [k \in 0..0 |-> IF k = 0 THEN L ELSE IF k \in S THEN Append(F[k-1], rows[k]) ELSE F[k-1]]
      OBVIOUS
    <3>2. Writes(L, S, rows, n, F)
      <4> HIDE DEF F
      <4> QED
        BY <2>2, <3>1 DEF Writes
    <3> QED
      BY <2>1, <3>2
  <2>3. CASE n # 0
    <3>1. n - 1 \in Nat /\ (n - 1) + 1 = n /\ ~ (n <= n - 1)
      BY <2>1, <2>3
    <3>2. PICK F : Writes(L, S, rows, n - 1, F)
      BY <2>1, <3>1
    <3>3. \E G : Writes(L, S, rows, (n - 1) + 1, G)
      BY <3>1, <3>2, WritesGrow
    <3> QED
      BY <2>1, <3>1, <3>3
  <2> QED
    BY <2>2, <2>3
<1>2. \E F : Writes(L, S, rows, Len(L), F)
  BY <1>1
<1> DEFINE W == CHOOSE F : Writes(L, S, rows, Len(L), F)
<1>3. Writes(L, S, rows, Len(L), W)
  BY <1>2
<1>4. Write(L, S, rows) = W[Len(L)]
  BY DEF Write, Writes
<1> HIDE DEF W
<1>5. W[0] = L /\ \A k \in 1..Len(L) : W[k] = IF k \in S THEN Append(W[k-1], rows[k]) ELSE W[k-1]
  <2>1. PICK n \in Nat : n = Len(L)
    OBVIOUS
  <2>2. 0 \in 0..n /\ \A k \in 1..n : k \in 0..n /\ k # 0
    BY <2>1
  <2>3. W[0] = L
    BY <1>3, <2>1, <2>2 DEF Writes
  <2>4. ASSUME NEW k \in 1..n PROVE W[k] = IF k \in S THEN Append(W[k-1], rows[k]) ELSE W[k-1]
    <3>1. k \in 0..n /\ k # 0
      BY <2>2
    <3> QED
      BY <1>3, <2>1, <3>1 DEF Writes
  <2> QED
    BY <2>1, <2>3, <2>4
<1> QED
  BY <1>4, <1>5

\* Rows no new one is among come to the same.
LEMMA OldRows ==
    ASSUME NEW L, NEW M, Ledger(L), Ledger(M), Continues(M, L), NEW T \in SUBSET (1..Len(M)),
           \A i \in T : i <= Len(L)
    PROVE  T \in SUBSET (1..Len(L)) /\ SumOf(M, T) = SumOf(L, T) /\ SumOf(L, T) \in Int
<1>1. Len(L) \in Nat /\ Len(M) \in Nat /\ Len(L) <= Len(M) /\ \A i \in 1..Len(L) : M[i] = L[i]
  BY LedgerRows DEF Continues
<1>2. T \in SUBSET (1..Len(L))
  <2>1. \A i \in T : i \in 1..Len(M)
    OBVIOUS
  <2>2. \A i \in T : i \in 1..Len(L)
    BY <1>1, <2>1
  <2> QED
    BY <2>2
<1>3. Summable(PointsOf(L), T) /\ SumOf(L, T) = Sum(PointsOf(L), T) /\ SumOf(L, T) \in Int
  BY <1>2, PointsSum
<1>4. \A i \in T : PointsOf(M)[i] = PointsOf(L)[i]
  <2> SUFFICES ASSUME NEW i \in T PROVE PointsOf(M)[i] = PointsOf(L)[i]
    OBVIOUS
  <2>1. i \in 1..Len(L) /\ i \in 1..Len(M)
    BY <1>2
  <2>2. M[i] = L[i]
    BY <1>1, <2>1
  <2> QED
    BY <2>1, <2>2, LedgerRows
<1>5. Sum(PointsOf(M), T) = Sum(PointsOf(L), T)
  BY <1>3, <1>4, SumSame
<1> QED
  BY <1>2, <1>3, <1>5 DEF SumOf

-----------------------------------------------------------------------------
(* Sweeping.                                                               *)

\* M is L with the lots due among the first k written off.
SweptTo(M, L, k) ==
    /\ Book(M)  /\ Continues(M, L)  /\ Replay(M).debt = Replay(L).debt
    /\ \A i \in 1..Len(L) : Replay(M).left[i] = IF i \in Due(L) /\ i <= k THEN 0 ELSE Replay(L).left[i]
    /\ \A i \in 1..Len(M) : i > Len(L) => M[i].kind = "expire" /\ Replay(M).left[i] = 0

LEMMA DueIs ==
    ASSUME NEW L, Ledger(L)
    PROVE  /\ Due(L) \in SUBSET (1..Len(L))
           /\ \A i \in 1..Len(L) : /\ i \in Due(L) <=> Replay(L).left[i] > 0 /\ Expired(L[i].expires, now)
                                   /\ Replay(L).left[i] \in Nat
<1>1. DOMAIN L = 1..Len(L) /\ Len(L) \in Nat /\ Holds(Replay(L).left, Len(L))
  BY LedgerRows, ReplayHas
<1>2. \A i \in 1..Len(L) : Replay(L).left[i] \in Nat
  BY <1>1 DEF Holds
<1> QED
  BY <1>1, <1>2 DEF Due

LEMMA SweepStep ==
    ASSUME NEW L, Book(L), now \in Nat, NEW k \in 1..Len(L), k \in Due(L), NEW M, SweptTo(M, L, k - 1),
           NEW r, r = Row("expire", -Replay(L).left[k], None, k, Never)
    PROVE  SweptTo(Append(M, r), L, k)
<1>1. Ledger(L) /\ Ledger(M) /\ Book(M) /\ Continues(M, L)
  BY DEF Book, SweptTo
<1>2. PICK n : n = Len(L)
  OBVIOUS
<1>3. PICK m : m = Len(M)
  OBVIOUS
<1>4. n \in Nat /\ m \in Nat /\ n <= m /\ (\A i \in 1..n : M[i] = L[i]) /\ k \in 1..n /\ k \in 1..m /\ k \in Int
  BY <1>1, <1>2, <1>3, LedgerRows DEF Continues
<1>5. PICK d \in Nat : d = Replay(L).left[k] /\ d > 0
  BY <1>1, DueIs
<1>6. Replay(M).left[k] = d
  <2>1. ~ (k <= k - 1)
    BY <1>4
  <2>2. Replay(M).left[k] = IF k \in Due(L) /\ k <= k - 1 THEN 0 ELSE Replay(L).left[k]
    BY DEF SweptTo
  <2> QED
    BY <1>5, <2>1, <2>2
<1>7. /\ r.kind = "expire"  /\ r.points = -d  /\ r.bill = None  /\ r.lot = k  /\ r \in Rows
  <2>1. /\ r = [kind |-> "expire", points |-> -d, bill |-> None, lot |-> k, at |-> now, expires |-> -1]
        /\ -d \in Int  /\ -1 \in Int  /\ k \in Nat  /\ now \in Int  /\ "expire" \in Kinds
    BY <1>4, <1>5 DEF Row, Never, Kinds
  <2> QED
    BY <2>1 DEF Rows
<1>8. GoodRow(r)
  <2>1. -d < 0
    BY <1>5
  <2> QED
    BY <1>7, <2>1 DEF GoodRow
<1>9. PICK N : N = Append(M, r)
  OBVIOUS
<1>10. Added(N, M, r)
  <2>1. r.lot \in 1..(m + 1)-1
    BY <1>4, <1>7
  <2>2. NamesLot(r, Len(M) + 1)
    BY <1>3, <1>7, <2>1 DEF NamesLot
  <2> QED
    BY <1>1, <1>7, <1>9, <2>2, AppendIsAdded
<1>11. WrittenOff(M, r)
  BY <1>6, <1>7 DEF WrittenOff
<1>12. /\ Book(N)  /\ Replay(N).debt = Replay(M).debt  /\ Replay(N).left[k] = 0  /\ Replay(N).left[m+1] = 0
       /\ \A i \in 1..m : i # k => Replay(N).left[i] = Replay(M).left[i]
  BY <1>1, <1>3, <1>7, <1>8, <1>10, <1>11, ExpireRow
<1>13. Len(N) = m + 1 /\ N[m+1] = r /\ \A i \in 1..m : N[i] = M[i]
  BY <1>3, <1>10 DEF Added
<1>14. Continues(N, L)
  BY <1>2, <1>4, <1>13 DEF Continues
<1>15. ASSUME NEW i \in 1..n
       PROVE  Replay(N).left[i] = IF i \in Due(L) /\ i <= k THEN 0 ELSE Replay(L).left[i]
  <2>1. CASE i = k
    BY <1>4, <1>12, <2>1
  <2>2. CASE i # k
    <3>1. i \in 1..m /\ (i <= k <=> i <= k - 1)
      BY <1>4, <2>2
    <3>2. Replay(M).left[i] = IF i \in Due(L) /\ i <= k - 1 THEN 0 ELSE Replay(L).left[i]
      BY <1>2 DEF SweptTo
    <3> QED
      BY <1>12, <2>2, <3>1, <3>2
  <2> QED
    BY <2>1, <2>2
<1>16. ASSUME NEW i \in 1..m+1, i > n PROVE N[i].kind = "expire" /\ Replay(N).left[i] = 0
  <2>1. CASE i = m + 1
    BY <1>7, <1>12, <1>13, <2>1
  <2>2. CASE i # m + 1
    <3>1. i \in 1..m /\ i # k
      BY <1>4, <1>16, <2>2
    <3>2. M[i].kind = "expire" /\ Replay(M).left[i] = 0
      BY <1>2, <1>3, <1>16, <3>1 DEF SweptTo
    <3> QED
      BY <1>12, <1>13, <3>1, <3>2
  <2> QED
    BY <2>1, <2>2
<1>17. Replay(M).debt = Replay(L).debt
  BY DEF SweptTo
<1>18. SweptTo(N, L, k)
  BY <1>2, <1>12, <1>13, <1>14, <1>15, <1>16, <1>17 DEF SweptTo
<1> QED
  BY <1>9, <1>18

LEMMA SweepSkip ==
    ASSUME NEW L, Book(L), NEW k \in 1..Len(L), k \notin Due(L), NEW M, SweptTo(M, L, k - 1)
    PROVE  SweptTo(M, L, k)
<1>1. Len(L) \in Nat
  BY LedgerRows DEF Book
<1>2. ASSUME NEW i \in 1..Len(L)
      PROVE  Replay(M).left[i] = IF i \in Due(L) /\ i <= k THEN 0 ELSE Replay(L).left[i]
  <2>1. i \in Due(L) => (i <= k <=> i <= k - 1)
    BY <1>1
  <2>2. Replay(M).left[i] = IF i \in Due(L) /\ i <= k - 1 THEN 0 ELSE Replay(L).left[i]
    BY DEF SweptTo
  <2> QED
    BY <2>1, <2>2
<1> QED
  BY <1>2 DEF SweptTo

\* A sweep writes off all that is due, and nothing else.
LEMMA SweepIs ==
    ASSUME NEW L, Book(L), now \in Nat
    PROVE  SweptTo(Sweep(L), L, Len(L))
<1>1. Ledger(L) /\ Len(L) \in Nat /\ DOMAIN L = 1..Len(L)
  BY LedgerRows DEF Book
<1> DEFINE S == {i \in Due(L) : \A k \in DOMAIN L : L[k].lot # i}
           rows == [i \in DOMAIN L |-> Row("expire", -Replay(L).left[i], None, i, Never)]
<1>2. Sweep(L) = Write(L, S, rows)
  BY DEF Sweep
<1>3. S = Due(L)
  <2> SUFFICES ASSUME NEW i \in Due(L), NEW k \in 1..Len(L), L[k].lot = i PROVE FALSE
    BY <1>1
  <2>1. i \in 1..Len(L) /\ Replay(L).left[i] > 0
    BY <1>1, DueIs
  <2>2. NamesLot(L[k], k)
    BY <1>1, LedgerRows
  <2>3. i # 0
    BY <2>1
  <2>4. L[k].kind = "expire"
    BY <2>2, <2>3 DEF NamesLot
  <2>5. Replay(L).left[i] = 0
    BY <2>4 DEF Book
  <2> QED
    BY <2>1, <2>5
<1>4. \A k \in 1..Len(L) : rows[k] = Row("expire", -Replay(L).left[k], None, k, Never)
  BY <1>1
<1> HIDE DEF rows, S
<1>5. PICK F : /\ F[0] = L  /\ Write(L, S, rows) = F[Len(L)]
               /\ \A k \in 1..Len(L) : F[k] = IF k \in S THEN Append(F[k-1], rows[k]) ELSE F[k-1]
  BY <1>1, WriteIs
<1> DEFINE Q == {k \in 0..Len(L) : ~ SweptTo(F[k], L, k)}
<1>6. ASSUME Q # {} PROVE FALSE
  <2>1. PICK k \in Q : \A i \in Q : k <= i
    <3>1. Q \in SUBSET Nat
      OBVIOUS
    <3> HIDE DEF Q
    <3> QED
      BY <1>6, <3>1, LeastNatural
  <2>2. CASE k = 0
    <3>1. \A i \in 1..Len(L) : i \in Int /\ ~ (i <= 0) /\ ~ (i > Len(L))
      BY <1>1
    <3>2. Continues(L, L)
      BY <1>1 DEF Continues
    <3>3. SweptTo(L, L, 0)
      BY <3>1, <3>2 DEF SweptTo
    <3> QED
      BY <1>5, <2>1, <2>2, <3>3
  <2>3. CASE k # 0
    <3>1. k - 1 \in 0..Len(L) /\ k \in 1..Len(L) /\ ~ (k <= k - 1)
      BY <1>1, <2>1, <2>3
    <3>2. SweptTo(F[k-1], L, k - 1)
      BY <2>1, <3>1
    <3>3. CASE k \in Due(L)
      <4>1. PICK M : M = F[k-1]
        OBVIOUS
      <4>2. PICK r : r = rows[k]
        OBVIOUS
      <4>3. SweptTo(Append(M, r), L, k)
        <5>1. r = Row("expire", -Replay(L).left[k], None, k, Never) /\ SweptTo(M, L, k - 1)
          BY <1>4, <3>1, <3>2, <4>1, <4>2
        <5> QED
          BY <3>1, <3>3, <5>1, SweepStep
      <4>4. F[k] = Append(M, r)
        BY <1>3, <1>5, <3>1, <3>3, <4>1, <4>2
      <4> QED
        BY <2>1, <4>3, <4>4
    <3>4. CASE k \notin Due(L)
      <4>1. F[k] = F[k-1]
        BY <1>3, <1>5, <3>1, <3>4
      <4>2. PICK M : M = F[k-1]
        OBVIOUS
      <4>3. SweptTo(M, L, k)
        BY <3>1, <3>2, <3>4, <4>2, SweepSkip
      <4> QED
        BY <2>1, <4>1, <4>2, <4>3
    <3> QED
      BY <3>3, <3>4
  <2> QED
    BY <2>2, <2>3
<1>7. Len(L) \in 0..Len(L)
  BY <1>1
<1>8. SweptTo(F[Len(L)], L, Len(L))
  BY <1>6, <1>7
<1> QED
  BY <1>2, <1>5, <1>8

\* Nothing is due after a sweep, and what the customer can spend is what they could.
LEMMA SweepHas ==
    ASSUME NEW L, Book(L), now \in Nat, NEW M, M = Sweep(L)
    PROVE  /\ Book(M)  /\ Continues(M, L)  /\ \A i \in 1..Len(M) : i > Len(L) => M[i].kind = "expire"
           /\ Due(M) = {}  /\ Balance(M) = Spendable(L)
<1>1. PICK n : n = Len(L)
  OBVIOUS
<1>2. PICK m : m = Len(M)
  OBVIOUS
<1>3. PICK f : f = Replay(L).left
  OBVIOUS
<1>4. PICK g : g = Replay(M).left
  OBVIOUS
<1>5. PICK D : D = Due(L)
  OBVIOUS
<1>6. /\ Book(M)  /\ Continues(M, L)  /\ Replay(M).debt = Replay(L).debt
      /\ \A i \in 1..n : g[i] = IF i \in D /\ i <= n THEN 0 ELSE f[i]
      /\ \A i \in 1..m : i > n => M[i].kind = "expire" /\ g[i] = 0
  <2>1. SweptTo(M, L, Len(L))
    BY SweepIs
  <2> QED
    BY <1>1, <1>2, <1>3, <1>4, <1>5, <2>1 DEF SweptTo
<1>7. /\ Ledger(L)  /\ Ledger(M)  /\ n \in Nat  /\ m \in Nat  /\ n <= m
      /\ \A i \in 1..n : M[i] = L[i]
  BY <1>1, <1>2, <1>6, LedgerRows DEF Book, Continues
<1>8. /\ Holds(f, n)  /\ Holds(g, m)
      /\ Balance(L) = Sum(f, 1..n) - Replay(L).debt  /\ Balance(M) = Sum(g, 1..m) - Replay(M).debt
      /\ Replay(L).debt \in Nat  /\ D \in SUBSET (1..n)
  BY <1>1, <1>2, <1>3, <1>4, <1>5, <1>7, ReplayHas, DueIs
<1>9. Due(M) = {}
  <2> SUFFICES ASSUME NEW i \in Due(M) PROVE FALSE
    OBVIOUS
  <2>1. i \in 1..m /\ g[i] > 0 /\ Expired(M[i].expires, now)
    BY <1>2, <1>4, <1>7, DueIs
  <2>2. i \in 1..n
    BY <1>6, <1>7, <2>1
  <2>3. i \notin D
    BY <1>6, <1>7, <2>1, <2>2
  <2>4. g[i] = f[i] /\ M[i] = L[i]
    BY <1>6, <1>7, <2>2, <2>3
  <2> QED
    BY <1>1, <1>3, <1>5, <1>7, <2>1, <2>2, <2>3, <2>4, DueIs
<1>10. PICK A : A = 1..n
  OBVIOUS
<1>11. PICK B : B = 1..m
  OBVIOUS
<1>12. /\ A \in SUBSET B  /\ D \in SUBSET A  /\ A \ D \in SUBSET B
       /\ Summable(f, A)  /\ Summable(g, B)  /\ Summable(f, A \ D)
  <2>1. \A i \in 1..n : i \in 1..m
    BY <1>7
  <2>2. A \in SUBSET B /\ D \in SUBSET A /\ A \ D \in SUBSET B /\ A \in SUBSET (1..n) /\ B \in SUBSET (1..m)
    BY <1>8, <1>10, <1>11, <2>1
  <2>3. Summable(f, A) /\ Summable(g, B)
    BY <1>7, <1>8, <2>2, LotsSum
  <2> QED
    BY <2>2, <2>3, PartSummable
<1>13. Sum(g, B) = Sum(g, A \ D)
  <2>1. ASSUME NEW i \in B \ (A \ D) PROVE g[i] = 0
    <3>1. i \in 1..m
      BY <1>11
    <3>2. CASE i \in 1..n
      <4>1. i \in D /\ i <= n
        BY <1>10, <2>1, <3>2
      <4> QED
        BY <1>6, <3>2, <4>1
    <3>3. CASE i \notin 1..n
      <4>1. i > n
        BY <1>7, <3>1, <3>3
      <4> QED
        BY <1>6, <3>1, <4>1
    <3> QED
      BY <3>2, <3>3
  <2> QED
    BY <1>12, <2>1, SumWithoutZeros
<1>14. Sum(g, A \ D) = Sum(f, A \ D)
  <2>1. \A i \in A \ D : g[i] = f[i]
    BY <1>6, <1>10
  <2> QED
    BY <1>12, <2>1, SumSame
<1>15. Sum(f, A) = Sum(f, D) + Sum(f, A \ D) /\ Sum(f, D) \in Int /\ Sum(f, A \ D) \in Int
  BY <1>12, SumSplits
<1>16. Spendable(L) = Balance(L) - Sum(f, D)
  BY <1>3, <1>5 DEF Spendable
<1>17. Balance(M) = Spendable(L)
  BY <1>6, <1>8, <1>10, <1>11, <1>13, <1>14, <1>15, <1>16
<1> QED
  BY <1>1, <1>2, <1>6, <1>9, <1>17

\* A customer who redeems what they can spend after a sweep redeems what the lots hold.
LEMMA SpendableIsBacked ==
    ASSUME NEW M, Book(M), now \in Nat, Due(M) = {},
           NEW r, r.points \in Int, -r.points <= Balance(M), r.at = now, NEW N, Added(N, M, r)
    PROVE  Backed(N, M, r)
<1>1. PICK m : m = Len(M)
  OBVIOUS
<1>2. PICK f : f = Replay(M).left
  OBVIOUS
<1>3. /\ Ledger(M)  /\ m \in Nat  /\ Holds(f, m)  /\ Balance(M) = Sum(f, 1..m) - Replay(M).debt
      /\ Replay(M).debt \in Nat  /\ N[m+1] = r  /\ \A i \in 1..m : N[i] = M[i]
  BY <1>1, <1>2, LedgerRows, ReplayHas DEF Book, Added
<1>4. PICK G : G = GoodLots(N, m + 1)
  OBVIOUS
<1>5. G = {i \in 1..m : ~ Expired(M[i].expires, now)}
  <2>1. (m + 1) - 1 = m
    BY <1>3
  <2>2. G = {i \in 1..m : ~ Expired(N[i].expires, r.at)}
    BY <1>3, <1>4, <2>1 DEF GoodLots
  <2> QED
    BY <1>3, <2>2
<1>6. \A i \in (1..m) \ G : f[i] = 0
  <2> SUFFICES ASSUME NEW i \in (1..m) \ G PROVE f[i] = 0
    OBVIOUS
  <2>1. Expired(M[i].expires, now)
    BY <1>5
  <2>2. i \notin Due(M)
    OBVIOUS
  <2>3. ~ (f[i] > 0) /\ f[i] \in Nat
    BY <1>1, <1>2, <1>3, <2>1, <2>2, DueIs
  <2> QED
    BY <2>3
<1>7. PICK A : A = 1..m
  OBVIOUS
<1>8. Summable(f, A) /\ G \in SUBSET A /\ Sum(f, A) \in Nat
  <2>1. A \in SUBSET (1..m)
    BY <1>7
  <2> QED
    BY <1>3, <1>5, <1>7, <2>1, LotsSum
<1>9. Sum(f, A) = Sum(f, G)
  BY <1>6, <1>7, <1>8, SumWithoutZeros
<1>10. Sum(f, G) + r.points >= 0
  BY <1>3, <1>7, <1>8, <1>9
<1> QED
  BY <1>1, <1>2, <1>4, <1>10 DEF Backed

-----------------------------------------------------------------------------
(* A bill's rows.                                                          *)

BillRows(L, b) == {i \in DOMAIN L : L[i].bill = b}
BillSum(L, b)  == SumOf(L, BillRows(L, b))

\* What its rows come to besides what it earned and what of that was taken back.
Net(L, b) == BillSum(L, b) - Earned(L, b) + TakenBack(L, b)

Unexpired(L) == \A k \in 1..Len(L) : L[k].kind # "expire"

\* The rows of a bill that redeemed `red` points.
BillBook(L, b, status, red) ==
    /\ red \in Nat
    /\ \A k \in 1..Len(L) : L[k].kind = "redeem" /\ L[k].bill = b => L[k].points = -red
    /\ red > 0 => \E k \in 1..Len(L) : L[k].kind = "redeem" /\ L[k].bill = b
    /\ status = "none" => red = 0 /\ \A k \in 1..Len(L) : L[k].bill # b
    /\ status # "void" => Net(L, b) = -red
    /\ status = "void" /\ Unexpired(L) => BillSum(L, b) = 0

LEMMA BillSums ==
    ASSUME NEW L, Ledger(L), NEW b
    PROVE  /\ BillRows(L, b) \in SUBSET (1..Len(L))  /\ EarnRows(L, b) \in SUBSET (1..Len(L))
           /\ BackRows(L, b) \in SUBSET (1..Len(L))  /\ LapsedRows(L, b) \in SUBSET (1..Len(L))
           /\ Earned(L, b) = SumOf(L, EarnRows(L, b))  /\ TakenBack(L, b) = -SumOf(L, BackRows(L, b))
           /\ Lapsed(L, b) = -SumOf(L, LapsedRows(L, b))  /\ Lapsed(L, b) \in Int
           /\ BillSum(L, b) \in Int  /\ Earned(L, b) \in Int  /\ TakenBack(L, b) \in Int  /\ Net(L, b) \in Int
<1>1. DOMAIN L = 1..Len(L)
  BY LedgerRows
<1>2. /\ BillRows(L, b) \in SUBSET (1..Len(L))  /\ EarnRows(L, b) \in SUBSET (1..Len(L))
      /\ BackRows(L, b) \in SUBSET (1..Len(L))  /\ LapsedRows(L, b) \in SUBSET (1..Len(L))
  BY <1>1 DEF BillRows, EarnRows, BackRows, LapsedRows
<1>3. /\ Earned(L, b) = SumOf(L, EarnRows(L, b))  /\ TakenBack(L, b) = -SumOf(L, BackRows(L, b))
      /\ Lapsed(L, b) = -SumOf(L, LapsedRows(L, b))
  BY DEF Earned, TakenBack, EarnRows, BackRows, Lapsed, LapsedRows
<1>4. /\ SumOf(L, BillRows(L, b)) \in Int  /\ SumOf(L, EarnRows(L, b)) \in Int  /\ SumOf(L, BackRows(L, b)) \in Int
      /\ SumOf(L, LapsedRows(L, b)) \in Int
  BY <1>2, PointsSum
<1> QED
  BY <1>2, <1>3, <1>4 DEF BillSum, Net

\* Rows of other bills, and of none, are not the bill's.
LEMMA OthersKeep ==
    ASSUME NEW L, NEW M, Ledger(L), Ledger(M), Continues(M, L), NEW b,
           \A i \in 1..Len(M) : i > Len(L) => M[i].bill # b
    PROVE  /\ BillSum(M, b) = BillSum(L, b)  /\ Earned(M, b) = Earned(L, b)  /\ TakenBack(M, b) = TakenBack(L, b)
           /\ Net(M, b) = Net(L, b)
           /\ \A status, red : BillBook(L, b, status, red) => BillBook(M, b, status, red)
<1>1. /\ DOMAIN L = 1..Len(L)  /\ DOMAIN M = 1..Len(M)  /\ Len(L) \in Nat  /\ Len(M) \in Nat  /\ Len(L) <= Len(M)
      /\ \A i \in 1..Len(L) : M[i] = L[i] /\ i \in 1..Len(M)
  BY LedgerRows DEF Continues
<1>2. \A i \in 1..Len(M) : M[i].bill = b => i \in 1..Len(L)
  BY <1>1
<1>3. BillRows(M, b) = BillRows(L, b) /\ EarnRows(M, b) = EarnRows(L, b) /\ BackRows(M, b) = BackRows(L, b)
  BY <1>1, <1>2 DEF BillRows, EarnRows, BackRows
<1>4. ASSUME NEW T, T \in SUBSET (1..Len(L)) PROVE SumOf(M, T) = SumOf(L, T)
  <2>1. T \in SUBSET (1..Len(M)) /\ \A i \in T : i <= Len(L)
    BY <1>1, <1>4
  <2> QED
    BY <2>1, OldRows
<1>5. /\ BillSum(M, b) = BillSum(L, b)  /\ Earned(M, b) = Earned(L, b)  /\ TakenBack(M, b) = TakenBack(L, b)
  BY <1>3, <1>4, BillSums DEF BillSum
<1>6. Net(M, b) = Net(L, b)
  BY <1>5 DEF Net
<1>7. Unexpired(M) => Unexpired(L)
  BY <1>1 DEF Unexpired
<1>8. ASSUME NEW status, NEW red, BillBook(L, b, status, red) PROVE BillBook(M, b, status, red)
  <2>1. red \in Nat
    BY <1>8 DEF BillBook
  <2>2. \A k \in 1..Len(M) : M[k].kind = "redeem" /\ M[k].bill = b => M[k].points = -red
    BY <1>1, <1>2, <1>8 DEF BillBook
  <2>3. red > 0 => \E k \in 1..Len(M) : M[k].kind = "redeem" /\ M[k].bill = b
    BY <1>1, <1>8 DEF BillBook
  <2>4. status = "none" => red = 0 /\ \A k \in 1..Len(M) : M[k].bill # b
    BY <1>1, <1>2, <1>8 DEF BillBook
  <2>5. status # "void" => Net(M, b) = -red
    BY <1>6, <1>8 DEF BillBook
  <2>6. status = "void" /\ Unexpired(M) => BillSum(M, b) = 0
    BY <1>5, <1>7, <1>8 DEF BillBook
  <2> QED
    BY <2>1, <2>2, <2>3, <2>4, <2>5, <2>6 DEF BillBook
<1> QED
  BY <1>5, <1>6, <1>8

LEMMA ContinuesOn ==
    ASSUME NEW L, NEW M, NEW N, Ledger(L), Ledger(M), Ledger(N), Continues(M, L), Continues(N, M)
    PROVE  Continues(N, L)
<1>1. Len(L) \in Nat /\ Len(M) \in Nat /\ Len(N) \in Nat
  BY LedgerRows
<1>2. \A i \in 1..Len(L) : i \in 1..Len(M)
  BY <1>1 DEF Continues
<1> QED
  BY <1>1, <1>2 DEF Continues

LEMMA AddedContinues ==
    ASSUME NEW L, NEW M, NEW r, Added(M, L, r)
    PROVE  /\ Ledger(L)  /\ Ledger(M)  /\ Continues(M, L)  /\ Len(L) \in Nat
           /\ \A i \in 1..Len(M) : i > Len(L) => M[i] = r
<1>1. /\ Ledger(L)  /\ Ledger(M)  /\ Len(L) \in Nat  /\ Len(M) = Len(L) + 1
      /\ M[Len(L)+1] = r  /\ \A i \in 1..Len(L) : M[i] = L[i]
  BY LedgerRows DEF Added
<1>2. \A i \in 1..Len(L)+1 : i > Len(L) => i = Len(L) + 1
  BY <1>1
<1> QED
  BY <1>1, <1>2 DEF Continues

\* A row of the bill itself.
LEMMA OwnRow ==
    ASSUME NEW L, NEW M, NEW r, Added(M, L, r), NEW b, r.bill = b
    PROVE  /\ BillSum(M, b) = BillSum(L, b) + r.points  /\ r.points \in Int
           /\ r.kind = "earn" \/ (r.kind = "reverse" /\ r.points < 0) => Net(M, b) = Net(L, b)
           /\ r.kind = "redeem" => Net(M, b) = Net(L, b) + r.points
<1>1. /\ Ledger(L)  /\ Ledger(M)  /\ Len(L) \in Nat  /\ Len(M) = Len(L) + 1
      /\ M[Len(L)+1] = r  /\ \A i \in 1..Len(L) : M[i] = L[i]
      /\ DOMAIN L = 1..Len(L)  /\ DOMAIN M = 1..Len(M)
  BY LedgerRows DEF Added
<1>2. /\ BillRows(L, b) \in SUBSET (1..Len(L))  /\ BillRows(M, b) \in SUBSET (1..Len(M))
      /\ BillSum(L, b) \in Int  /\ Earned(L, b) \in Int  /\ TakenBack(L, b) \in Int
  BY <1>1, BillSums
<1>3. \A i \in 1..Len(L) : i \in BillRows(M, b) <=> i \in BillRows(L, b)
  <2>1. \A i \in 1..Len(L) : i \in 1..Len(M)
    BY <1>1
  <2> QED
    BY <1>1, <2>1 DEF BillRows
<1>4. Len(L) + 1 \in BillRows(M, b)
  <2>1. Len(L) + 1 \in 1..Len(M)
    BY <1>1
  <2> QED
    BY <1>1, <2>1 DEF BillRows
<1>5. BillSum(M, b) = BillSum(L, b) + r.points /\ r.points \in Int
  <2>1. PICK S \in SUBSET (1..Len(L)) : S = BillRows(L, b)
    BY <1>2
  <2>2. PICK T \in SUBSET (1..Len(M)) : T = BillRows(M, b)
    BY <1>2
  <2>3. /\ SumOf(M, T) = SumOf(L, S) + (IF Len(L) + 1 \in T THEN r.points ELSE 0)  /\ r.points \in Int
    <3>1. \A i \in 1..Len(L) : i \in T <=> i \in S
      BY <1>3, <2>1, <2>2
    <3>2. SumOf(M, T) = SumOf(L, S) + (IF Len(L) + 1 \in T THEN r.points ELSE 0)
      BY <3>1, RowsGrow
    <3>3. r.points \in Int
      BY RowReplay
    <3> QED
      BY <3>2, <3>3
  <2> QED
    BY <1>4, <2>1, <2>2, <2>3 DEF BillSum
<1>6. /\ Earned(M, b) = Earned(L, b) + (IF r.kind = "earn" THEN r.points ELSE 0)
      /\ TakenBack(M, b) = TakenBack(L, b) - (IF r.kind = "reverse" /\ r.points < 0 THEN r.points ELSE 0)
  BY BillGrows
<1> QED
  BY <1>2, <1>5, <1>6 DEF Net

-----------------------------------------------------------------------------
(* Taking back what a bill earned.                                         *)

LEMMA SignsOf ==
    ASSUME NEW L, Book(L), NEW b \in Bills
    PROVE  Earned(L, b) >= 0 /\ TakenBack(L, b) >= 0 /\ TakenBack(L, b) + Lapsed(L, b) <= Earned(L, b)
<1>1. Ledger(L) /\ Len(L) \in Nat /\ DOMAIN L = 1..Len(L)
  BY LedgerRows DEF Book
<1>2. PICK E \in SUBSET (1..Len(L)) : E = EarnRows(L, b)
  BY <1>1, BillSums
<1>3. PICK R \in SUBSET (1..Len(L)) : R = BackRows(L, b)
  BY <1>1, BillSums
<1>4. PICK f : f = PointsOf(L)
  OBVIOUS
<1>5. /\ Summable(f, E)  /\ Summable(f, R)
      /\ Earned(L, b) = Sum(f, E)  /\ TakenBack(L, b) = -Sum(f, R)
      /\ Sum(f, E) \in Int  /\ Sum(f, R) \in Int  /\ Lapsed(L, b) \in Int
  BY <1>1, <1>2, <1>3, <1>4, BillSums, PointsSum
<1>6. Sum(f, E) \in Nat
  <2>1. \A i \in E : f[i] \in Nat
    <3> SUFFICES ASSUME NEW i \in E PROVE f[i] \in Nat
      OBVIOUS
    <3>1. L[i].kind = "earn" /\ i \in 1..Len(L)
      BY <1>2 DEF EarnRows
    <3>2. L[i].points > 0
      BY <3>1 DEF Book, GoodRow
    <3>3. f[i] = L[i].points /\ L[i].points \in Int
      BY <1>1, <1>4, <3>1, LedgerRows
    <3> QED
      BY <3>2, <3>3
  <2>2. IsFiniteSet(E)
    BY <1>5 DEF Summable
  <2> QED
    BY <2>1, <2>2, SumOfNats
<1>7. Sum(f, R) <= 0
  <2> DEFINE z == [i \in R |-> 0]
  <2>1. (\A i \in R : z[i] = 0) /\ IsFiniteSet(R)
    BY <1>5 DEF Summable
  <2>2. \A i \in R : f[i] <= z[i]
    <3> SUFFICES ASSUME NEW i \in R PROVE f[i] <= z[i]
      OBVIOUS
    <3>1. L[i].points < 0 /\ i \in 1..Len(L)
      BY <1>3 DEF BackRows
    <3>2. f[i] = L[i].points /\ L[i].points \in Int
      BY <1>1, <1>4, <3>1, LedgerRows
    <3> QED
      BY <2>1, <3>1, <3>2
  <2> HIDE DEF z
  <2>3. Summable(z, R)
    BY <2>1 DEF Summable
  <2>4. Sum(z, R) = 0
    BY <2>1, SumOfZeros
  <2>5. Sum(f, R) <= Sum(z, R)
    BY <1>5, <2>2, <2>3, SumBelow
  <2> QED
    BY <2>4, <2>5
<1>8. Sum(Replay(L).left, E) \in Nat
  <2>1. Holds(Replay(L).left, Len(L))
    BY <1>1, ReplayHas
  <2> QED
    BY <1>1, <2>1, LotsSum
<1>9. Sum(Replay(L).left, E) + TakenBack(L, b) + Lapsed(L, b) <= Earned(L, b)
  BY <1>2 DEF Book, NotLost
<1> QED
  BY <1>5, <1>6, <1>7, <1>8, <1>9

\* M is L with what is due of a bill's earned points taken back.
TakesBack(M, L, b, share, red) ==
    /\ Book(M)  /\ Continues(M, L)
    /\ \A i \in 1..Len(M) : i > Len(L) => M[i].bill = b /\ M[i].kind = "reverse"
    /\ BillBook(M, b, "paid", red)
    /\ share = Earned(L, b) /\ Lapsed(M, b) = 0 => BillSum(M, b) = -red

\* A bill's earned points are taken back to the share that is due, and none that lapsed.
LEMMA TakeBackIs ==
    ASSUME NEW L, Book(L), NEW b \in Bills, now \in Nat, NEW share \in Int, share <= Earned(L, b),
           NEW red, BillBook(L, b, "paid", red), NEW M, M = L \o TakeBack(L, b, share)
    PROVE  TakesBack(M, L, b, share, red)
<1>1. /\ Ledger(L)  /\ Len(L) \in Nat  /\ L \in Seq(Rows)
      /\ Earned(L, b) \in Int  /\ TakenBack(L, b) \in Int  /\ Lapsed(L, b) \in Int  /\ BillSum(L, b) \in Int
      /\ Earned(L, b) >= 0  /\ TakenBack(L, b) >= 0  /\ TakenBack(L, b) + Lapsed(L, b) <= Earned(L, b)
  BY LedgerRows, BillSums, SignsOf DEF Book, Ledger
<1>2. Net(L, b) = -red /\ red \in Nat
  BY DEF BillBook
<1>3. PICK p : p = Target(L, b, share) - TakenBack(L, b)
  OBVIOUS
<1>4. /\ p \in Int
      /\ p > 0 => TakenBack(L, b) + p + Lapsed(L, b) <= Earned(L, b)
      /\ share = Earned(L, b) /\ Lapsed(L, b) = 0 => TakenBack(L, b) + p = Earned(L, b) /\ p >= 0
  BY <1>1, <1>3 DEF Target
<1>5. CASE p > 0
  <2>1. PICK r : r = Row("reverse", -p, b, 0, Never)
    OBVIOUS
  <2>2. M = L \o <<r>>
    BY <1>3, <1>5, <2>1 DEF TakeBack
  <2>3. M = Append(L, r)
    BY <1>1, <2>2, AppendIsConcat
  <2>4. /\ r.kind = "reverse"  /\ r.points = -p  /\ r.bill = b  /\ r.lot = 0  /\ r \in Rows
    <3>1. PICK q \in Int : q = -p
      BY <1>4
    <3>2. /\ r = [kind |-> "reverse", points |-> q, bill |-> b, lot |-> 0, at |-> now, expires |-> -1]
          /\ -1 \in Int  /\ 0 \in Nat  /\ now \in Int  /\ "reverse" \in Kinds
      BY <2>1, <3>1 DEF Row, Never, Kinds
    <3>3. r \in Rows
      BY <3>2 DEF Rows
    <3> QED
      BY <3>1, <3>2, <3>3
  <2>5. GoodRow(r)
    BY <2>4 DEF GoodRow
  <2>6. Added(M, L, r)
    <3>1. NamesLot(r, Len(L) + 1)
      BY <2>4 DEF NamesLot
    <3> QED
      BY <1>1, <2>3, <2>4, <3>1, AppendIsAdded
  <2>7. r.points < 0 /\ TakenBack(L, r.bill) - r.points + Lapsed(L, r.bill) <= Earned(L, r.bill)
    <3>1. -p < 0 /\ TakenBack(L, b) - (-p) + Lapsed(L, b) <= Earned(L, b)
      BY <1>1, <1>4, <1>5
    <3> QED
      BY <2>4, <3>1
  <2>8. Book(M)
    BY <2>4, <2>5, <2>6, <2>7, TakeBackRow
  <2>9. Continues(M, L) /\ \A i \in 1..Len(M) : i > Len(L) => M[i] = r
    BY <2>6, AddedContinues
  <2>10. Net(M, b) = Net(L, b) /\ BillSum(M, b) = BillSum(L, b) - p
    <3>1. /\ BillSum(M, b) = BillSum(L, b) + r.points  /\ r.points \in Int
          /\ r.kind = "reverse" /\ r.points < 0 => Net(M, b) = Net(L, b)
      BY <2>4, <2>6, OwnRow
    <3> QED
      BY <1>1, <1>4, <2>4, <2>7, <3>1
  <2>11. \A k \in 1..Len(M) : M[k].kind = "redeem" /\ M[k].bill = b => M[k].points = -red
    <3> SUFFICES ASSUME NEW k \in 1..Len(M), M[k].kind = "redeem", M[k].bill = b PROVE M[k].points = -red
      OBVIOUS
    <3>1. k <= Len(L)
      <4>1. ~ (k > Len(L))
        BY <2>4, <2>9
      <4> QED
        BY <1>1, <4>1
    <3>2. k \in 1..Len(L) /\ M[k] = L[k]
      BY <1>1, <2>9, <3>1 DEF Continues
    <3> QED
      BY <3>2 DEF BillBook
  <2>12. red > 0 => \E k \in 1..Len(M) : M[k].kind = "redeem" /\ M[k].bill = b
    <3>1. \A k \in 1..Len(L) : k \in 1..Len(M) /\ M[k] = L[k]
      BY <1>1, <2>6 DEF Added
    <3> QED
      BY <3>1 DEF BillBook
  <2>13. BillBook(M, b, "paid", red)
    BY <1>2, <2>10, <2>11, <2>12 DEF BillBook
  <2>14. share = Earned(L, b) /\ Lapsed(M, b) = 0 => BillSum(M, b) = -red
    <3>2. Lapsed(M, b) = Lapsed(L, b)
      <4>1. Lapsed(M, b) = Lapsed(L, b) - 0
        BY <2>4, <2>6, BillGrows
      <4> QED
        BY <1>1, <4>1
    <3>1. BillSum(L, b) - Earned(L, b) + TakenBack(L, b) = -red
      BY <1>2 DEF Net
    <3> QED
      BY <1>1, <1>2, <1>4, <2>10, <3>1, <3>2
  <2> QED
    BY <2>4, <2>8, <2>9, <2>13, <2>14 DEF TakesBack
<1>6. CASE ~ (p > 0)
  <2>1. M = L
    <3>1. M = L \o <<>>
      BY <1>3, <1>6 DEF TakeBack
    <3> QED
      BY <1>1, <3>1, ConcatEmptySeq
  <2>2. Continues(L, L) /\ \A i \in 1..Len(L) : ~ (i > Len(L))
    BY <1>1 DEF Continues
  <2>3. share = Earned(L, b) /\ Lapsed(L, b) = 0 => BillSum(L, b) = -red
    <3>1. BillSum(L, b) - Earned(L, b) + TakenBack(L, b) = -red
      BY <1>2 DEF Net
    <3> QED
      BY <1>1, <1>2, <1>4, <1>6, <3>1
  <2> QED
    BY <2>1, <2>2, <2>3 DEF TakesBack
<1> QED
  BY <1>4, <1>5, <1>6

LEMMA ShareIs ==
    ASSUME NEW L, Ledger(L), NEW b, NEW kind, NEW credit \in Int, Total(b) \in Int
    PROVE  /\ Share(L, b, kind, credit) \in Int  /\ Share(L, b, kind, credit) <= Earned(L, b)
           /\ kind = "void" => Share(L, b, kind, credit) = Earned(L, b)
<1>1. Earned(L, b) \in Int
  BY BillSums
<1>2. PICK e \in Int : e = Earned(L, b)
  BY <1>1
<1>3. PICK p \in Int : p = e * credit
  OBVIOUS
<1>4. ASSUME Total(b) > 0 PROVE p \div Total(b) \in Int
  BY <1>4
<1>5. Share(L, b, kind, credit) = IF kind = "void" \/ Total(b) <= 0 THEN e ELSE Smaller(e, p \div Total(b))
  BY <1>2, <1>3 DEF Share
<1> QED
  BY <1>2, <1>4, <1>5 DEF Smaller

-----------------------------------------------------------------------------
(* Giving back what a bill redeemed.                                       *)

RedeemRowOf(L, b) == CHOOSE k \in DOMAIN L : L[k].kind = "redeem" /\ L[k].bill = b

\* What a bill redeemed came from lots, all of it.
LEMMA RedeemedIs ==
    ASSUME NEW L, Book(L), NEW b, NEW red \in Nat, NEW f, f = RedeemedFrom(L, b),
           \A k \in 1..Len(L) : L[k].kind = "redeem" /\ L[k].bill = b => L[k].points = -red,
           \E k \in 1..Len(L) : L[k].kind = "redeem" /\ L[k].bill = b
    PROVE  Holds(f, Len(L)) /\ Sum(f, 1..Len(L)) = red
<1>1. PICK n : n = Len(L)
  OBVIOUS
<1>2. Ledger(L) /\ n \in Nat /\ DOMAIN L = 1..n
  BY <1>1, LedgerRows DEF Book
<1>3. PICK k : k = RedeemRowOf(L, b)
  OBVIOUS
<1>4. k \in 1..n /\ L[k].kind = "redeem" /\ L[k].points = -red
  <2>1. \E i \in DOMAIN L : L[i].kind = "redeem" /\ L[i].bill = b
    BY <1>1, <1>2
  <2>2. k \in DOMAIN L /\ L[k].kind = "redeem" /\ L[k].bill = b
    BY <1>3, <2>1 DEF RedeemRowOf
  <2> QED
    BY <1>1, <1>2, <2>2
<1>5. PICK j : j = k - 1
  OBVIOUS
<1>6. j \in Nat /\ k = j + 1 /\ j \in 0..n /\ k \in 0..n
  BY <1>2, <1>4, <1>5
<1>7. PICK was : was = After(L)[j]
  OBVIOUS
<1>8. PICK is : is = After(L)[k]
  OBVIOUS
<1>9. f = [i \in 1..n |-> IF i < k THEN was.left[i] - is.left[i] ELSE 0]
  BY <1>2, <1>3, <1>5, <1>7, <1>8 DEF RedeemedFrom, RedeemRowOf
<1>10. /\ Holds(was.left, j)  /\ was.debt \in Nat  /\ is.debt = was.debt  /\ is = Apply(L, was, j + 1)
  <2>1. ReplayOK(L, j)
    BY <1>1, <1>2, <1>6, ReplayIsOK
  <2>2. After(L)[k] = Apply(L, After(L)[k-1], k)
    BY <1>1, <1>2, <1>4, AfterIs
  <2>3. After(L)[k].debt = After(L)[k-1].debt
    BY <1>1, <1>4 DEF Book
  <2> QED
    BY <1>5, <1>6, <1>7, <1>8, <2>1, <2>2, <2>3 DEF ReplayOK
<1>11. /\ Holds(is.left, k)  /\ is.left[k] = 0  /\ \A i \in 1..j : is.left[i] <= was.left[i]
       /\ Sum(is.left, 1..k) - is.debt = Sum(was.left, 1..j) - was.debt - red
  <2>1. L[j+1].points = -red /\ L[j+1].points \in Int /\ L[j+1].points <= 0
    BY <1>4, <1>6
  <2>2. /\ Holds(is.left, j + 1)  /\ is.left[j+1] = 0  /\ \A i \in 1..j : is.left[i] <= was.left[i]
        /\ Sum(is.left, 1..j+1) - is.debt = Sum(was.left, 1..j) - was.debt + L[j+1].points
    BY <1>6, <1>10, <2>1, RowTakes
  <2>3. Sum(was.left, 1..j) \in Int
    <3>1. 1..j \in SUBSET (1..j)
      OBVIOUS
    <3> QED
      BY <1>6, <1>10, <3>1, LotsSum
  <2> QED
    BY <1>6, <1>10, <2>1, <2>2, <2>3
<1>12. \A i \in 1..j : i \in 1..k /\ i < k /\ i \in 1..n
  BY <1>2, <1>4, <1>6
<1>13. \A i \in 1..n : i < k => i \in 1..j
  BY <1>2, <1>4, <1>6
<1>14. \A i \in 1..j : was.left[i] \in Nat /\ is.left[i] \in Nat /\ f[i] = was.left[i] - is.left[i] /\ f[i] \in Nat
  <2> SUFFICES ASSUME NEW i \in 1..j
               PROVE  was.left[i] \in Nat /\ is.left[i] \in Nat /\ f[i] = was.left[i] - is.left[i] /\ f[i] \in Nat
    OBVIOUS
  <2>1. was.left[i] \in Nat /\ is.left[i] \in Nat /\ is.left[i] <= was.left[i]
    BY <1>10, <1>11, <1>12 DEF Holds
  <2>2. f[i] = was.left[i] - is.left[i]
    BY <1>9, <1>12
  <2> QED
    BY <2>1, <2>2
<1>15. \A i \in 1..n : ~ (i < k) => f[i] = 0
  BY <1>9
<1>16. Holds(f, n)
  <2>1. \A i \in 1..n : f[i] \in Nat
    BY <1>13, <1>14, <1>15
  <2>2. f = [i \in 1..n |-> f[i]]
    BY <1>9
  <2> QED
    BY <2>1, <2>2 DEF Holds
<1>17. PICK J : J = 1..j
  OBVIOUS
<1>18. PICK K : K = 1..k
  OBVIOUS
<1>19. PICK N : N = 1..n
  OBVIOUS
<1>20. /\ J \in SUBSET K  /\ J \in SUBSET N  /\ \A i \in K \ J : is.left[i] = 0
       /\ \A i \in N \ J : f[i] = 0
  <2>1. \A i \in 1..k : i \in 1..j \/ i = k
    BY <1>6
  <2> QED
    BY <1>11, <1>12, <1>13, <1>15, <1>17, <1>18, <1>19, <2>1
<1>21. /\ Summable(is.left, K)  /\ Summable(is.left, J)  /\ Summable(f, N)  /\ Summable(f, J)
       /\ Sum(is.left, K) \in Int  /\ Sum(f, J) \in Int
  <2>1. K \in SUBSET (1..k) /\ J \in SUBSET (1..k) /\ N \in SUBSET (1..n) /\ J \in SUBSET (1..n)
    BY <1>18, <1>19, <1>20
  <2>2. k \in Nat
    BY <1>6
  <2>3. Summable(is.left, K) /\ Summable(is.left, J) /\ Sum(is.left, K) \in Int
    BY <1>11, <2>1, <2>2, LotsSum
  <2>4. Summable(f, N) /\ Summable(f, J) /\ Sum(f, J) \in Int
    BY <1>2, <1>16, <2>1, LotsSum
  <2> QED
    BY <2>3, <2>4
<1>22. Sum(is.left, K) = Sum(is.left, J) /\ Sum(f, N) = Sum(f, J)
  BY <1>20, <1>21, SumWithoutZeros
<1>23. Sum(was.left, J) = Sum(is.left, J) + Sum(f, J)
  <2>1. PICK h : h = was.left
    OBVIOUS
  <2>2. PICK g : g = is.left
    OBVIOUS
  <2>3. \A i \in J : h[i] = g[i] + f[i]
    BY <1>14, <1>17, <2>1, <2>2
  <2>4. Sum(h, J) = Sum(g, J) + Sum(f, J)
    BY <1>21, <2>2, <2>3, SumAdds
  <2> QED
    BY <2>1, <2>2, <2>4
<1>24. Sum(f, J) = red
  BY <1>10, <1>11, <1>17, <1>18, <1>21, <1>22, <1>23
<1> QED
  BY <1>1, <1>16, <1>19, <1>22, <1>24

\* The lots with the same expiry, and the first of each.
Alike(L, T, i) == {j \in T : L[j].expires = L[i].expires}
Firsts(L, T)   == {i \in T : \A j \in Alike(L, T, i) : i <= j}
AlikeTo(L, T, U) == {j \in T : \E i \in U : j \in Alike(L, T, i)}

\* Summed up expiry by expiry, nothing is missing and nothing counted twice.
LEMMA GroupsSum ==
    ASSUME NEW L, NEW n \in Nat, NEW f, Holds(f, n), NEW T \in SUBSET (1..n),
           NEW g, \A i \in T : g[i] = Sum(f, Alike(L, T, i))
    PROVE  Sum(g, Firsts(L, T)) = Sum(f, T) /\ \A i \in T : g[i] \in Nat
<1>1. \A U \in SUBSET T : Summable(f, U) /\ Sum(f, U) \in Nat /\ IsFiniteSet(U)
  <2> SUFFICES ASSUME NEW U \in SUBSET T PROVE Summable(f, U) /\ Sum(f, U) \in Nat /\ IsFiniteSet(U)
    OBVIOUS
  <2>1. U \in SUBSET (1..n)
    OBVIOUS
  <2> QED
    BY <2>1, LotsSum
<1>2. \A i \in T : g[i] \in Nat
  <2> SUFFICES ASSUME NEW i \in T PROVE g[i] \in Nat
    OBVIOUS
  <2>1. Alike(L, T, i) \in SUBSET T
    BY DEF Alike
  <2> QED
    BY <1>1, <2>1
<1>3. Firsts(L, T) \in SUBSET T
  BY DEF Firsts
<1>4. \A U \in SUBSET T : Summable(g, U)
  BY <1>1, <1>2 DEF Summable
<1> DEFINE Q == {U \in SUBSET Firsts(L, T) : Sum(g, U) # Sum(f, AlikeTo(L, T, U))}
<1>5. ASSUME Q # {} PROVE FALSE
  <2>1. PICK U \in Q : \A x \in U : U \ {x} \notin Q
    <3>1. Q \in SUBSET SUBSET Firsts(L, T) /\ IsFiniteSet(Firsts(L, T))
      BY <1>1, <1>3
    <3> HIDE DEF Q
    <3> QED
      BY <1>5, <3>1, SmallestSet
  <2>2. CASE U = {}
    <3>1. AlikeTo(L, T, U) = {}
      BY <2>2 DEF AlikeTo
    <3> QED
      BY <2>1, <2>2, <3>1, SumOfNone
  <2>3. ASSUME NEW x \in U PROVE FALSE
    <3>1. U \in SUBSET T /\ x \in Firsts(L, T) /\ x \in T /\ U \ {x} \in SUBSET T
      BY <1>3, <2>1, <2>3
    <3>2. Sum(g, U \ {x}) = Sum(f, AlikeTo(L, T, U \ {x}))
      BY <2>1, <2>3
    <3>3. PICK A : A = AlikeTo(L, T, U)
      OBVIOUS
    <3>4. PICK B : B = Alike(L, T, x)
      OBVIOUS
    <3>5. A \in SUBSET T /\ B \in SUBSET A
      BY <2>3, <3>3, <3>4 DEF AlikeTo, Alike
    <3>6. A \ B = AlikeTo(L, T, U \ {x})
      <4>1. ASSUME NEW j \in A, j \notin B PROVE j \in AlikeTo(L, T, U \ {x})
        <5>1. PICK i \in U : j \in Alike(L, T, i)
          BY <3>3, <4>1 DEF AlikeTo
        <5>2. i # x /\ j \in T
          BY <3>4, <3>5, <4>1, <5>1
        <5> QED
          BY <5>1, <5>2 DEF AlikeTo
      <4>2. ASSUME NEW j \in AlikeTo(L, T, U \ {x}) PROVE j \in A /\ j \notin B
        <5>1. PICK i \in U \ {x} : j \in Alike(L, T, i)
          BY <4>2 DEF AlikeTo
        <5>2. j \in A
          BY <3>3, <4>2 DEF AlikeTo
        <5>3. ASSUME j \in B PROVE FALSE
          <6>1. L[j].expires = L[i].expires /\ L[j].expires = L[x].expires /\ i \in T
            BY <3>1, <3>4, <5>1, <5>3 DEF Alike
          <6>2. i \in Alike(L, T, x) /\ x \in Alike(L, T, i)
            BY <3>1, <6>1 DEF Alike
          <6>3. i \in Firsts(L, T)
            BY <2>1
          <6>4. i <= x /\ x <= i
            BY <3>1, <6>2, <6>3 DEF Firsts
          <6>5. i \in 1..n /\ x \in 1..n
            BY <3>1, <6>1
          <6>6. i = x
            BY <6>4, <6>5
          <6> QED
            BY <6>6
        <5> QED
          BY <5>2, <5>3
      <4> QED
        BY <4>1, <4>2
    <3>7. Sum(f, A) = Sum(f, B) + Sum(f, A \ B) /\ Sum(f, B) \in Int /\ Sum(f, A \ B) \in Int
      BY <1>1, <3>5, SumSplits
    <3>8. Sum(g, U) = g[x] + Sum(g, U \ {x})
      BY <1>4, <2>3, <3>1, SumRemoves
    <3>9. g[x] = Sum(f, B)
      BY <3>1, <3>4
    <3>10. Sum(g, U) = Sum(f, A)
      BY <3>2, <3>6, <3>7, <3>8, <3>9
    <3> QED
      BY <2>1, <3>3, <3>10
  <2> QED
    BY <2>2, <2>3
<1>6. AlikeTo(L, T, Firsts(L, T)) = T
  <2> SUFFICES ASSUME NEW j \in T PROVE j \in AlikeTo(L, T, Firsts(L, T))
    BY DEF AlikeTo
  <2>1. Alike(L, T, j) \in SUBSET Nat /\ j \in Alike(L, T, j)
    <3>1. \A i \in T : i \in Nat
      OBVIOUS
    <3> QED
      BY <3>1 DEF Alike
  <2>2. PICK i \in Alike(L, T, j) : \A m \in Alike(L, T, j) : i <= m
    <3>1. Alike(L, T, j) # {}
      BY <2>1
    <3> QED
      BY <2>1, <3>1, LeastNatural
  <2>3. i \in T /\ Alike(L, T, i) = Alike(L, T, j)
    BY <2>2 DEF Alike
  <2>4. i \in Firsts(L, T)
    BY <2>2, <2>3 DEF Firsts
  <2> QED
    BY <2>1, <2>3, <2>4 DEF AlikeTo
<1>7. Sum(g, Firsts(L, T)) = Sum(f, AlikeTo(L, T, Firsts(L, T)))
  BY <1>5
<1> QED
  BY <1>2, <1>6, <1>7

\* M is L with what the first k lots of S gave given back.
GivenTo(M, L, b, g, S, k) ==
    /\ Book(M)  /\ Continues(M, L)
    /\ \A i \in 1..Len(M) : i > Len(L) => M[i].bill = b /\ M[i].kind = "reverse"
    /\ BillSum(M, b) = BillSum(L, b) + Sum(g, {i \in S : i <= k})

LEMMA GiveStep ==
    ASSUME NEW L, Book(L), NEW b \in Bills, now \in Nat, NEW g, NEW S \in SUBSET (1..Len(L)),
           \A i \in S : g[i] \in Nat, NEW k \in S, NEW M, GivenTo(M, L, b, g, S, k - 1),
           NEW r, r = Row("reverse", g[k], b, 0, L[k].expires)
    PROVE  GivenTo(Append(M, r), L, b, g, S, k)
<1>1. Ledger(L) /\ Ledger(M) /\ Book(M) /\ Continues(M, L)
  BY DEF Book, GivenTo
<1>2. PICK n : n = Len(L)
  OBVIOUS
<1>3. PICK m : m = Len(M)
  OBVIOUS
<1>4. n \in Nat /\ m \in Nat /\ n <= m /\ (\A i \in 1..n : M[i] = L[i]) /\ k \in 1..n /\ k \in Int
  BY <1>1, <1>2, <1>3, LedgerRows DEF Continues
<1>5. PICK d \in Nat : d = g[k]
  OBVIOUS
<1>6. PICK e \in Int : e = L[k].expires
  BY <1>1, <1>2, <1>4, LedgerRows DEF Rows
<1>7. /\ r.kind = "reverse"  /\ r.points = d  /\ r.bill = b  /\ r.lot = 0  /\ r \in Rows
  <2>1. /\ r = [kind |-> "reverse", points |-> d, bill |-> b, lot |-> 0, at |-> now, expires |-> e]
        /\ d \in Int  /\ 0 \in Nat  /\ now \in Int  /\ "reverse" \in Kinds
    BY <1>5, <1>6 DEF Row, Kinds
  <2>2. r \in Rows
    BY <2>1 DEF Rows
  <2> QED
    BY <2>1, <2>2
<1>8. GoodRow(r)
  BY <1>7 DEF GoodRow
<1>9. PICK N : N = Append(M, r)
  OBVIOUS
<1>10. Added(N, M, r)
  <2>1. NamesLot(r, Len(M) + 1)
    BY <1>7 DEF NamesLot
  <2> QED
    BY <1>1, <1>7, <1>9, <2>1, AppendIsAdded
<1>11. Book(N)
  <2>1. r.kind = "reverse" /\ r.points >= 0
    BY <1>5, <1>7
  <2> QED
    BY <1>1, <1>8, <1>10, <2>1, OtherRow
<1>12. Ledger(N) /\ Continues(N, M) /\ \A i \in 1..Len(N) : i > Len(M) => N[i] = r
  BY <1>10, AddedContinues
<1>13. Continues(N, L)
  BY <1>1, <1>12, ContinuesOn
<1>14. ASSUME NEW i \in 1..Len(N), i > n PROVE N[i].bill = b /\ N[i].kind = "reverse"
  <2>1. CASE i > m
    BY <1>3, <1>7, <1>12, <2>1
  <2>2. CASE ~ (i > m)
    <3>1. i \in 1..m
      BY <1>4, <2>2
    <3>2. N[i] = M[i]
      BY <1>3, <1>12, <3>1 DEF Continues
    <3>3. M[i].bill = b /\ M[i].kind = "reverse"
      BY <1>2, <1>3, <1>14, <3>1 DEF GivenTo
    <3> QED
      BY <3>2, <3>3
  <2> QED
    BY <2>1, <2>2
<1>15. BillSum(N, b) = BillSum(M, b) + d
  BY <1>7, <1>10, OwnRow
<1>16. PICK A : A = {i \in S : i <= k - 1}
  OBVIOUS
<1>17. \A i \in S : i \in Int
  BY <1>4
<1>18. {i \in S : i <= k} = A \cup {k} /\ k \notin A
  <2>1. \A i \in S : i <= k <=> i <= k - 1 \/ i = k
    BY <1>4, <1>17
  <2>2. ~ (k <= k - 1) /\ k <= k
    BY <1>4
  <2> QED
    BY <1>16, <2>1, <2>2
<1>19. Summable(g, A) /\ Sum(g, A) \in Int
  <2>1. IsFiniteSet(1..n)
    BY <1>4, FS_Interval
  <2>2. A \in SUBSET (1..n)
    BY <1>2, <1>16
  <2>3. IsFiniteSet(A)
    BY <2>1, <2>2, FS_Subset
  <2>4. \A i \in A : g[i] \in Int
    BY <1>16
  <2>5. Summable(g, A)
    BY <2>3, <2>4 DEF Summable
  <2> QED
    BY <2>5, SumHas
<1>20. Sum(g, A \cup {k}) = Sum(g, A) + d
  <2>1. g[k] \in Int
    BY <1>5
  <2> QED
    BY <1>5, <1>18, <1>19, <2>1, SumInserts
<1>21. BillSum(M, b) = BillSum(L, b) + Sum(g, A) /\ BillSum(L, b) \in Int
  BY <1>1, <1>16, BillSums DEF GivenTo
<1>22. BillSum(N, b) = BillSum(L, b) + Sum(g, {i \in S : i <= k})
  <2>1. PICK C : C = {i \in S : i <= k}
    OBVIOUS
  <2>2. C = A \cup {k}
    BY <1>18, <2>1
  <2>3. Sum(g, C) = Sum(g, A) + d
    BY <1>20, <2>2
  <2>4. BillSum(N, b) = BillSum(L, b) + Sum(g, C)
    BY <1>15, <1>19, <1>21, <2>3
  <2> QED
    BY <2>1, <2>4
<1>23. GivenTo(N, L, b, g, S, k)
  BY <1>2, <1>11, <1>13, <1>14, <1>22 DEF GivenTo
<1> QED
  BY <1>9, <1>23

\* Rows written for all of S.
LEMMA GiveAll ==
    ASSUME NEW L, Book(L), NEW b \in Bills, now \in Nat, NEW g, NEW S \in SUBSET (1..Len(L)),
           \A i \in S : g[i] \in Nat,
           NEW rows, \A i \in S : rows[i] = Row("reverse", g[i], b, 0, L[i].expires)
    PROVE  GivenTo(Write(L, S, rows), L, b, g, S, Len(L))
<1>1. Ledger(L) /\ Len(L) \in Nat
  BY LedgerRows DEF Book
<1>2. PICK F : /\ F[0] = L  /\ Write(L, S, rows) = F[Len(L)]
               /\ \A k \in 1..Len(L) : F[k] = IF k \in S THEN Append(F[k-1], rows[k]) ELSE F[k-1]
  BY <1>1, WriteIs
<1> DEFINE Q == {k \in 0..Len(L) : ~ GivenTo(F[k], L, b, g, S, k)}
<1>3. ASSUME Q # {} PROVE FALSE
  <2>1. PICK k \in Q : \A i \in Q : k <= i
    <3>1. Q \in SUBSET Nat
      OBVIOUS
    <3> HIDE DEF Q
    <3> QED
      BY <1>3, <3>1, LeastNatural
  <2>2. CASE k = 0
    <3>1. \A i \in 1..Len(L) : i \in Int /\ ~ (i <= 0) /\ ~ (i > Len(L))
      BY <1>1
    <3>2. Continues(L, L)
      BY <1>1 DEF Continues
    <3>3. {i \in S : i <= 0} = {}
      BY <3>1
    <3>4. BillSum(L, b) = BillSum(L, b) + Sum(g, {i \in S : i <= 0})
      <4>1. BillSum(L, b) \in Int
        BY <1>1, BillSums
      <4>2. Sum(g, {i \in S : i <= 0}) = 0
        BY <3>3, SumOfNone
      <4> QED
        BY <4>1, <4>2
    <3>5. GivenTo(L, L, b, g, S, 0)
      BY <3>1, <3>2, <3>4 DEF GivenTo
    <3> QED
      BY <1>2, <2>1, <2>2, <3>5
  <2>3. CASE k # 0
    <3>1. k - 1 \in 0..Len(L) /\ k \in 1..Len(L) /\ ~ (k <= k - 1)
      BY <1>1, <2>1, <2>3
    <3>2. GivenTo(F[k-1], L, b, g, S, k - 1)
      BY <2>1, <3>1
    <3>3. CASE k \in S
      <4>1. PICK M : M = F[k-1]
        OBVIOUS
      <4>2. PICK r : r = rows[k]
        OBVIOUS
      <4>3. GivenTo(Append(M, r), L, b, g, S, k)
        <5>1. r = Row("reverse", g[k], b, 0, L[k].expires) /\ GivenTo(M, L, b, g, S, k - 1)
          BY <3>2, <3>3, <4>1, <4>2
        <5> QED
          BY <3>3, <5>1, GiveStep
      <4>4. F[k] = Append(M, r)
        BY <1>2, <3>1, <3>3, <4>1, <4>2
      <4> QED
        BY <2>1, <4>3, <4>4
    <3>4. CASE k \notin S
      <4>1. F[k] = F[k-1]
        BY <1>2, <3>1, <3>4
      <4>2. PICK M : M = F[k-1]
        OBVIOUS
      <4>3. {i \in S : i <= k} = {i \in S : i <= k - 1}
        <5>1. \A i \in S : i \in Int /\ i # k
          BY <1>1, <3>4
        <5>2. \A i \in S : i <= k <=> i <= k - 1
          BY <3>1, <5>1
        <5> QED
          BY <5>2
      <4>4. GivenTo(M, L, b, g, S, k)
        BY <3>2, <4>2, <4>3 DEF GivenTo
      <4> QED
        BY <2>1, <4>1, <4>2, <4>4
    <3> QED
      BY <3>3, <3>4
  <2> QED
    BY <2>2, <2>3
<1>4. Len(L) \in 0..Len(L)
  BY <1>1
<1>5. GivenTo(F[Len(L)], L, b, g, S, Len(L))
  BY <1>3, <1>4
<1> QED
  BY <1>2, <1>5

LEMMA NoneLapsed ==
    ASSUME NEW L, Ledger(L), Unexpired(L), NEW b
    PROVE  Lapsed(L, b) = 0
<1>1. DOMAIN L = 1..Len(L)
  BY LedgerRows
<1>2. LapsedRows(L, b) = {}
  BY <1>1 DEF LapsedRows, Unexpired
<1>3. SumOf(L, LapsedRows(L, b)) = 0
  BY <1>2, SumOfNone DEF SumOf
<1>4. PICK x \in Int : x = SumOf(L, LapsedRows(L, b))
  BY <1>3
<1>5. x <= 0 /\ x >= 0
  BY <1>3, <1>4
<1>6. Lapsed(L, b) = -x
  BY <1>4, BillSums
<1> QED
  BY <1>5, <1>6

LEMMA VoidBook ==
    ASSUME NEW L, NEW M, Ledger(L), Ledger(M), Continues(M, L), NEW b, NEW red, BillBook(L, b, "paid", red),
           \A i \in 1..Len(M) : i > Len(L) => M[i].kind = "reverse",
           Lapsed(L, b) = 0 => BillSum(M, b) = 0
    PROVE  BillBook(M, b, "void", red)
<1>1. /\ Len(L) \in Nat  /\ Len(M) \in Nat  /\ Len(L) <= Len(M)
      /\ \A i \in 1..Len(L) : M[i] = L[i] /\ i \in 1..Len(M)
  BY LedgerRows DEF Continues
<1>2. red \in Nat
  BY DEF BillBook
<1>3. ASSUME NEW k \in 1..Len(M), M[k].kind = "redeem", M[k].bill = b PROVE M[k].points = -red
  <2>1. ~ (k > Len(L))
    BY <1>3
  <2>2. k \in 1..Len(L)
    BY <1>1, <2>1
  <2>3. M[k] = L[k]
    BY <1>1, <2>2
  <2> QED
    BY <1>3, <2>2, <2>3 DEF BillBook
<1>4. red > 0 => \E k \in 1..Len(M) : M[k].kind = "redeem" /\ M[k].bill = b
  BY <1>1 DEF BillBook
<1>5. Unexpired(M) => BillSum(M, b) = 0
  <2>1. Unexpired(M) => Unexpired(L)
    BY <1>1 DEF Unexpired
  <2> QED
    BY <2>1, NoneLapsed
<1> QED
  BY <1>2, <1>3, <1>4, <1>5 DEF BillBook

\* A void gives back all that the bill redeemed, each part as long as the lot it came from would have lasted.
LEMMA GiveBackIs ==
    ASSUME NEW L, Book(L), NEW b \in Bills, now \in Nat, NEW red, redeemed[b] = red, NEW months,
           BillBook(L, b, "paid", red), Lapsed(L, b) = 0 => BillSum(L, b) = -red,
           NEW M, M = GiveBack(L, b, months)
    PROVE  /\ Book(M)  /\ Continues(M, L)
           /\ \A i \in 1..Len(M) : i > Len(L) => M[i].bill = b /\ M[i].kind = "reverse"
           /\ BillBook(M, b, "void", red)
<1>1. Ledger(L) /\ Len(L) \in Nat /\ DOMAIN L = 1..Len(L) /\ red \in Nat
  BY LedgerRows DEF Book, BillBook
<1>2. CASE red = 0
  <2>1. M = L
    BY <1>2 DEF GiveBack
  <2>2. Continues(L, L) /\ \A i \in 1..Len(L) : ~ (i > Len(L))
    BY <1>1 DEF Continues
  <2>3. Lapsed(L, b) = 0 => BillSum(L, b) = 0
    <3>1. red <= 0 /\ red >= 0 /\ red \in Int
      BY <1>2
    <3> QED
      BY <3>1
  <2>4. BillBook(L, b, "void", red)
    BY <1>1, <2>2, <2>3, VoidBook
  <2> QED
    BY <2>1, <2>2, <2>4
<1>3. CASE red # 0
  <2>1. PICK n \in Nat : n = Len(L)
    BY <1>1
  <2>2. PICK f : f = RedeemedFrom(L, b)
    OBVIOUS
  <2>3. Holds(f, n) /\ Sum(f, 1..n) = red
    <3>1. /\ \A k \in 1..Len(L) : L[k].kind = "redeem" /\ L[k].bill = b => L[k].points = -red
          /\ \E k \in 1..Len(L) : L[k].kind = "redeem" /\ L[k].bill = b
      BY <1>1, <1>3 DEF BillBook
    <3> QED
      BY <1>1, <2>1, <2>2, <3>1, RedeemedIs
  <2>4. PICK T : T = {i \in DOMAIN L : f[i] > 0}
    OBVIOUS
  <2>5. T \in SUBSET (1..n)
    BY <1>1, <2>1, <2>4
  <2>6. Sum(f, T) = red
    <3>1. PICK N : N = 1..n
      OBVIOUS
    <3>2. T \in SUBSET N /\ N \in SUBSET (1..n)
      BY <2>5, <3>1
    <3>3. Summable(f, N)
      BY <2>3, <3>2, LotsSum
    <3>4. \A i \in N \ T : f[i] = 0
      <4> SUFFICES ASSUME NEW i \in N \ T PROVE f[i] = 0
        OBVIOUS
      <4>1. f[i] \in Nat
        BY <2>3, <3>1 DEF Holds
      <4>2. ~ (f[i] > 0)
        BY <1>1, <2>1, <2>4, <3>1
      <4> QED
        BY <4>1, <4>2
    <3> QED
      BY <2>3, <3>1, <3>2, <3>3, <3>4, SumWithoutZeros
  <2>7. PICK g : g = [i \in T |-> Sum(f, Alike(L, T, i))]
    OBVIOUS
  <2>8. PICK S : S = Firsts(L, T)
    OBVIOUS
  <2>9. Sum(g, S) = red /\ (\A i \in S : g[i] \in Nat) /\ S \in SUBSET T /\ S \in SUBSET (1..Len(L))
    <3>1. \A i \in T : g[i] = Sum(f, Alike(L, T, i))
      BY <2>7
    <3>2. Sum(g, Firsts(L, T)) = Sum(f, T) /\ \A i \in T : g[i] \in Nat
      BY <2>3, <2>5, <3>1, GroupsSum
    <3>3. S \in SUBSET T
      BY <2>8 DEF Firsts
    <3> QED
      BY <2>1, <2>5, <2>6, <2>8, <3>2, <3>3
  <2>10. PICK rows : rows = [i \in DOMAIN L |-> Row("reverse", Sum(f, Alike(L, T, i)), b, 0, L[i].expires)]
    OBVIOUS
  <2>11. \A i \in S : rows[i] = Row("reverse", g[i], b, 0, L[i].expires)
    <3> SUFFICES ASSUME NEW i \in S PROVE rows[i] = Row("reverse", g[i], b, 0, L[i].expires)
      OBVIOUS
    <3>1. i \in T /\ i \in DOMAIN L
      BY <1>1, <2>9
    <3>2. g[i] = Sum(f, Alike(L, T, i))
      BY <2>7, <3>1
    <3> QED
      BY <2>10, <3>1, <3>2
  <2>12. GivenTo(Write(L, S, rows), L, b, g, S, Len(L))
    BY <2>9, <2>11, GiveAll
  <2>13. M = Write(L, S, rows)
    <3>1. \A i : Alike(L, T, i) = {j \in T : L[j].expires = L[i].expires}
      BY DEF Alike
    <3>2. S = {i \in T : \A j \in Alike(L, T, i) : i <= j}
      BY <2>8 DEF Firsts
    <3>3. M = Write(L, S, rows) \o (IF red - Sum(f, T) > 0
                THEN <<Row("reverse", red - Sum(f, T), b, 0, EarnExpiry(months))>> ELSE <<>>)
      BY <1>3, <2>2, <2>4, <2>10, <3>1, <3>2 DEF GiveBack
    <3>4. M = Write(L, S, rows) \o <<>>
      BY <1>1, <2>6, <3>3
    <3>5. Write(L, S, rows) \in Seq(Rows)
      BY <2>12 DEF GivenTo, Book, Ledger
    <3> QED
      BY <3>4, <3>5, ConcatEmptySeq
  <2>14. GivenTo(M, L, b, g, S, Len(L))
    BY <2>12, <2>13
  <2>15. {i \in S : i <= Len(L)} = S
    <3>1. \A i \in S : i <= n
      BY <2>1, <2>9
    <3> QED
      BY <2>1, <3>1
  <2>16. BillSum(M, b) = BillSum(L, b) + red
    BY <2>9, <2>14, <2>15 DEF GivenTo
  <2>17. /\ Book(M)  /\ Continues(M, L)  /\ Ledger(M)
         /\ \A i \in 1..Len(M) : i > Len(L) => M[i].bill = b /\ M[i].kind = "reverse"
    BY <2>14 DEF GivenTo, Book
  <2>18. Lapsed(L, b) = 0 => BillSum(M, b) = 0
    BY <1>1, <2>16
  <2>19. BillBook(M, b, "void", red)
    BY <1>1, <2>17, <2>18, VoidBook
  <2> QED
    BY <2>17, <2>19
<1> QED
  BY <1>2, <1>3

-----------------------------------------------------------------------------
(* A handler's rows.                                                       *)

NewBills(M, L, X) == \A i \in 1..Len(M) : i > Len(L) => M[i].bill \in X

LEMMA NewBillsOn ==
    ASSUME NEW L, NEW M, NEW N, Ledger(L), Ledger(M), Ledger(N), Continues(M, L), Continues(N, M),
           NEW X, NewBills(M, L, X), NewBills(N, M, X)
    PROVE  Continues(N, L) /\ NewBills(N, L, X)
<1>1. Len(L) \in Nat /\ Len(M) \in Nat /\ Len(N) \in Nat
  BY LedgerRows
<1>2. ASSUME NEW i \in 1..Len(N), i > Len(L) PROVE N[i].bill \in X
  <2>1. CASE i > Len(M)
    BY <2>1 DEF NewBills
  <2>2. CASE ~ (i > Len(M))
    <3>1. i \in 1..Len(M)
      BY <1>1, <2>2
    <3>2. N[i] = M[i]
      BY <3>1 DEF Continues
    <3> QED
      BY <1>2, <3>1, <3>2 DEF NewBills
  <2> QED
    BY <2>1, <2>2
<1>3. NewBills(N, L, X)
  BY <1>2 DEF NewBills
<1> QED
  BY <1>3, ContinuesOn

LEMMA RowIs ==
    ASSUME now \in Nat, NEW kind \in Kinds, NEW points \in Int, NEW bill \in Bills \cup {None}, NEW lot \in Nat,
           NEW expires \in Int, NEW r, r = Row(kind, points, bill, lot, expires)
    PROVE  /\ r \in Rows  /\ r.kind = kind  /\ r.points = points  /\ r.bill = bill  /\ r.lot = lot  /\ r.at = now
<1>1. r = [kind |-> kind, points |-> points, bill |-> bill, lot |-> lot, at |-> now, expires |-> expires]
  BY DEF Row
<1>2. now \in Int
  OBVIOUS
<1>3. r \in Rows
  BY <1>1, <1>2 DEF Rows
<1> QED
  BY <1>1, <1>3

LEMMA ExpiryIs ==
    ASSUME now \in Nat, NEW months \in Nat
    PROVE  EarnExpiry(months) \in Int /\ Never \in Int
BY DEF EarnExpiry, Never

\* A sweep writes no row of any bill.
LEMMA SweepKeeps ==
    ASSUME NEW L, Book(L), now \in Nat, NEW M, M = Sweep(L)
    PROVE  /\ Book(M)  /\ Continues(M, L)  /\ NewBills(M, L, {None})
           /\ Due(M) = {}  /\ Balance(M) = Spendable(L)
<1>1. /\ Book(M)  /\ Continues(M, L)  /\ \A i \in 1..Len(M) : i > Len(L) => M[i].kind = "expire"
      /\ Due(M) = {}  /\ Balance(M) = Spendable(L)
  BY SweepHas
<1>2. \A i \in 1..Len(M) : M[i].kind = "expire" => M[i].bill = None
  BY <1>1 DEF Book, GoodRow
<1>3. NewBills(M, L, {None})
  BY <1>1, <1>2 DEF NewBills
<1> QED
  BY <1>1, <1>3

LEMMA KeepsBook ==
    ASSUME NEW L, NEW M, Ledger(L), Ledger(M), Continues(M, L), NEW X, NewBills(M, L, X), NEW b, b \notin X,
           NEW status, NEW red, BillBook(L, b, status, red)
    PROVE  BillBook(M, b, status, red)
<1>1. \A i \in 1..Len(M) : i > Len(L) => M[i].bill # b
  BY DEF NewBills
<1> QED
  BY <1>1, OthersKeep

\* What a refund or a void writes.
LEMMA ReversedIs ==
    ASSUME NEW L, Book(L), now \in Nat, NEW b \in Bills, NEW kind \in {"refund", "void"}, NEW credit \in Int,
           Total(b) \in Int, NEW red, redeemed[b] = red, BillBook(L, b, "paid", red), NEW months,
           NEW M, M = Reversed(L, b, kind, credit, months)
    PROVE  /\ Book(M)  /\ Continues(M, L)  /\ NewBills(M, L, {b, None})
           /\ BillBook(M, b, IF kind = "void" THEN "void" ELSE "paid", red)
<1>1. PICK S : S = Sweep(L)
  OBVIOUS
<1>2. Book(S) /\ Continues(S, L) /\ NewBills(S, L, {None}) /\ Ledger(S) /\ Ledger(L)
  BY <1>1, SweepKeeps DEF Book
<1>3. BillBook(S, b, "paid", red)
  <2>1. b \notin {None}
    BY LoyaltyAssumption
  <2> QED
    BY <1>2, <2>1, KeepsBook
<1>4. PICK share : share = Share(S, b, kind, credit)
  OBVIOUS
<1>5. share \in Int /\ share <= Earned(S, b) /\ (kind = "void" => share = Earned(S, b))
  BY <1>2, <1>4, ShareIs
<1>6. PICK T : T = S \o TakeBack(S, b, share)
  OBVIOUS
<1>7. /\ Book(T)  /\ Continues(T, S)
      /\ \A i \in 1..Len(T) : i > Len(S) => T[i].bill = b /\ T[i].kind = "reverse"
      /\ BillBook(T, b, "paid", red)
      /\ share = Earned(S, b) /\ Lapsed(T, b) = 0 => BillSum(T, b) = -red
  <2>1. TakesBack(T, S, b, share, red)
    BY <1>2, <1>3, <1>5, <1>6, TakeBackIs
  <2> QED
    BY <2>1 DEF TakesBack
<1>8. Ledger(T) /\ Continues(T, L) /\ NewBills(T, L, {b, None})
  <2>1. Ledger(T)
    BY <1>7 DEF Book
  <2>2. NewBills(S, L, {b, None}) /\ NewBills(T, S, {b, None})
    BY <1>2, <1>7 DEF NewBills
  <2> QED
    BY <1>2, <1>7, <2>1, <2>2, NewBillsOn
<1>9. M = IF kind = "void" THEN GiveBack(T, b, months) ELSE T
  BY <1>1, <1>4, <1>6 DEF Reversed
<1>10. CASE kind = "void"
  <2>1. M = GiveBack(T, b, months)
    BY <1>9, <1>10
  <2>2. Lapsed(T, b) = 0 => BillSum(T, b) = -red
    BY <1>5, <1>7, <1>10
  <2>3. /\ Book(M)  /\ Continues(M, T)
        /\ \A i \in 1..Len(M) : i > Len(T) => M[i].bill = b /\ M[i].kind = "reverse"
        /\ BillBook(M, b, "void", red)
    BY <1>7, <2>1, <2>2, GiveBackIs
  <2>4. NewBills(M, T, {b, None}) /\ Ledger(M)
    BY <2>3 DEF NewBills, Book
  <2>5. Continues(M, L) /\ NewBills(M, L, {b, None})
    BY <1>2, <1>8, <2>3, <2>4, NewBillsOn
  <2> QED
    BY <1>10, <2>3, <2>5
<1>11. CASE kind = "refund"
  <2>1. M = T
    BY <1>9, <1>11
  <2> QED
    BY <1>7, <1>8, <1>11, <2>1
<1> QED
  BY <1>10, <1>11

-----------------------------------------------------------------------------
(* Points, in every state.                                                 *)

PointsInv ==
    /\ now \in Nat
    /\ redeemed \in [Bills -> Nat]
    /\ Book(ledger)
    /\ \A b \in Bills : BillBook(ledger, b, billStatus[b], redeemed[b])

\* A handler of one bill.
LEMMA OneBillKeeps ==
    ASSUME PointsInv, NEW b \in Bills, Book(ledger'), Continues(ledger', ledger), NewBills(ledger', ledger, {b, None}),
           now' = now, redeemed' \in [Bills -> Nat],
           \A c \in Bills \ {b} : redeemed'[c] = redeemed[c] /\ billStatus'[c] = billStatus[c],
           BillBook(ledger', b, billStatus'[b], redeemed'[b])
    PROVE  PointsInv'
<1>1. Ledger(ledger) /\ Ledger(ledger')
  BY DEF PointsInv, Book
<1>2. ASSUME NEW c \in Bills, c # b PROVE BillBook(ledger', c, billStatus'[c], redeemed'[c])
  <2>1. c \notin {b, None}
    BY <1>2, LoyaltyAssumption
  <2>2. BillBook(ledger, c, billStatus[c], redeemed[c])
    BY DEF PointsInv
  <2>3. BillBook(ledger', c, billStatus[c], redeemed[c])
    BY <1>1, <2>1, <2>2, KeepsBook
  <2> QED
    BY <1>2, <2>3
<1>3. \A c \in Bills : BillBook(ledger', c, billStatus'[c], redeemed'[c])
  BY <1>2
<1> QED
  BY <1>3 DEF PointsInv

\* A handler of no bill.
LEMMA NoBillKeeps ==
    ASSUME PointsInv, Book(ledger'), Continues(ledger', ledger), NewBills(ledger', ledger, {None}),
           now' \in Nat, redeemed' = redeemed, billStatus' = billStatus
    PROVE  PointsInv'
<1>1. Ledger(ledger) /\ Ledger(ledger')
  BY DEF PointsInv, Book
<1>2. ASSUME NEW c \in Bills PROVE BillBook(ledger', c, billStatus'[c], redeemed'[c])
  <2>1. c \notin {None}
    BY LoyaltyAssumption
  <2>2. BillBook(ledger, c, billStatus[c], redeemed[c])
    BY DEF PointsInv
  <2>3. BillBook(ledger', c, billStatus[c], redeemed[c])
    BY <1>1, <2>1, <2>2, KeepsBook
  <2> QED
    BY <2>3
<1> QED
  BY <1>2 DEF PointsInv

LEMMA NoRows ==
    ASSUME NEW S, Ledger(S), NEW b, \A k \in 1..Len(S) : S[k].bill # b
    PROVE  Net(S, b) = 0
<1>1. DOMAIN S = 1..Len(S)
  BY LedgerRows
<1>2. BillRows(S, b) = {} /\ EarnRows(S, b) = {} /\ BackRows(S, b) = {}
  BY <1>1 DEF BillRows, EarnRows, BackRows
<1>3. SumOf(S, {}) = 0
  BY SumOfNone DEF SumOf
<1>4. PICK x \in Int : x = SumOf(S, {})
  BY <1>3
<1>5. BillSum(S, b) = 0 /\ Earned(S, b) = 0 /\ TakenBack(S, b) = -x
  BY <1>2, <1>3, <1>4, BillSums DEF BillSum
<1>6. x <= 0 /\ x >= 0
  BY <1>3, <1>4
<1>7. TakenBack(S, b) = 0
  BY <1>5, <1>6
<1> QED
  BY <1>5, <1>7 DEF Net

\* The points a bill is paid with, before it earns any.
LEMMA RedeemBook ==
    ASSUME NEW S, NEW M, NEW r, Added(M, S, r), NEW b, r.kind = "redeem", r.bill = b,
           NEW red \in Nat, red > 0, r.points = -red, \A k \in 1..Len(S) : S[k].bill # b
    PROVE  BillBook(M, b, "paid", red)
<1>1. /\ Ledger(S)  /\ Ledger(M)  /\ Len(S) \in Nat  /\ Len(M) = Len(S) + 1  /\ M[Len(S)+1] = r
      /\ \A i \in 1..Len(S) : M[i] = S[i]
  BY LedgerRows DEF Added
<1>2. \A k \in 1..Len(M) : M[k].bill = b => k = Len(S) + 1
  <2> SUFFICES ASSUME NEW k \in 1..Len(M), M[k].bill = b, k # Len(S) + 1 PROVE FALSE
    OBVIOUS
  <2>1. k \in 1..Len(S)
    BY <1>1
  <2> QED
    BY <1>1, <2>1
<1>3. \A k \in 1..Len(M) : M[k].kind = "redeem" /\ M[k].bill = b => M[k].points = -red
  BY <1>1, <1>2
<1>4. \E k \in 1..Len(M) : M[k].kind = "redeem" /\ M[k].bill = b
  <2>1. Len(S) + 1 \in 1..Len(M)
    BY <1>1
  <2> QED
    BY <1>1, <2>1
<1>5. Net(S, b) + r.points = -red
  BY <1>1, NoRows
<1>6. Net(M, b) = Net(S, b) + r.points
  BY OwnRow
<1> QED
  BY <1>3, <1>4, <1>5, <1>6 DEF BillBook

\* What a bill earns leaves what it redeemed as it is.
LEMMA EarnBook ==
    ASSUME NEW S, NEW M, NEW r, Added(M, S, r), NEW b, r.kind = "earn", r.bill = b,
           NEW red, BillBook(S, b, "paid", red)
    PROVE  BillBook(M, b, "paid", red)
<1>1. /\ Ledger(S)  /\ Ledger(M)  /\ Len(S) \in Nat  /\ Len(M) = Len(S) + 1  /\ M[Len(S)+1] = r
      /\ \A i \in 1..Len(S) : M[i] = S[i] /\ i \in 1..Len(M)
  BY LedgerRows DEF Added
<1>2. \A k \in 1..Len(M) : M[k].kind = "redeem" => k \in 1..Len(S)
  <2> SUFFICES ASSUME NEW k \in 1..Len(M), M[k].kind = "redeem" PROVE k \in 1..Len(S)
    OBVIOUS
  <2>1. k # Len(S) + 1
    BY <1>1
  <2> QED
    BY <1>1, <2>1
<1>3. \A k \in 1..Len(M) : M[k].kind = "redeem" /\ M[k].bill = b => M[k].points = -red
  BY <1>1, <1>2 DEF BillBook
<1>4. red > 0 => \E k \in 1..Len(M) : M[k].kind = "redeem" /\ M[k].bill = b
  BY <1>1 DEF BillBook
<1>5. Net(M, b) = Net(S, b)
  BY OwnRow
<1>6. Net(S, b) = -red /\ red \in Nat
  BY DEF BillBook
<1> QED
  BY <1>3, <1>4, <1>5, <1>6 DEF BillBook

\* What issuing a bill writes: a sweep, what the bill is paid with, what it earns.
LEMMA IssuedIs ==
    ASSUME NEW L, Book(L), now \in Nat, NEW b \in Bills, \A k \in 1..Len(L) : L[k].bill # b,
           NEW r \in Nat, NEW e \in Nat, NEW months \in Nat, r > 0 => r <= Spendable(L),
           NEW S, S = IF r > 0 \/ e > 0 THEN Sweep(L) ELSE L,
           NEW R, R = S \o (IF r > 0 THEN <<Row("redeem", -r, b, 0, Never)>> ELSE <<>>),
           NEW M, M = R \o (IF e > 0 THEN <<Row("earn", e, b, 0, EarnExpiry(months))>> ELSE <<>>)
    PROVE  Book(M) /\ Continues(M, L) /\ NewBills(M, L, {b, None}) /\ BillBook(M, b, "paid", r)
<1>1. Ledger(L) /\ Len(L) \in Nat /\ Never \in Int /\ EarnExpiry(months) \in Int
  BY LedgerRows, ExpiryIs DEF Book
<1>2. Continues(L, L) /\ NewBills(L, L, {b, None})
  <2>1. \A i \in 1..Len(L) : ~ (i > Len(L))
    BY <1>1
  <2> QED
    BY <1>1, <2>1 DEF Continues, NewBills
<1>3. /\ Book(S)  /\ Ledger(S)  /\ Continues(S, L)  /\ NewBills(S, L, {b, None})
      /\ \A k \in 1..Len(S) : S[k].bill # b
      /\ r > 0 => Due(S) = {} /\ r <= Balance(S)
  <2>1. CASE r > 0 \/ e > 0
    <3>1. S = Sweep(L)
      BY <2>1
    <3>2. Book(S) /\ Continues(S, L) /\ NewBills(S, L, {None}) /\ Due(S) = {} /\ Balance(S) = Spendable(L)
      BY <3>1, SweepKeeps
    <3>3. Ledger(S) /\ NewBills(S, L, {b, None})
      BY <3>2 DEF Book, NewBills
    <3>4. ASSUME NEW k \in 1..Len(S), S[k].bill = b PROVE FALSE
      <4>1. ~ (k > Len(L))
        BY <3>2, <3>4, LoyaltyAssumption DEF NewBills
      <4>2. k \in 1..Len(L)
        BY <1>1, <4>1
      <4>3. S[k] = L[k]
        BY <3>2, <4>2 DEF Continues
      <4> QED
        BY <3>4, <4>2, <4>3
    <3>5. r > 0 => r <= Balance(S)
      BY <3>2
    <3> QED
      BY <3>2, <3>3, <3>4, <3>5
  <2>2. CASE ~ (r > 0 \/ e > 0)
    <3>1. S = L
      BY <2>2
    <3> QED
      BY <1>1, <1>2, <2>2, <3>1
  <2> QED
    BY <2>1, <2>2
<1>4. Book(R) /\ Continues(R, S) /\ NewBills(R, S, {b, None}) /\ BillBook(R, b, "paid", r)
  <2>1. CASE r > 0
    <3>1. PICK row : row = Row("redeem", -r, b, 0, Never)
      OBVIOUS
    <3>2. /\ row \in Rows  /\ row.kind = "redeem"  /\ row.points = -r  /\ row.bill = b  /\ row.lot = 0  /\ row.at = now
      <4>1. PICK p : p = -r
        OBVIOUS
      <4>2. /\ "redeem" \in Kinds  /\ b \in Bills \cup {None}  /\ 0 \in Nat  /\ p \in Int
            /\ row = Row("redeem", p, b, 0, Never)
        BY <3>1, <4>1 DEF Kinds
      <4>3. /\ row \in Rows  /\ row.kind = "redeem"  /\ row.points = p  /\ row.bill = b  /\ row.lot = 0
        <5>1. PICK e1 \in Int : e1 = Never
          BY <1>1
        <5>2. PICK k \in Kinds : k = "redeem"
          BY <4>2
        <5>3. PICK q \in Int : q = p
          BY <4>2
        <5>4. row = Row(k, q, b, 0, e1) /\ b \in Bills \cup {None} /\ 0 \in Nat
          BY <4>2, <5>1, <5>2, <5>3
        <5>5. /\ row \in Rows  /\ row.kind = k  /\ row.points = q  /\ row.bill = b  /\ row.lot = 0
          BY <5>4, RowIs
        <5> QED
          BY <5>2, <5>3, <5>5
      <4>4. row.at = now
        BY <3>1 DEF Row
      <4> QED
        BY <4>1, <4>3, <4>4
    <3>3. R = Append(S, row)
      <4>1. R = S \o <<row>> /\ S \in Seq(Rows) /\ row \in Rows
        BY <1>3, <2>1, <3>1, <3>2 DEF Ledger
      <4> QED
        BY <4>1, AppendIsConcat
    <3>4. GoodRow(row)
      <4>1. -r < 0
        BY <2>1
      <4> QED
        BY <3>2, <4>1 DEF GoodRow
    <3>5. Added(R, S, row)
      <4>1. NamesLot(row, Len(S) + 1)
        BY <3>2 DEF NamesLot
      <4> QED
        BY <1>3, <3>3, <3>2, <4>1, AppendIsAdded
    <3>6. Backed(R, S, row)
      <4>1. row.points \in Int /\ -row.points <= Balance(S)
        <5>1. -r \in Int /\ -(-r) = r
          OBVIOUS
        <5> QED
          BY <1>3, <2>1, <3>2, <5>1
      <4> QED
        BY <1>3, <2>1, <3>2, <3>5, <4>1, SpendableIsBacked
    <3>7. Book(R)
      BY <1>3, <3>2, <3>4, <3>5, <3>6, RedeemRow
    <3>8. BillBook(R, b, "paid", r)
      BY <1>3, <2>1, <3>2, <3>5, RedeemBook
    <3>9. Continues(R, S) /\ \A i \in 1..Len(R) : i > Len(S) => R[i] = row
      BY <3>5, AddedContinues
    <3>10. NewBills(R, S, {b, None})
      BY <3>2, <3>9 DEF NewBills
    <3> QED
      BY <3>7, <3>8, <3>9, <3>10
  <2>2. CASE ~ (r > 0)
    <3>1. R = S
      <4>1. R = S \o <<>> /\ S \in Seq(Rows)
        BY <1>3, <2>2 DEF Ledger
      <4> QED
        BY <4>1, ConcatEmptySeq
    <3>2. Continues(S, S) /\ NewBills(S, S, {b, None})
      <4>1. \A i \in 1..Len(S) : ~ (i > Len(S))
        BY <1>3, LedgerRows
      <4>2. Len(S) \in Nat
        BY <1>3, LedgerRows
      <4> QED
        BY <4>1, <4>2 DEF Continues, NewBills
    <3>3. BillBook(S, b, "paid", r)
      <4>1. Net(S, b) = 0
        BY <1>3, NoRows
      <4>2. r <= 0 /\ r >= 0
        BY <2>2
      <4>3. Net(S, b) = -r
        BY <4>1, <4>2
      <4> QED
        BY <1>3, <2>2, <4>3 DEF BillBook
    <3> QED
      BY <1>3, <3>1, <3>2, <3>3
  <2> QED
    BY <2>1, <2>2
<1>5. Ledger(R) /\ Continues(R, L) /\ NewBills(R, L, {b, None})
  <2>1. Ledger(R)
    BY <1>4 DEF Book
  <2> QED
    BY <1>1, <1>3, <1>4, <2>1, NewBillsOn
<1>6. CASE e > 0
  <2>1. PICK row : row = Row("earn", e, b, 0, EarnExpiry(months))
    OBVIOUS
  <2>2. /\ row \in Rows  /\ row.kind = "earn"  /\ row.points = e  /\ row.bill = b  /\ row.lot = 0
    <3>1. PICK k \in Kinds : k = "earn"
      BY DEF Kinds
    <3>2. PICK x \in Int : x = EarnExpiry(months)
      BY ExpiryIs
    <3>3. row = Row(k, e, b, 0, x) /\ b \in Bills \cup {None} /\ 0 \in Nat /\ e \in Int
      BY <2>1, <3>1, <3>2
    <3>4. /\ row \in Rows  /\ row.kind = k  /\ row.points = e  /\ row.bill = b  /\ row.lot = 0
      BY <3>3, RowIs
    <3> QED
      BY <3>1, <3>4
  <2>3. M = Append(R, row)
    <3>1. M = R \o <<row>> /\ R \in Seq(Rows) /\ row \in Rows
      BY <1>5, <1>6, <2>1, <2>2 DEF Ledger
    <3> QED
      BY <3>1, AppendIsConcat
  <2>4. GoodRow(row)
    BY <1>6, <2>2 DEF GoodRow
  <2>5. Added(M, R, row)
    <3>1. NamesLot(row, Len(R) + 1)
      BY <2>2 DEF NamesLot
    <3> QED
      BY <1>5, <2>3, <2>2, <3>1, AppendIsAdded
  <2>6. Book(M)
    BY <1>4, <2>2, <2>4, <2>5, EarnRow
  <2>7. BillBook(M, b, "paid", r)
    BY <1>4, <2>2, <2>5, EarnBook
  <2>8. Ledger(M) /\ Continues(M, R) /\ \A i \in 1..Len(M) : i > Len(R) => M[i] = row
    BY <2>5, AddedContinues
  <2>9. NewBills(M, R, {b, None})
    BY <2>2, <2>8 DEF NewBills
  <2>10. Continues(M, L) /\ NewBills(M, L, {b, None})
    BY <1>1, <1>5, <2>8, <2>9, NewBillsOn
  <2> QED
    BY <2>6, <2>7, <2>10
<1>7. CASE ~ (e > 0)
  <2>1. M = R
    <3>1. M = R \o <<>> /\ R \in Seq(Rows)
      BY <1>5, <1>7 DEF Ledger
    <3> QED
      BY <3>1, ConcatEmptySeq
  <2> QED
    BY <1>4, <1>5, <2>1
<1> QED
  BY <1>6, <1>7

-----------------------------------------------------------------------------
(* Every step keeps the books.                                             *)

\* Points given or taken by hand.
LEMMA AdjustIs ==
    ASSUME NEW L, Book(L), now \in Nat, NEW p \in Int, NEW e \in Int,
           NEW M, M = Append(Sweep(L), Row("adjust", p, None, 0, e))
    PROVE  Book(M) /\ Continues(M, L) /\ NewBills(M, L, {None})
<1>1. PICK S : S = Sweep(L)
  OBVIOUS
<1>2. Book(S) /\ Continues(S, L) /\ NewBills(S, L, {None}) /\ Ledger(S) /\ Ledger(L)
  BY <1>1, SweepKeeps DEF Book
<1>3. PICK row : row = Row("adjust", p, None, 0, e)
  OBVIOUS
<1>4. /\ row \in Rows  /\ row.kind = "adjust"  /\ row.bill = None  /\ row.lot = 0
  <2>1. PICK k \in Kinds : k = "adjust"
    BY DEF Kinds
  <2>2. PICK x : x = None
    OBVIOUS
  <2>3. /\ row = [kind |-> k, points |-> p, bill |-> x, lot |-> 0, at |-> now, expires |-> e]
        /\ x \in Bills \cup {None}  /\ 0 \in Nat  /\ now \in Int
    BY <1>3, <2>1, <2>2 DEF Row
  <2>4. row \in Rows
    BY <2>3 DEF Rows
  <2> QED
    BY <2>1, <2>2, <2>3, <2>4
<1>5. GoodRow(row)
  BY <1>4 DEF GoodRow
<1>6. Added(M, S, row)
  <2>1. NamesLot(row, Len(S) + 1)
    BY <1>4 DEF NamesLot
  <2>2. M = Append(S, row)
    BY <1>1, <1>3
  <2> QED
    BY <1>2, <1>4, <2>1, <2>2, AppendIsAdded
<1>7. Book(M)
  BY <1>2, <1>4, <1>5, <1>6, OtherRow
<1>8. Ledger(M) /\ Continues(M, S) /\ \A i \in 1..Len(M) : i > Len(S) => M[i] = row
  BY <1>6, AddedContinues
<1>9. NewBills(M, S, {None})
  BY <1>4, <1>8 DEF NewBills
<1>10. Continues(M, L) /\ NewBills(M, L, {None})
  BY <1>2, <1>8, <1>9, NewBillsOn
<1> QED
  BY <1>7, <1>10

LEMMA IssuePoints ==
    ASSUME PointsInv, CreditsInv, NEW b \in Bills, NEW r \in RedeemChoices, NEW e \in EarnChoices,
           NEW m \in Months, IssueBill(b, r, e, m)
    PROVE  PointsInv'
<1>1. r \in Nat /\ e \in Nat /\ m \in Nat
  BY LoyaltyAssumption
<1>2. /\ Book(ledger)  /\ now \in Nat  /\ redeemed \in [Bills -> Nat]
      /\ billStatus[b] = "none"  /\ billStatus \in [Bills -> BillStates]
      /\ \A k \in 1..Len(ledger) : ledger[k].bill # b
  <2>1. billStatus[b] = "none"
    BY DEF IssueBill, Issue
  <2>2. BillBook(ledger, b, "none", redeemed[b])
    BY <2>1 DEF PointsInv
  <2> QED
    BY <2>1, <2>2 DEF PointsInv, BillBook, CreditsInv, CreditsTypeOK
<1>3. PICK S : S = IF r > 0 \/ e > 0 THEN Sweep(ledger) ELSE ledger
  OBVIOUS
<1>4. PICK R : R = S \o (IF r > 0 THEN <<Row("redeem", -r, b, 0, Never)>> ELSE <<>>)
  OBVIOUS
<1>5. ledger' = R \o (IF e > 0 THEN <<Row("earn", e, b, 0, EarnExpiry(m))>> ELSE <<>>)
  BY <1>3, <1>4 DEF IssueBill
<1>6. r > 0 => r <= Spendable(ledger)
  BY DEF IssueBill
<1>7. /\ Book(ledger')  /\ Continues(ledger', ledger)  /\ NewBills(ledger', ledger, {b, None})
      /\ BillBook(ledger', b, "paid", r)
  BY <1>1, <1>2, <1>3, <1>4, <1>5, <1>6, IssuedIs
<1>8. /\ now' = now  /\ redeemed' = [redeemed EXCEPT ![b] = r]
      /\ billStatus' = [billStatus EXCEPT ![b] = "unpaid"]
  BY DEF IssueBill, Issue
<1>9. /\ redeemed' \in [Bills -> Nat]  /\ redeemed'[b] = r  /\ billStatus'[b] = "unpaid"
      /\ \A c \in Bills \ {b} : redeemed'[c] = redeemed[c] /\ billStatus'[c] = billStatus[c]
  BY <1>1, <1>2, <1>8
<1>10. BillBook(ledger', b, billStatus'[b], redeemed'[b])
  BY <1>7, <1>9 DEF BillBook
<1> QED
  BY <1>7, <1>8, <1>9, <1>10, OneBillKeeps

\* Settling only changes what a bill's status is called.
LEMMA SettlePoints ==
    ASSUME PointsInv, CreditsInv, NEW b \in Bills, NEW payments, SettleBill(b, payments)
    PROVE  PointsInv'
<1>1. /\ billStatus[b] = "unpaid"  /\ billStatus' = [billStatus EXCEPT ![b] = "paid"]
      /\ ledger' = ledger  /\ now' = now  /\ redeemed' = redeemed  /\ billStatus \in [Bills -> BillStates]
  BY DEF SettleBill, Settle, pointVars, CreditsInv, CreditsTypeOK
<1>2. ASSUME NEW c \in Bills PROVE BillBook(ledger', c, billStatus'[c], redeemed'[c])
  <2>1. BillBook(ledger, c, billStatus[c], redeemed[c])
    BY DEF PointsInv
  <2>2. CASE c = b
    <3>1. BillBook(ledger, b, "unpaid", redeemed[b])
      BY <1>1, <2>1, <2>2
    <3>2. BillBook(ledger, b, "paid", redeemed[b])
      BY <3>1 DEF BillBook
    <3> QED
      BY <1>1, <2>2, <3>2
  <2>3. CASE c # b
    BY <1>1, <2>1, <2>3
  <2> QED
    BY <2>2, <2>3
<1> QED
  BY <1>1, <1>2 DEF PointsInv

LEMMA CreditIsInt ==
    ASSUME CreditsInv', NEW b \in Bills
    PROVE  Credited(b)' \in Int
<1>1. OnLines(b, credited')
  BY DEF CreditsInv, CreditsTypeOK, OnLines, LinesOf
<1> QED
  BY <1>1, LinesSum, CreditedIs

LEMMA RefundPoints ==
    ASSUME PointsInv, CreditsInv, CreditsInv', NEW b \in Bills, NEW want, NEW asked, RefundBill(b, want, asked)
    PROVE  PointsInv'
<1>1. /\ billStatus[b] = "paid"  /\ billStatus' = billStatus  /\ now' = now  /\ redeemed' = redeemed
      /\ ledger' = Reversed(ledger, b, "refund", Credited(b)', 0)
  BY DEF RefundBill, Refund
<1>2. /\ Book(ledger)  /\ now \in Nat  /\ redeemed \in [Bills -> Nat]  /\ BillBook(ledger, b, "paid", redeemed[b])
  BY <1>1 DEF PointsInv
<1>3. PICK credit \in Int : credit = Credited(b)'
  BY CreditIsInt
<1>4. PICK red : red = redeemed[b]
  OBVIOUS
<1>5. PICK kind \in {"refund", "void"} : kind = "refund"
  OBVIOUS
<1>6. ledger' = Reversed(ledger, b, kind, credit, 0) /\ Total(b) \in Int
  BY <1>1, <1>3, <1>5, TotalIs
<1>7. /\ Book(ledger')  /\ Continues(ledger', ledger)  /\ NewBills(ledger', ledger, {b, None})
      /\ BillBook(ledger', b, IF kind = "void" THEN "void" ELSE "paid", red)
  BY <1>2, <1>4, <1>6, ReversedIs
<1>8. BillBook(ledger', b, billStatus'[b], redeemed'[b])
  BY <1>1, <1>4, <1>5, <1>7
<1> QED
  BY <1>1, <1>2, <1>7, <1>8, OneBillKeeps

LEMMA VoidPoints ==
    ASSUME PointsInv, CreditsInv, CreditsInv', NEW b \in Bills, NEW asked, NEW m \in Months, VoidBill(b, asked, m)
    PROVE  PointsInv'
<1>1. /\ billStatus[b] \in {"unpaid", "paid"}  /\ billStatus' = [billStatus EXCEPT ![b] = "void"]
      /\ now' = now  /\ redeemed' = redeemed  /\ billStatus \in [Bills -> BillStates]
      /\ ledger' = Reversed(ledger, b, "void", Credited(b)', m)
  BY DEF VoidBill, Void, CreditsInv, CreditsTypeOK
<1>2. /\ Book(ledger)  /\ now \in Nat  /\ redeemed \in [Bills -> Nat]  /\ BillBook(ledger, b, "paid", redeemed[b])
  <2>1. BillBook(ledger, b, billStatus[b], redeemed[b])
    BY DEF PointsInv
  <2>2. BillBook(ledger, b, "paid", redeemed[b])
    BY <1>1, <2>1 DEF BillBook
  <2> QED
    BY <2>2 DEF PointsInv
<1>3. PICK credit \in Int : credit = Credited(b)'
  BY CreditIsInt
<1>4. PICK red : red = redeemed[b]
  OBVIOUS
<1>5. PICK kind \in {"refund", "void"} : kind = "void"
  OBVIOUS
<1>6. ledger' = Reversed(ledger, b, kind, credit, m) /\ Total(b) \in Int
  BY <1>1, <1>3, <1>5, TotalIs
<1>7. /\ Book(ledger')  /\ Continues(ledger', ledger)  /\ NewBills(ledger', ledger, {b, None})
      /\ BillBook(ledger', b, IF kind = "void" THEN "void" ELSE "paid", red)
  BY <1>2, <1>4, <1>6, ReversedIs
<1>8. /\ billStatus'[b] = "void"
      /\ \A c \in Bills \ {b} : redeemed'[c] = redeemed[c] /\ billStatus'[c] = billStatus[c]
  BY <1>1
<1>9. BillBook(ledger', b, billStatus'[b], redeemed'[b])
  BY <1>1, <1>4, <1>5, <1>7, <1>8
<1> QED
  BY <1>1, <1>2, <1>7, <1>8, <1>9, OneBillKeeps

LEMMA PointsBegin ==
    Init => PointsInv
<1> SUFFICES ASSUME Init PROVE PointsInv
  OBVIOUS
<1>1. ledger = <<>> /\ now = 0 /\ redeemed = [b \in Bills |-> 0] /\ Len(ledger) = 0 /\ 1..0 = {}
  BY DEF Init
<1>2. Ledger(ledger)
  BY <1>1 DEF Ledger
<1>3. ASSUME NEW b \in Bills PROVE NotLost(ledger, b) /\ BillBook(ledger, b, billStatus[b], redeemed[b])
  <2>1. Net(ledger, b) = 0
    BY <1>1, <1>2, NoRows
  <2>2. DOMAIN ledger = {}
    BY <1>1
  <2>3. /\ EarnRows(ledger, b) = {}  /\ BackRows(ledger, b) = {}  /\ BillRows(ledger, b) = {}
    BY <2>2 DEF EarnRows, BackRows, BillRows
  <2>4. SumOf(ledger, {}) = 0 /\ Sum(Replay(ledger).left, {}) = 0
    BY SumOfNone DEF SumOf
  <2>5. Lapsed(ledger, b) = 0
    <3>1. Unexpired(ledger)
      BY <1>1 DEF Unexpired
    <3> QED
      BY <1>2, <3>1, NoneLapsed
  <2>6. Earned(ledger, b) = 0 /\ BillSum(ledger, b) = 0 /\ TakenBack(ledger, b) \in Int
    BY <1>2, <2>3, <2>4, BillSums DEF BillSum
  <2>7. TakenBack(ledger, b) = 0
    BY <2>1, <2>6 DEF Net
  <2>8. NotLost(ledger, b)
    BY <2>3, <2>4, <2>5, <2>6, <2>7 DEF NotLost
  <2>9. PICK red \in Nat : red = redeemed[b] /\ red <= 0 /\ red >= 0
    BY <1>1
  <2>10. Net(ledger, b) = -red
    BY <2>1, <2>9
  <2>11. \A k \in 1..Len(ledger) : FALSE
    BY <1>1
  <2>12. red = 0 /\ ~ (red > 0)
    BY <2>9
  <2>13. BillBook(ledger, b, billStatus[b], red)
    BY <2>6, <2>10, <2>11, <2>12 DEF BillBook
  <2> QED
    BY <2>8, <2>9, <2>13
<1>4. Book(ledger)
  <2>1. \A k \in 1..Len(ledger) : FALSE
    BY <1>1
  <2> QED
    BY <1>2, <1>3, <2>1 DEF Book
<1>5. now \in Nat /\ redeemed \in [Bills -> Nat]
  BY <1>1
<1> QED
  BY <1>3, <1>4, <1>5 DEF PointsInv

LEMMA PointsStep ==
    CreditsInv /\ CreditsInv' /\ PointsInv /\ [Next]_loyaltyVars => PointsInv'
<1> SUFFICES ASSUME CreditsInv, CreditsInv', PointsInv, [Next]_loyaltyVars PROVE PointsInv'
  OBVIOUS
<1>1. CASE \E b \in Bills, r \in RedeemChoices, e \in EarnChoices, m \in Months : IssueBill(b, r, e, m)
  BY <1>1, IssuePoints
<1>2. CASE \E b \in Bills : \E payments \in Amounts(b) : SettleBill(b, payments)
  BY <1>2, SettlePoints
<1>3. CASE \E b \in Bills : \E want \in Wants(b), asked \in Amounts(b) : RefundBill(b, want, asked)
  BY <1>3, RefundPoints
<1>4. CASE \E b \in Bills : \E asked \in Amounts(b), m \in Months : VoidBill(b, asked, m)
  BY <1>4, VoidPoints
<1>5. CASE \E p \in AdjustChoices, m \in Months : Adjust(p, m)
  <2>1. PICK p \in AdjustChoices, m \in Months : Adjust(p, m)
    BY <1>5
  <2>2. p \in Int /\ m \in Nat /\ Book(ledger) /\ now \in Nat
    BY LoyaltyAssumption DEF PointsInv
  <2>3. PICK e : e = IF p > 0 THEN EarnExpiry(m) ELSE Never
    OBVIOUS
  <2>4. e \in Int
    BY <2>2, <2>3, ExpiryIs
  <2>5. /\ ledger' = Append(Sweep(ledger), Row("adjust", p, None, 0, e))
        /\ now' = now  /\ redeemed' = redeemed  /\ billStatus' = billStatus
    BY <2>1, <2>3 DEF Adjust, creditVars
  <2>6. Book(ledger') /\ Continues(ledger', ledger) /\ NewBills(ledger', ledger, {None})
    BY <2>2, <2>4, <2>5, AdjustIs
  <2> QED
    BY <2>2, <2>5, <2>6, NoBillKeeps
<1>6. CASE SweepAll
  <2>1. /\ ledger' = Sweep(ledger)  /\ now' = now  /\ redeemed' = redeemed  /\ billStatus' = billStatus
        /\ Book(ledger)  /\ now \in Nat
    BY <1>6 DEF SweepAll, creditVars, PointsInv
  <2>2. Book(ledger') /\ Continues(ledger', ledger) /\ NewBills(ledger', ledger, {None})
    BY <2>1, SweepKeeps
  <2> QED
    BY <2>1, <2>2, NoBillKeeps
<1>7. CASE TimePasses \/ UNCHANGED loyaltyVars
  <2>1. /\ now' \in Nat  /\ ledger' = ledger  /\ redeemed' = redeemed  /\ billStatus' = billStatus
    BY <1>7 DEF TimePasses, loyaltyVars, pointVars, creditVars, PointsInv
  <2> QED
    BY <2>1 DEF PointsInv
<1> QED
  BY <1>1, <1>2, <1>3, <1>4, <1>5, <1>6, <1>7 DEF Next

-----------------------------------------------------------------------------
(* What a customer has when every bill is void.                            *)

LEMMA BillsBalance ==
    ASSUME NEW L, Book(L), Unexpired(L), \A b \in Bills : BillSum(L, b) = 0
    PROVE  Balance(L) = SumOf(L, {i \in DOMAIN L : L[i].kind = "adjust"})
<1>1. Ledger(L) /\ Len(L) \in Nat /\ DOMAIN L = 1..Len(L)
  BY LedgerRows DEF Book
<1>2. PICK N : N = 1..Len(L)
  OBVIOUS
<1>3. PICK A : A = {i \in N : L[i].kind = "adjust"}
  OBVIOUS
<1>4. PICK D : D = N \ A
  OBVIOUS
<1>5. PICK f : f = PointsOf(L)
  OBVIOUS
<1>6. /\ Summable(f, N)  /\ A \in SUBSET N  /\ D \in SUBSET N  /\ IsFiniteSet(N)
  <2>1. N \in SUBSET (1..Len(L)) /\ A \in SUBSET N /\ D \in SUBSET N
    BY <1>2, <1>3, <1>4
  <2>2. N \in SUBSET (1..Len(L))
    BY <2>1
  <2>3. Summable(PointsOf(L), N)
    BY <1>1, <2>2, PointsSum
  <2>4. Summable(f, N)
    BY <1>5, <2>3
  <2>5. IsFiniteSet(N)
    BY <2>4 DEF Summable
  <2> QED
    BY <2>1, <2>4, <2>5
<1>7. \A i \in D : L[i].bill \in Bills
  <2> SUFFICES ASSUME NEW i \in D PROVE L[i].bill \in Bills
    OBVIOUS
  <2>1. i \in 1..Len(L) /\ L[i].kind # "adjust"
    BY <1>2, <1>3, <1>4
  <2>2. L[i].kind # "expire" /\ GoodRow(L[i]) /\ L[i].kind \in Kinds
    BY <1>1, <2>1, LedgerRows DEF Unexpired, Book
  <2> QED
    BY <2>1, <2>2 DEF GoodRow, Kinds
<1>8. \A b \in Bills : BillRows(L, b) = {i \in D : L[i].bill = b}
  <2> SUFFICES ASSUME NEW b \in Bills PROVE BillRows(L, b) = {i \in D : L[i].bill = b}
    OBVIOUS
  <2>1. \A i \in N : L[i].kind = "adjust" => L[i].bill = None
    BY <1>2 DEF Book, GoodRow
  <2>2. \A i \in A : L[i].bill # b
    BY <1>3, <2>1, LoyaltyAssumption
  <2> QED
    BY <1>1, <1>2, <1>4, <2>2 DEF BillRows
<1>9. PICK C : C = {L[i].bill : i \in D}
  OBVIOUS
<1>10. IsFiniteSet(C) /\ C \in SUBSET Bills /\ \A i \in D : L[i].bill \in C
  <2>1. IsFiniteSet(D)
    BY <1>6, FS_Subset
  <2> DEFINE g == [i \in D |-> L[i].bill]
  <2>2. g \in [D -> C] /\ \A c \in C : \E i \in D : g[i] = c
    BY <1>9
  <2> HIDE DEF g
  <2>3. g \in Surjection(D, C)
    BY <2>2 DEF Surjection
  <2>4. IsFiniteSet(C)
    BY <2>1, <2>3, FS_Surjection
  <2> QED
    BY <1>7, <1>9, <2>4
<1> DEFINE rowsOf(U) == {i \in D : L[i].bill \in U}
           Q == {U \in SUBSET C : Sum(f, rowsOf(U)) # 0}
<1>11. ASSUME Q # {} PROVE FALSE
  <2>1. PICK U \in Q : \A b \in U : U \ {b} \notin Q
    <3>1. Q \in SUBSET SUBSET C
      OBVIOUS
    <3> HIDE DEF Q
    <3> QED
      BY <1>10, <1>11, <3>1, SmallestSet
  <2>2. CASE U = {}
    <3>1. rowsOf(U) = {}
      BY <2>2
    <3> QED
      BY <2>1, <3>1, SumOfNone
  <2>3. ASSUME NEW b \in U PROVE FALSE
    <3>1. b \in Bills /\ Sum(f, rowsOf(U \ {b})) = 0
      BY <1>10, <2>1, <2>3
    <3>2. PICK V : V = rowsOf(U)
      OBVIOUS
    <3>3. PICK B : B = BillRows(L, b)
      OBVIOUS
    <3>4. B = {i \in D : L[i].bill = b}
      BY <1>8, <3>1, <3>3
    <3>5. B \in SUBSET V /\ V \ B = rowsOf(U \ {b}) /\ V \in SUBSET N
      BY <1>6, <2>3, <3>2, <3>4
    <3>6. Summable(f, V)
      BY <1>6, <3>5, PartSummable
    <3>7. Sum(f, V) = Sum(f, B) + Sum(f, V \ B)
      BY <3>5, <3>6, SumSplits
    <3>8. Sum(f, B) = 0
      BY <1>5, <3>1, <3>3 DEF BillSum, SumOf
    <3>9. Sum(f, V) = 0
      <4> HIDE DEF rowsOf
      <4>1. Sum(f, V \ B) = 0
        BY <3>1, <3>5
      <4> QED
        BY <3>7, <3>8, <4>1
    <3> QED
      BY <2>1, <3>2, <3>9
  <2> QED
    BY <2>2, <2>3
<1>12. rowsOf(C) = D
  BY <1>10
<1>13. Sum(f, D) = 0
  <2>1. Sum(f, rowsOf(C)) = 0
    BY <1>11
  <2> QED
    BY <1>12, <2>1
<1>14. Sum(f, N) = Sum(f, A) + Sum(f, D) /\ Sum(f, A) \in Int
  BY <1>4, <1>6, SumSplits
<1>15. Sum(f, N) = Sum(f, A)
  BY <1>13, <1>14
<1> QED
  BY <1>1, <1>2, <1>3, <1>5, <1>15 DEF Balance, SumOf

-----------------------------------------------------------------------------
(* Theorems.                                                               *)

LEMMA PointsHold == Spec => [](CreditsInv /\ PointsInv)
<1>1. Init => CreditsInv /\ PointsInv
  BY CreditsBegin, PointsBegin
<1>2. (CreditsInv /\ PointsInv) /\ [Next]_loyaltyVars => (CreditsInv /\ PointsInv)'
  BY CreditsStep, PointsStep
<1> QED
  BY <1>1, <1>2, PTL DEF Spec

\* However redemptions, expiry, voids, refunds and adjustments interleave, no redemption leaves the customer owing points.
THEOREM RedemptionsAreBacked == Spec => []RedeemsAreBacked
<1>1. PointsInv => RedeemsAreBacked
  <2> SUFFICES ASSUME PointsInv, NEW k \in DOMAIN ledger, ledger[k].kind = "redeem"
               PROVE  After(ledger)[k].debt = After(ledger)[k-1].debt
    BY DEF RedeemsAreBacked
  <2>1. Book(ledger) /\ k \in 1..Len(ledger)
    BY LedgerRows DEF PointsInv, Book
  <2> QED
    BY <2>1 DEF Book
<1> QED
  BY <1>1, PointsHold, PTL

\* When expired points are written off makes no difference to what the customer can spend.
THEOREM SweepsAreInvisible == Spec => []SweepIsInvisible
<1>1. PointsInv => SweepIsInvisible
  <2> SUFFICES ASSUME PointsInv PROVE SweepIsInvisible
    OBVIOUS
  <2>1. Book(ledger) /\ now \in Nat
    BY DEF PointsInv
  <2>2. Due(Sweep(ledger)) = {} /\ Balance(Sweep(ledger)) = Spendable(ledger)
    BY <2>1, SweepKeeps
  <2> QED
    BY <2>2 DEF SweepIsInvisible
<1> QED
  BY <1>1, PointsHold, PTL

\* No point a bill earned is taken twice, and voids undo their bills.
THEOREM TakenBackOnlyOnce == Spec => []TakenBackOnce
<1>1. PointsInv => TakenBackOnce
  <2> SUFFICES ASSUME PointsInv PROVE TakenBackOnce
    OBVIOUS
  <2>1. Book(ledger) /\ Ledger(ledger) /\ DOMAIN ledger = 1..Len(ledger)
    BY LedgerRows DEF PointsInv, Book
  <2>2. \A b \in Bills : TakenBack(ledger, b) + Lapsed(ledger, b) <= Earned(ledger, b)
    BY <2>1, SignsOf
  <2>3. ASSUME \A b \in Bills : billStatus[b] \in {"none", "void"}, \A i \in DOMAIN ledger : ledger[i].kind # "expire"
        PROVE  Balance(ledger) = SumOf(ledger, {i \in DOMAIN ledger : ledger[i].kind = "adjust"})
    <3>1. Unexpired(ledger)
      BY <2>1, <2>3 DEF Unexpired
    <3>2. ASSUME NEW b \in Bills PROVE BillSum(ledger, b) = 0
      <4>1. BillBook(ledger, b, billStatus[b], redeemed[b])
        BY DEF PointsInv
      <4>2. CASE billStatus[b] = "void"
        BY <3>1, <4>1, <4>2 DEF BillBook
      <4>3. CASE billStatus[b] = "none"
        <5>1. \A k \in 1..Len(ledger) : ledger[k].bill # b
          BY <4>1, <4>3 DEF BillBook
        <5>2. BillRows(ledger, b) = {}
          BY <2>1, <5>1 DEF BillRows
        <5> QED
          BY <5>2, SumOfNone DEF BillSum, SumOf
      <4> QED
        BY <2>3, <4>2, <4>3
    <3> QED
      BY <2>1, <3>1, <3>2, BillsBalance
  <2> QED
    BY <2>2, <2>3 DEF TakenBackOnce
<1> QED
  BY <1>1, PointsHold, PTL
=============================================================================
