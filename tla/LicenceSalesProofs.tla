------------------------- MODULE LicenceSalesProofs -------------------------
(***************************************************************************)
(* LicenceSales, for any counters, orders, terms, prices, days and number  *)
(* of calls at work: what an order sells is given once.  A licence comes   *)
(* from a draft a call made earlier, of things it read earlier still, so   *)
(* the invariant says what is true of every draft (DraftOK) whatever other *)
(* calls wrote since.  That the end of an order's term cannot have moved   *)
(* between the draft and its batch rests on the day: calls end before the  *)
(* next one begins, and the first licence of an order fixes the day on     *)
(* which its term began.                                                   *)
(***************************************************************************)
EXTENDS LicenceSales, TLAPS, FiniteSetTheorems, WellFoundedInduction

Paid(s) == status[s] = "paid" /\ cleared[s] >= Price[s]

LicenceRecords ==
    [rev : Nat, issued : Nat, until : Nat, trial : BOOLEAN, order : Sales \cup {None}, reason : {"order", "manual"}]

\* Also what a hub holds: no licence, or one issued by hand.
HeldRecords ==
    [rev : Nat, issued : Nat, until : Nat, trial : BOOLEAN, order : Sales \cup {None},
     reason : {"none", "order", "manual", "hand"}]

DraftRecords ==
    [counter : Counters, rev : Nat, until : Nat, trial : BOOLEAN, order : Sales \cup {None}, reason : {"order", "manual"}]

OrderStates == {"none", "draft", "confirmed", "paid", "cancelled"}

SalesTypeOK ==
    /\ now \in Nat
    /\ floor \in [Counters -> Nat]
    /\ held \in [Counters -> HeldRecords]  /\ post \in [Counters -> HeldRecords]
    /\ issued \in [Counters -> SUBSET LicenceRecords]
    /\ status \in [Sales -> OrderStates]
    /\ credit \in [Sales -> Nat]  /\ cleared \in [Sales -> Nat]  /\ owing \in [Sales -> Nat]
    /\ targets \in [Sales -> SUBSET Counters]
    /\ calls = [k \in Slots |-> calls[k]]

\* No licence is of a later day, and the revisions of a counter are bounded, so one is the latest.
IssuedOK ==
    \A c \in Counters :
        /\ \A l \in issued[c] : l.issued <= now
        /\ \E n \in Nat : \A l \in issued[c] : l.rev <= n

\* What a draft grants is no more than its order sells; one of a renewal that grants nothing new is of a renewal that was paid.
DraftOK(d) ==
    /\ d \in DraftRecords
    /\ d.reason = "order" => d.order \in Sales
    /\ \A s \in Sales :
          d.order = s =>
              /\ Kind[s] # "renewal" /\ d.reason = "order" => d.until <= OrderEnd(s)
              /\ Kind[s] = "renewal" /\ d.reason = "manual" => Paid(s)

\* A call drafts one licence per counter, and only a settlement that found its order covered drafts for a renewal.
CallOK(call) ==
    /\ {"op", "phase", "drafts"} \subseteq DOMAIN call
    /\ \A d \in call.drafts : DraftOK(d)
    /\ \A d, e \in call.drafts : d.counter = e.counter => d = e
    /\ call.op \in {"settle", "credit"} => "order" \in DOMAIN call /\ call.order \in Sales
    /\ call.op = "settle" =>
          /\ "amount" \in DOMAIN call /\ call.amount \in Nat
          /\ \A d \in call.drafts : d.reason = "order" /\ d.order = call.order
          /\ call.phase \in {"looking", "signing", "writing"} => cleared[call.order] >= Price[call.order]
    /\ call.op # "settle" => \A d \in call.drafts : d.reason = "order" => Kind[d.order] # "renewal"
    /\ call.op = "credit" => {"day", "seats"} \subseteq DOMAIN call /\ call.day \in Nat /\ call.seats \subseteq Counters
    /\ call.op \in {"assign", "replace", "check"} => "counter" \in DOMAIN call /\ call.counter \in Counters
    /\ call.op = "assign" => call.drafts # {}

CallsOK == \A k \in Slots : calls[k] # None => CallOK(calls[k])

\* SoldOnce, with "at most one" in a form that steps can be shown to keep.
Sold ==
    \A s \in Sales, c \in Counters :
        LET granted == {l \in issued[c] : l.order = s /\ l.reason = "order"} IN
        /\ Kind[s] = "renewal" =>
              /\ \A l, m \in granted : l = m
              /\ \A l \in issued[c] : l.order = s => Paid(s)
        /\ Kind[s] # "renewal" => \A l \in granted : l.until <= OrderEnd(s)

SalesInv == SalesTypeOK /\ IssuedOK /\ CallsOK /\ Sold

-----------------------------------------------------------------------------
(* The least and the largest of naturals: the first day, the latest licence.*)

\* Every set of naturals has a least one.
LEMMA LeastNatural ==
    ASSUME NEW S \in SUBSET Nat, S # {}
    PROVE  \E n \in S : \A m \in S : n <= m
<1> DEFINE R == {p \in Nat \X Nat : p[1] < p[2]}
<1>1. R = OpToRel(<, Nat)
  BY DEF OpToRel
<1>2. IsWellFoundedOn(R, Nat)
  BY <1>1, NatLessThanWellFounded
<1>3. \A m, n \in Nat : m < n => <<m, n>> \in R
  OBVIOUS
<1> HIDE DEF R
<1>4. \E n \in S : \A m \in S : ~ (<<m, n>> \in R)
  BY <1>2, WFMin
<1>5. PICK n \in S : \A m \in S : ~ (<<m, n>> \in R)
  BY <1>4
<1>6. ASSUME NEW m \in S PROVE n <= m
  <2>1. m \in Nat /\ n \in Nat
    OBVIOUS
  <2>2. ~ (m < n)
    BY <1>3, <1>5, <2>1
  <2> QED
    BY <2>1, <2>2
<1> QED
  BY <1>6

\* A bounded set of naturals has a largest one.
LEMMA LargestNatural ==
    ASSUME NEW S \in SUBSET Nat, S # {}, NEW n \in Nat, \A m \in S : m <= n
    PROVE  \E k \in S : \A m \in S : m <= k
<1> DEFINE U == {u \in Nat : \A m \in S : m <= u}
<1>1. PICK k \in U : \A u \in U : k <= u
  BY LeastNatural
<1>2. ASSUME k \notin S PROVE FALSE
  <2>1. PICK m \in S : TRUE
    OBVIOUS
  <2>2. \A x \in S : x \in Nat /\ x <= k /\ x # k
    BY <1>2
  <2>3. k - 1 \in Nat /\ \A x \in S : x <= k - 1
    BY <2>1, <2>2
  <2>4. k - 1 \in U
    BY <2>3
  <2> QED
    BY <1>1, <2>4
<1> QED
  BY <1>1, <1>2

\* Latest(c) is a licence of the counter or, if it has none, no licence.
LEMMA LatestIs ==
    ASSUME SalesTypeOK, IssuedOK, NEW c \in Counters
    PROVE  /\ Latest(c) \in HeldRecords
           /\ Latest(c) \in issued[c] \/ Latest(c) = NoLicence
           /\ \A m \in issued[c] : m.rev <= Latest(c).rev
<1> DEFINE revs == {l.rev : l \in issued[c]}
<1>1. issued[c] \subseteq LicenceRecords
  BY DEF SalesTypeOK
<1>2. \E l \in issued[c] \cup {NoLicence} : \A m \in issued[c] : m.rev <= l.rev
  <2>1. CASE issued[c] = {}
    BY <2>1
  <2>2. CASE issued[c] # {}
    <3>1. revs \in SUBSET Nat /\ revs # {}
      BY <1>1, <2>2 DEF LicenceRecords
    <3>2. PICK n \in Nat : \A m \in revs : m <= n
      BY DEF IssuedOK
    <3>3. PICK r \in revs : \A m \in revs : m <= r
      BY <3>1, <3>2, LargestNatural
    <3> QED
      BY <3>3
  <2> QED
    BY <2>1, <2>2
<1>3. /\ Latest(c) \in issued[c] \cup {NoLicence}
      /\ \A m \in issued[c] : m.rev <= Latest(c).rev
  BY <1>2 DEF Latest
<1>4. NoLicence \in HeldRecords
  BY DEF NoLicence, HeldRecords
<1>5. LicenceRecords \subseteq HeldRecords
  BY DEF LicenceRecords, HeldRecords
<1> QED
  BY <1>1, <1>3, <1>4, <1>5

\* The days on which licences of an order were issued.
DaysOf(s) == {l.issued : l \in {m \in UNION {issued[c] : c \in Counters} : m.order = s}}

\* The term of an order began on the first of them, or would begin today.
LEMMA FirstDay ==
    ASSUME NEW D \in SUBSET Nat, NEW today \in Nat,
           NEW first, first = IF D = {} THEN today ELSE CHOOSE d \in D : \A e \in D : d <= e
    PROVE  /\ first \in Nat
           /\ D = {} => first = today
           /\ D # {} => first \in D /\ \A e \in D : first <= e
  BY LeastNatural

LEMMA DaysAreNat ==
    ASSUME NEW s
    PROVE  /\ SalesTypeOK => DaysOf(s) \subseteq Nat
           /\ SalesTypeOK' => DaysOf(s)' \subseteq Nat
  BY DEF SalesTypeOK, LicenceRecords, DaysOf

LEMMA TermStartIs ==
    ASSUME NEW s
    PROVE  /\ TermStart(s) = IF DaysOf(s) = {} THEN now ELSE CHOOSE d \in DaysOf(s) : \A e \in DaysOf(s) : d <= e
           /\ TermStart(s)' = IF DaysOf(s)' = {} THEN now' ELSE CHOOSE d \in DaysOf(s)' : \A e \in DaysOf(s)' : d <= e
  BY DEF TermStart, DaysOf

LEMMA OrderEndIsNat ==
    ASSUME SalesTypeOK, NEW s \in Sales
    PROVE  OrderEnd(s) \in Nat
<1>1. now \in Nat
  BY DEF SalesTypeOK
<1>2. TermStart(s) \in Nat
  BY <1>1, FirstDay, DaysAreNat, TermStartIs
<1> QED
  BY <1>2, LicencesAssumption DEF OrderEnd

\* Licences issued today do not move the term of an order that has some, nor that of one that has none.
IssuesToday ==
    /\ now' = now
    /\ \A c \in Counters : /\ issued[c] \subseteq issued'[c]
                           /\ \A l \in issued'[c] : l \in issued[c] \/ l.issued = now

LEMMA TermStays ==
    ASSUME SalesTypeOK, SalesTypeOK', IssuedOK, IssuesToday, NEW s \in Sales
    PROVE  OrderEnd(s)' = OrderEnd(s)
<1>1. /\ DaysOf(s) \in SUBSET Nat  /\ DaysOf(s)' \in SUBSET Nat  /\ now \in Nat  /\ now' = now
  BY DaysAreNat DEF SalesTypeOK, IssuesToday
<1>2. DaysOf(s) \subseteq DaysOf(s)'
  BY DEF IssuesToday, DaysOf
<1>3. \A d \in DaysOf(s)' : d \in DaysOf(s) \/ d = now
  BY DEF IssuesToday, DaysOf
<1>4. \A d \in DaysOf(s) : d <= now
  BY DEF IssuedOK, DaysOf
<1> DEFINE D == DaysOf(s)  D1 == DaysOf(s)'  t == TermStart(s)  t1 == TermStart(s)'
<1> HIDE DEF D, D1, t, t1
<1>5. /\ t \in Nat
      /\ D = {} => t = now
      /\ D # {} => t \in D /\ \A e \in D : t <= e
  BY <1>1, FirstDay, TermStartIs DEF D, t
<1>6. /\ t1 \in Nat
      /\ D1 = {} => t1 = now
      /\ D1 # {} => t1 \in D1 /\ \A e \in D1 : t1 <= e
  BY <1>1, FirstDay, TermStartIs DEF D1, t1
<1>7. /\ D \subseteq D1  /\ D1 \subseteq Nat  /\ now \in Nat
      /\ \A d \in D1 : d \in D \/ d = now
      /\ \A d \in D : d <= now
  BY <1>1, <1>2, <1>3, <1>4 DEF D, D1
<1>8. t1 = t
  <2>1. CASE D = {}
    BY <2>1, <1>5, <1>6, <1>7
  <2>2. CASE D # {}
    <3>1. t \in D /\ t \in D1 /\ t <= now /\ t1 \in D1 /\ t1 <= t
      BY <2>2, <1>5, <1>6, <1>7
    <3>2. t1 \in D => t <= t1
      BY <2>2, <1>5
    <3> QED
      BY <3>1, <3>2, <1>5, <1>6, <1>7
  <2> QED
    BY <2>1, <2>2
<1> QED
  BY <1>8 DEF OrderEnd, t, t1


-----------------------------------------------------------------------------
(* What every step but the end of a day keeps.                             *)

\* Money is only ever added, and an order stays paid.
MoneyGrows ==
    \A s \in Sales : /\ Paid(s) => Paid(s)'
                     /\ cleared[s] \in Nat /\ cleared'[s] \in Nat /\ cleared[s] <= cleared'[s]

\* What was true of a call is true of it after the steps of others.
LEMMA CallStays ==
    ASSUME NEW call, CallOK(call), MoneyGrows, \A s \in Sales : OrderEnd(s)' = OrderEnd(s)
    PROVE  CallOK(call)'
<1>1. ASSUME NEW d, DraftOK(d) PROVE DraftOK(d)'
  BY <1>1 DEF DraftOK, MoneyGrows
<1>2. \A d \in call.drafts : DraftOK(d)'
  BY <1>1 DEF CallOK
<1>3. ASSUME NEW s \in Sales, cleared[s] >= Price[s] PROVE cleared'[s] >= Price[s]
  BY <1>3, SalesAssumption DEF MoneyGrows
<1> QED
  BY <1>2, <1>3 DEF CallOK

\* The batch of a call adds its drafts as licences of today.
LEMMA LicencesAreNew ==
    ASSUME SalesTypeOK, NEW call, CallOK(call), Insert(call.drafts), NEW c \in Counters
    PROVE  /\ issued[c] \subseteq issued'[c]
           /\ \A l \in issued'[c] : \/ l \in issued[c]
                                    \/ \E d \in call.drafts : d.counter = c /\ l = LicenceOf(d)
           /\ \A d \in call.drafts : LicenceOf(d) \in LicenceRecords /\ LicenceOf(d).issued = now
  <1>1. issued'[c] = issued[c] \cup {LicenceOf(d) : d \in {e \in call.drafts : e.counter = c}}
    BY DEF Insert
  <1>2. ASSUME NEW d \in call.drafts PROVE LicenceOf(d) \in LicenceRecords /\ LicenceOf(d).issued = now
    <2>1. d \in DraftRecords /\ now \in Nat
      BY DEF CallOK, DraftOK, SalesTypeOK
    <2> QED
      BY <2>1 DEF LicenceOf, DraftRecords, LicenceRecords
  <1> QED
    BY <1>1, <1>2

LEMMA InsertIssuesToday ==
    ASSUME SalesTypeOK, NEW call, CallOK(call), Insert(call.drafts), now' = now
    PROVE  IssuesToday /\ issued' \in [Counters -> SUBSET LicenceRecords]
<1>1. ASSUME NEW c \in Counters PROVE issued[c] \subseteq LicenceRecords
  BY DEF SalesTypeOK
<1>2. IssuesToday
  BY LicencesAreNew DEF IssuesToday
<1>3. ASSUME NEW c \in Counters PROVE issued'[c] \subseteq LicenceRecords
  BY <1>1, LicencesAreNew
<1> QED
  BY <1>2, <1>3 DEF Insert

\* The revisions of a counter stay bounded: a call adds one licence at most to each.
LEMMA InsertKeepsIssued ==
    ASSUME SalesTypeOK, IssuedOK, NEW call, CallOK(call), Insert(call.drafts), now' = now
    PROVE  IssuedOK'
<1> SUFFICES ASSUME NEW c \in Counters
             PROVE  /\ \A l \in issued'[c] : l.issued <= now
                    /\ \E n \in Nat : \A l \in issued'[c] : l.rev <= n
  BY DEF IssuedOK
<1>0. now \in Nat
  BY DEF SalesTypeOK
<1>1. \A l \in issued'[c] : l.issued <= now
  BY <1>0, LicencesAreNew DEF IssuedOK
<1>2. PICK n \in Nat : \A l \in issued[c] : l.rev <= n
  BY DEF IssuedOK
<1>3. \A d \in call.drafts : d.rev \in Nat /\ LicenceOf(d).rev = d.rev
  BY DEF CallOK, DraftOK, DraftRecords, LicenceOf
<1>4. CASE \E d \in call.drafts : d.counter = c
  <2>1. PICK d \in call.drafts : d.counter = c
    BY <1>4
  <2>2. \A l \in issued'[c] : l \in issued[c] \/ l.rev = d.rev
    BY <2>1, <1>3, LicencesAreNew DEF CallOK
  <2>3. PICK m \in Nat : n <= m /\ d.rev <= m
    <3>1. d.rev \in Nat
      BY <1>3
    <3>2. n + d.rev \in Nat /\ n <= n + d.rev /\ d.rev <= n + d.rev
      BY <3>1
    <3> QED
      BY <3>2
  <2>4. \A l \in issued[c] : l.rev \in Nat
    BY DEF SalesTypeOK, LicenceRecords
  <2>5. \A l \in issued'[c] : l.rev <= m
    BY <1>2, <2>2, <2>3, <2>4
  <2> QED
    BY <1>1, <2>5
<1>5. CASE ~ \E d \in call.drafts : d.counter = c
  <2>1. \A l \in issued'[c] : l \in issued[c]
    BY <1>5, LicencesAreNew
  <2> QED
    BY <1>1, <1>2, <2>1
<1> QED
  BY <1>4, <1>5

\* The batch gives no more than was sold: a renewal's comes once, with the order's change from confirmed to paid.
LEMMA InsertKeepsSold ==
    ASSUME SalesTypeOK, IssuedOK, Sold, NEW call, CallOK(call), Insert(call.drafts), now' = now,
           MoneyGrows, \A s \in Sales : OrderEnd(s)' = OrderEnd(s),
           call.op = "settle" => status[call.order] = "confirmed" /\ Paid(call.order)'
    PROVE  Sold'
<1> SUFFICES ASSUME NEW s \in Sales, NEW c \in Counters
             PROVE  /\ Kind[s] = "renewal" =>
                          /\ \A l, m \in {l \in issued'[c] : l.order = s /\ l.reason = "order"} : l = m
                          /\ \A l \in issued'[c] : l.order = s => Paid(s)'
                    /\ Kind[s] # "renewal" =>
                          \A l \in {l \in issued'[c] : l.order = s /\ l.reason = "order"} : l.until <= OrderEnd(s)'
  BY DEF Sold
<1>1. ASSUME NEW l \in issued'[c], l \notin issued[c]
      PROVE  \E d \in call.drafts : /\ d.counter = c /\ l = LicenceOf(d)
                                    /\ l.order = d.order /\ l.reason = d.reason /\ l.until = d.until
  BY <1>1, LicencesAreNew DEF LicenceOf
<1>2. CASE Kind[s] = "renewal"
  <2>1. ASSUME NEW l \in issued[c], l.order = s PROVE Paid(s)
    BY <1>2, <2>1 DEF Sold
  <2>2. ASSUME NEW l \in issued'[c], l \notin issued[c], l.order = s, l.reason = "order"
        PROVE  call.op = "settle" /\ call.order = s
    <3>1. PICK d \in call.drafts : d.order = s /\ d.reason = "order"
      BY <1>1, <2>2
    <3> QED
      BY <1>2, <3>1 DEF CallOK
  <2>3. ASSUME NEW l \in issued'[c], l.order = s PROVE Paid(s)'
    <3>1. CASE l \in issued[c]
      BY <2>1, <2>3, <3>1 DEF MoneyGrows
    <3>2. CASE l \notin issued[c]
      <4>1. PICK d \in call.drafts : d.order = s /\ d.reason = l.reason
        BY <1>1, <2>3, <3>2
      <4>2. DraftOK(d)
        BY DEF CallOK
      <4>3. CASE d.reason = "order"
        BY <2>2, <2>3, <3>2, <4>1, <4>3
      <4>4. CASE d.reason = "manual"
        BY <1>2, <4>1, <4>2, <4>4 DEF DraftOK, MoneyGrows
      <4> QED
        BY <4>2, <4>3, <4>4 DEF DraftOK, DraftRecords
    <3> QED
      BY <3>1, <3>2
  <2>4. ASSUME NEW l \in issued'[c], NEW m \in issued'[c], l.order = s, l.reason = "order", m.order = s, m.reason = "order"
        PROVE  l = m
    <3>1. ASSUME NEW x \in issued[c], NEW y \in issued'[c], y \notin issued[c],
                 x.order = s, y.order = s, y.reason = "order"
          PROVE  FALSE
      BY <2>1, <2>2, <3>1 DEF Paid
    <3>2. CASE l \in issued[c] /\ m \in issued[c]
      BY <1>2, <2>4, <3>2 DEF Sold
    <3>3. CASE l \notin issued[c] /\ m \notin issued[c]
      <4>1. PICK d \in call.drafts : d.counter = c /\ l = LicenceOf(d)
        BY <1>1, <3>3
      <4>2. PICK e \in call.drafts : e.counter = c /\ m = LicenceOf(e)
        BY <1>1, <3>3
      <4> QED
        BY <4>1, <4>2 DEF CallOK
    <3> QED
      BY <2>4, <3>1, <3>2, <3>3
  <2> QED
    BY <1>2, <2>3, <2>4
<1>3. CASE Kind[s] # "renewal"
  <2>1. ASSUME NEW l \in issued'[c], l.order = s, l.reason = "order" PROVE l.until <= OrderEnd(s)
    <3>1. CASE l \in issued[c]
      BY <1>3, <2>1, <3>1 DEF Sold
    <3>2. CASE l \notin issued[c]
      <4>1. PICK d \in call.drafts : d.order = s /\ d.reason = "order" /\ l.until = d.until
        BY <1>1, <2>1, <3>2
      <4> QED
        BY <1>3, <4>1 DEF CallOK, DraftOK
    <3> QED
      BY <3>1, <3>2
  <2> QED
    BY <1>3, <2>1
<1> QED
  BY <1>2, <1>3

-----------------------------------------------------------------------------
(* The calls at work after a step.                                         *)

\* Every call at work after the step is as a call may be, going by what was true before it.
CallsGoOn ==
    /\ calls' = [j \in Slots |-> calls'[j]]
    /\ \A j \in Slots : calls'[j] # None => CallOK(calls'[j])

\* A step that adds licences of today, as the batch of a call, keeps the invariant.
LEMMA BatchKeeps ==
    ASSUME SalesInv, SalesTypeOK', now' = now, MoneyGrows, CallsGoOn,
           NEW call, CallOK(call), Insert(call.drafts),
           call.op = "settle" => status[call.order] = "confirmed" /\ Paid(call.order)'
    PROVE  SalesInv'
<1>1. SalesTypeOK /\ IssuedOK /\ Sold
  BY DEF SalesInv
<1>2. IssuesToday
  BY <1>1, InsertIssuesToday
<1>3. \A s \in Sales : OrderEnd(s)' = OrderEnd(s)
  BY <1>1, <1>2, TermStays
<1>4. IssuedOK'
  BY <1>1, InsertKeepsIssued
<1>5. Sold'
  BY <1>1, <1>3, InsertKeepsSold
<1>6. ASSUME NEW k \in Slots, calls'[k] # None PROVE CallOK(calls[k])'
  <2>1. PICK x : x = calls'[k]
    OBVIOUS
  <2>2. CallOK(x)
    BY <1>6, <2>1 DEF CallsGoOn
  <2>3. CallOK(x)'
    BY <1>3, <2>2, CallStays
  <2> QED
    BY <2>1, <2>3
<1>7. CallsOK'
  BY <1>6 DEF CallsOK
<1> QED
  BY <1>4, <1>5, <1>7 DEF SalesInv

\* So does one that adds none.
LEMMA QuietKeeps ==
    ASSUME SalesInv, SalesTypeOK', now' = now, MoneyGrows, CallsGoOn, issued' = issued
    PROVE  SalesInv'
<1>1. SalesTypeOK /\ IssuedOK /\ Sold
  BY DEF SalesInv
<1>2. IssuesToday
  BY DEF IssuesToday
<1>3. \A s \in Sales : OrderEnd(s)' = OrderEnd(s)
  BY <1>1, <1>2, TermStays
<1>4. IssuedOK'
  BY <1>1 DEF IssuedOK
<1>5. Sold'
  BY <1>1, <1>3 DEF Sold, MoneyGrows
<1>6. ASSUME NEW k \in Slots, calls'[k] # None PROVE CallOK(calls[k])'
  <2>1. PICK x : x = calls'[k]
    OBVIOUS
  <2>2. CallOK(x)
    BY <1>6, <2>1 DEF CallsGoOn
  <2>3. CallOK(x)'
    BY <1>3, <2>2, CallStays
  <2> QED
    BY <2>1, <2>3
<1>7. CallsOK'
  BY <1>6 DEF CallsOK
<1> QED
  BY <1>4, <1>5, <1>7 DEF SalesInv

\* One slot takes a call, or its call goes on or ends.
LEMMA SlotGoesOn ==
    ASSUME SalesInv, NEW k \in Slots, NEW call, call = None \/ CallOK(call), calls' = [calls EXCEPT ![k] = call]
    PROVE  CallsGoOn
<1>1. calls = [j \in Slots |-> calls[j]] /\ CallsOK
  BY DEF SalesInv, SalesTypeOK
<1>2. \A j \in Slots : calls'[j] = IF j = k THEN call ELSE calls[j]
  BY <1>1
<1>3. \A j \in Slots : calls'[j] # None => CallOK(calls'[j])
  BY <1>1, <1>2 DEF CallsOK
<1>4. calls' = [j \in Slots |-> calls'[j]]
  BY <1>1
<1> QED
  BY <1>3, <1>4 DEF CallsGoOn

LEMMA BeginGoesOn ==
    ASSUME SalesInv, NEW call, CallOK(call), Begin(call)
    PROVE  CallsGoOn
  BY SlotGoesOn DEF Begin, Free

LEMMA EndGoesOn ==
    ASSUME SalesInv, NEW k \in Slots, Ends(k)
    PROVE  CallsGoOn
  BY SlotGoesOn DEF Ends

LEMMA SameGoOn ==
    ASSUME SalesInv, UNCHANGED calls
    PROVE  CallsGoOn
  BY DEF SalesInv, SalesTypeOK, CallsOK, CallsGoOn

\* A call goes on to its next phase; a settlement past the reading of its order has found the order covered.
LEMMA PhaseGoesOn ==
    ASSUME SalesInv, NEW k \in Slots, calls[k] # None, NEW phase, Goes(k, phase),
           calls[k].op = "settle" /\ phase \in {"looking", "signing", "writing"} =>
               cleared[calls[k].order] >= Price[calls[k].order]
    PROVE  CallsGoOn
<1> DEFINE call == [calls[k] EXCEPT !.phase = phase]
<1>1. CallOK(calls[k])
  BY DEF SalesInv, CallsOK
<1>2. calls' = [calls EXCEPT ![k] = call]
  BY DEF Goes
<1>3. CallOK(call)
  <2>1. DOMAIN call = DOMAIN calls[k]
    OBVIOUS
  <2>2. /\ call.op = calls[k].op  /\ call.drafts = calls[k].drafts  /\ call.order = calls[k].order
        /\ call.amount = calls[k].amount  /\ call.counter = calls[k].counter
        /\ call.day = calls[k].day  /\ call.seats = calls[k].seats
    OBVIOUS
  <2>3. call.phase = phase
    BY <1>1 DEF CallOK
  <2> HIDE DEF call
  <2> QED
    BY <1>1, <2>1, <2>2, <2>3 DEF CallOK
<1> HIDE DEF call
<1> QED
  BY <1>2, <1>3, SlotGoesOn

-----------------------------------------------------------------------------
(* Drafts.                                                                 *)

LEMMA NextRevisionIsNat ==
    ASSUME SalesInv, NEW c \in Counters
    PROVE  NextRevision(c) \in Nat
<1>1. Latest(c).rev \in Nat /\ floor[c] \in Nat
  BY LatestIs DEF SalesInv, SalesTypeOK, HeldRecords
<1> QED
  BY <1>1 DEF NextRevision, Larger

\* A licence signed again, for its counter or for the one that takes over: a renewal's only after it was paid.
LEMMA AgainIsOK ==
    ASSUME SalesInv, NEW c \in Counters, NEW b \in Counters, NEW until \in Nat
    PROVE  /\ DraftOK(Again(c, until))  /\ Again(c, until).reason = "manual"  /\ Again(c, until).counter = c
           /\ DraftOK([Again(c, until) EXCEPT !.counter = b])  /\ [Again(c, until) EXCEPT !.counter = b].reason = "manual"
<1> DEFINE l == Latest(c)
<1>1. l.trial \in BOOLEAN /\ l.order \in Sales \cup {None} /\ (l \in issued[c] \/ l = NoLicence)
  BY LatestIs DEF SalesInv, HeldRecords
<1>2. ASSUME NEW s \in Sales, l.order = s, Kind[s] = "renewal" PROVE Paid(s)
  <2>1. l # NoLicence
    BY <1>2, LicencesAssumption DEF NoLicence
  <2> QED
    BY <1>1, <1>2, <2>1 DEF SalesInv, Sold
<1> DEFINE d == Draft(c, until, l.trial, l.order, "manual")  e == Draft(b, until, l.trial, l.order, "manual")
<1>3. d \in DraftRecords /\ e \in DraftRecords
  BY <1>1 DEF Draft, DraftRecords
<1>4. DraftOK(d) /\ DraftOK(e)
  <2> HIDE DEF l
  <2> QED
    BY <1>2, <1>3 DEF DraftOK, Draft
<1>5. Again(c, until) = d /\ [Again(c, until) EXCEPT !.counter = b] = e
  BY DEF Again, Draft
<1>6. d.reason = "manual" /\ d.counter = c /\ e.reason = "manual"
  BY DEF Draft
<1> HIDE DEF d, e
<1> QED
  BY <1>4, <1>5, <1>6

\* Where a licence of an order ends, on credit too, is no later than its term.
LEMMA TermsEndIs ==
    ASSUME SalesInv, NEW s \in Sales
    PROVE  TermsEnd(s, credit[s]) \in Nat /\ TermsEnd(s, credit[s]) <= OrderEnd(s)
<1>1. OrderEnd(s) \in Nat /\ credit[s] \in Nat
  BY OrderEndIsNat DEF SalesInv, SalesTypeOK
<1> QED
  BY <1>1 DEF TermsEnd, Smaller

-----------------------------------------------------------------------------
(* The steps of the licences.                                              *)

LEMMA SameMoney ==
    ASSUME SalesInv, UNCHANGED <<status, cleared>>
    PROVE  MoneyGrows
  BY DEF SalesInv, SalesTypeOK, MoneyGrows, Paid

LEMMA LatestIsHeld ==
    ASSUME SalesInv, NEW c \in Counters
    PROVE  Latest(c) \in HeldRecords /\ Latest(c).until \in Nat
  BY LatestIs DEF SalesInv, HeldRecords

\* A licence that goes out leaves a revision as the floor.
LEMMA HandedOut ==
    ASSUME SalesInv, NEW c \in Counters, NEW l \in HeldRecords, HandOut(c, l)
    PROVE  post' \in [Counters -> HeldRecords] /\ floor' \in [Counters -> Nat]
<1>1. floor \in [Counters -> Nat] /\ post \in [Counters -> HeldRecords] /\ l.rev \in Nat
  BY DEF SalesInv, SalesTypeOK, HeldRecords
<1>2. Larger(floor[c], l.rev) \in Nat
  BY <1>1 DEF Larger
<1> QED
  BY <1>1, <1>2 DEF HandOut

LEMMA LatestHandedOut ==
    ASSUME SalesInv, NEW c \in Counters, NEW current,
           HandOutLatest(c, current) \/ Answer(c, current)
    PROVE  post' \in [Counters -> HeldRecords] /\ floor' \in [Counters -> Nat]
<1>1. CASE UNCHANGED <<post, floor>>
  BY <1>1 DEF SalesInv, SalesTypeOK
<1>2. CASE HandOut(c, Latest(c))
  BY <1>2, HandedOut, LatestIsHeld
<1>3. HandOutLatest(c, current) => UNCHANGED <<post, floor>> \/ HandOut(c, Latest(c))
  BY DEF HandOutLatest
<1>4. Answer(c, current) => UNCHANGED <<post, floor>> \/ HandOut(c, Latest(c))
  BY DEF Answer, News
<1> QED
  BY <1>1, <1>2, <1>3, <1>4

LEMMA KnownKeepsFloor ==
    ASSUME SalesInv, NEW c \in Counters, Known(c)
    PROVE  floor' \in [Counters -> Nat]
<1>1. floor \in [Counters -> Nat] /\ held[c].rev \in Nat
  BY DEF SalesInv, SalesTypeOK, HeldRecords
<1> QED
  BY <1>1 DEF Known

\* A step of the licences alone writes no orders: types are kept if those of what it writes are.
LicenceStep ==
    /\ UNCHANGED <<now, status, credit, money>>
    /\ post' \in [Counters -> HeldRecords]  /\ held' \in [Counters -> HeldRecords]  /\ floor' \in [Counters -> Nat]
    /\ targets' \in [Sales -> SUBSET Counters]
    /\ CallsGoOn

LEMMA QuietLicenceStep ==
    ASSUME SalesInv, LicenceStep, issued' = issued
    PROVE  SalesInv'
<1>1. MoneyGrows
  BY SameMoney DEF LicenceStep, money
<1>2. SalesTypeOK'
  BY DEF SalesInv, SalesTypeOK, LicenceStep, CallsGoOn, money
<1> QED
  BY <1>1, <1>2, QuietKeeps DEF LicenceStep

LEMMA BatchLicenceStep ==
    ASSUME SalesInv, LicenceStep, NEW call, CallOK(call), Insert(call.drafts), call.op # "settle"
    PROVE  SalesInv'
<1>1. MoneyGrows
  BY SameMoney DEF LicenceStep, money
<1>2. issued' \in [Counters -> SUBSET LicenceRecords]
  BY InsertIssuesToday DEF SalesInv, LicenceStep
<1>3. SalesTypeOK'
  BY <1>2 DEF SalesInv, SalesTypeOK, LicenceStep, CallsGoOn, money
<1> QED
  BY <1>1, <1>3, BatchKeeps DEF LicenceStep

\* A counter asks for a seat: the licence drafted for it ends with the order's term, or before it on credit.
LEMMA AssignIsOK ==
    ASSUME SalesInv, NEW c \in Counters, NEW s \in Sales, MayActivate(s), NEW by
    PROVE  CallOK(Assign(c, s, by))
<1> DEFINE d == Draft(c, TermsEnd(s, credit[s]), Kind[s] = "trial", s, "order")
<1>1. d \in DraftRecords
  BY TermsEndIs DEF Draft, DraftRecords
<1>2. d.order = s /\ d.reason = "order" /\ d.until <= OrderEnd(s) /\ Kind[s] # "renewal"
  BY TermsEndIs DEF Draft, MayActivate
<1>3. DraftOK(d)
  <2> HIDE DEF d
  <2> QED
    BY <1>1, <1>2 DEF DraftOK
<1>4. /\ Assign(c, s, by).op = "assign"  /\ Assign(c, s, by).counter = c  /\ Assign(c, s, by).drafts = {d}
      /\ {"op", "phase", "counter", "drafts"} \subseteq DOMAIN Assign(c, s, by)
  BY DEF Assign
<1> HIDE DEF d
<1> QED
  BY <1>2, <1>3, <1>4 DEF CallOK

LEMMA EnrolKeeps ==
    ASSUME SalesInv, NEW c \in Counters, NEW s \in Sales, Enrol(c, s), UNCHANGED money
    PROVE  SalesInv'
<1>1. UNCHANGED <<now, status, credit, money, held, targets, issued>> /\ MayActivate(s)
  BY DEF Enrol
<1>2. held' \in [Counters -> HeldRecords] /\ targets' \in [Sales -> SUBSET Counters]
  BY <1>1 DEF SalesInv, SalesTypeOK
<1>3. post' \in [Counters -> HeldRecords] /\ floor' \in [Counters -> Nat]
  <2>1. CASE HandOutLatest(c, held[c].rev)
    BY <2>1, LatestHandedOut
  <2>2. CASE Known(c) /\ UNCHANGED post
    BY <2>2, KnownKeepsFloor DEF SalesInv, SalesTypeOK
  <2> QED
    BY <2>1, <2>2 DEF Enrol
<1>4. CallsGoOn
  <2>1. UNCHANGED calls \/ Begin(Assign(c, s, "enrol"))
    BY DEF Enrol
  <2> QED
    BY <1>1, <2>1, SameGoOn, AssignIsOK, BeginGoesOn
<1> QED
  BY <1>1, <1>2, <1>3, <1>4, QuietLicenceStep DEF LicenceStep

LEMMA OfflineLicenceKeeps ==
    ASSUME SalesInv, NEW c \in Counters, NEW s \in Sales, OfflineLicence(c, s), UNCHANGED money
    PROVE  SalesInv'
<1>1. UNCHANGED <<now, status, credit, money, held, targets, issued>> /\ MayActivate(s)
  BY DEF OfflineLicence
<1>2. held' \in [Counters -> HeldRecords] /\ targets' \in [Sales -> SUBSET Counters]
  BY <1>1 DEF SalesInv, SalesTypeOK
<1>3. post' \in [Counters -> HeldRecords] /\ floor' \in [Counters -> Nat]
  <2>1. CASE UNCHANGED floor /\ post' = [post EXCEPT ![c] = Latest(c)]
    BY <2>1, LatestIsHeld DEF SalesInv, SalesTypeOK
  <2>2. CASE Known(c) /\ UNCHANGED post
    BY <2>2, KnownKeepsFloor DEF SalesInv, SalesTypeOK
  <2> QED
    BY <2>1, <2>2 DEF OfflineLicence
<1>4. CallsGoOn
  <2>1. UNCHANGED calls \/ Begin(Assign(c, s, "file"))
    BY DEF OfflineLicence
  <2> QED
    BY <1>1, <2>1, SameGoOn, AssignIsOK, BeginGoesOn
<1> QED
  BY <1>1, <1>2, <1>3, <1>4, QuietLicenceStep DEF LicenceStep

\* What a step that writes no licences, orders or money leaves to show.
LEMMA HubStep ==
    ASSUME SalesInv, UNCHANGED <<now, floor, issued, status, credit, targets, money>>, CallsGoOn,
           post' \in [Counters -> HeldRecords], held' \in [Counters -> HeldRecords]
    PROVE  SalesInv'
<1>1. floor' \in [Counters -> Nat] /\ targets' \in [Sales -> SUBSET Counters]
  BY DEF SalesInv, SalesTypeOK
<1> QED
  BY <1>1, QuietLicenceStep DEF LicenceStep

LEMMA CallsAlone ==
    ASSUME SalesInv, UNCHANGED <<now, floor, issued, status, credit, targets, money, post, held>>, CallsGoOn
    PROVE  SalesInv'
<1>1. post' \in [Counters -> HeldRecords] /\ held' \in [Counters -> HeldRecords]
  BY DEF SalesInv, SalesTypeOK
<1> QED
  BY <1>1, HubStep

\* Moves, replacements and licences signed again, up to the signing.
LEMMA StaffAsk ==
    ASSUME SalesInv, NEW c \in Counters, UNCHANGED money,
           \/ \E s \in Sales : Move(c, s)
           \/ Resign(c)
           \/ \E new \in Counters : Replace(c, new)
    PROVE  SalesInv'
<1>1. UNCHANGED <<now, floor, issued, status, credit, targets, money, post, held>>
  BY DEF Move, Resign, Replace, database
<1>2. CASE \E s \in Sales : Move(c, s)
  <2>1. PICK s \in Sales : Move(c, s)
    BY <1>2
  <2>2. MayActivate(s) /\ Begin(Assign(c, s, "move"))
    BY <2>1 DEF Move
  <2> QED
    BY <1>1, <2>2, AssignIsOK, BeginGoesOn, CallsAlone
<1>3. CASE Resign(c)
  <2> DEFINE call == [op |-> "resign", phase |-> "signing", counter |-> c, drafts |-> {Again(c, Latest(c).until)}]
  <2>1. Begin(call)
    BY <1>3 DEF Resign
  <2>2. DraftOK(Again(c, Latest(c).until)) /\ Again(c, Latest(c).until).reason = "manual"
    BY AgainIsOK, LatestIsHeld
  <2>3. CallOK(call)
    BY <2>2 DEF CallOK
  <2> HIDE DEF call
  <2> QED
    BY <1>1, <2>1, <2>3, BeginGoesOn, CallsAlone
<1>4. CASE \E new \in Counters : Replace(c, new)
  <2>1. PICK new \in Counters : Replace(c, new)
    BY <1>4
  <2> DEFINE d == [Again(c, Latest(c).until) EXCEPT !.counter = new]
             call == [op |-> "replace", phase |-> "signing", counter |-> new, order |-> seat[c], from |-> c, drafts |-> {d}]
  <2>2. Begin(call)
    BY <2>1 DEF Replace
  <2>3. DraftOK(d) /\ d.reason = "manual"
    BY AgainIsOK, LatestIsHeld
  <2> HIDE DEF d
  <2>4. CallOK(call)
    BY <2>3 DEF CallOK
  <2> HIDE DEF call
  <2> QED
    BY <1>1, <2>2, <2>4, BeginGoesOn, CallsAlone
<1> QED
  BY <1>2, <1>3, <1>4

\* What happens at the hub, and staff who only let go of a seat or fetch a file.
LEMMA HubSteps ==
    ASSUME SalesInv, NEW c \in Counters, UNCHANGED money,
           Release(c) \/ Download(c) \/ Install(c) \/ Lose(c) \/ HandIssue(c) \/ HubRestored(c)
    PROVE  SalesInv'
<1>1. UNCHANGED <<now, floor, issued, status, credit, targets, money, calls>>
  BY DEF Release, Download, Install, Lose, HandIssue, HubRestored, database
<1>2. post \in [Counters -> HeldRecords] /\ held \in [Counters -> HeldRecords] /\ now \in Nat
  BY DEF SalesInv, SalesTypeOK
<1>3. NoLicence \in HeldRecords
  BY DEF NoLicence, HeldRecords
<1>4. post' \in [Counters -> HeldRecords]
  <2>1. UNCHANGED post \/ post' = [post EXCEPT ![c] = Latest(c)] \/ post' = [post EXCEPT ![c] = NoLicence]
    BY DEF Release, Download, Install, Lose, HandIssue, HubRestored
  <2> QED
    BY <1>2, <1>3, <2>1, LatestIsHeld
<1>5. held' \in [Counters -> HeldRecords]
  <2>1. CASE HandIssue(c)
    <3>1. held[c].rev + 1 \in Nat /\ now + 1 \in Nat
      BY <1>2 DEF HeldRecords
    <3> DEFINE l == [NoLicence EXCEPT !.rev = held[c].rev + 1, !.issued = now, !.until = now + 1, !.reason = "hand"]
    <3>2. l \in HeldRecords
      BY <1>2, <3>1 DEF NoLicence, HeldRecords
    <3>3. held' = [held EXCEPT ![c] = l]
      BY <2>1 DEF HandIssue
    <3> HIDE DEF l
    <3> QED
      BY <1>2, <3>2, <3>3
  <2>2. CASE ~HandIssue(c)
    <3>1. UNCHANGED held \/ held' = [held EXCEPT ![c] = post[c]] \/ held' = [held EXCEPT ![c] = NoLicence]
      BY <2>2 DEF Release, Download, Install, Lose, HubRestored
    <3> QED
      BY <1>2, <1>3, <3>1
  <2> QED
    BY <2>1, <2>2
<1> QED
  BY <1>1, <1>4, <1>5, SameGoOn, HubStep

\* The hourly check: one that finds a licence issued by hand looks further.
LEMMA CheckKeeps ==
    ASSUME SalesInv, NEW c \in Counters, Check(c), UNCHANGED money
    PROVE  SalesInv'
<1>1. UNCHANGED <<now, status, credit, money, held, targets, issued>>
  BY DEF Check
<1>2. held' \in [Counters -> HeldRecords] /\ targets' \in [Sales -> SUBSET Counters]
  BY <1>1 DEF SalesInv, SalesTypeOK
<1>3. CASE Answer(c, held[c].rev) /\ UNCHANGED calls
  BY <1>1, <1>2, <1>3, LatestHandedOut, SameGoOn, QuietLicenceStep DEF LicenceStep
<1>4. CASE /\ floor' = [floor EXCEPT ![c] = held[c].rev]
           /\ Begin([op |-> "check", phase |-> "looking", counter |-> c, current |-> held[c].rev, drafts |-> {}])
           /\ UNCHANGED post
  <2> DEFINE call == [op |-> "check", phase |-> "looking", counter |-> c, current |-> held[c].rev, drafts |-> {}]
  <2>1. CallOK(call)
    BY DEF CallOK
  <2>2. Begin(call)
    BY <1>4
  <2> HIDE DEF call
  <2>3. CallsGoOn
    BY <2>1, <2>2, BeginGoesOn
  <2>4. floor' \in [Counters -> Nat] /\ post' \in [Counters -> HeldRecords]
    BY <1>4 DEF SalesInv, SalesTypeOK, HeldRecords
  <2> QED
    BY <1>1, <1>2, <2>3, <2>4, QuietLicenceStep DEF LicenceStep
<1> QED
  BY <1>3, <1>4 DEF Check

\* Signing gives every draft the next revision of its counter and changes nothing else.
LEMMA SignKeeps ==
    ASSUME SalesInv, NEW k \in Slots, calls[k] # None, Sign(k), UNCHANGED money
    PROVE  SalesInv'
<1> DEFINE signed == {[d EXCEPT !.rev = NextRevision(d.counter)] : d \in calls[k].drafts}
           call   == [calls[k] EXCEPT !.phase = "writing", !.drafts = signed]
<1>1. UNCHANGED <<now, floor, issued, status, credit, targets, money, post, held>>
  BY DEF Sign, database
<1>2. CallOK(calls[k]) /\ calls[k].phase = "signing"
  BY DEF SalesInv, CallsOK, Sign
<1>3. calls' = [calls EXCEPT ![k] = call]
  BY DEF Sign
<1>4. ASSUME NEW d \in calls[k].drafts
      PROVE  LET e == [d EXCEPT !.rev = NextRevision(d.counter)]
             IN  DraftOK(e) /\ e.counter = d.counter /\ e.reason = d.reason /\ e.order = d.order
  <2> DEFINE e == [d EXCEPT !.rev = NextRevision(d.counter)]
  <2>1. DraftOK(d) /\ d \in DraftRecords
    BY <1>2 DEF CallOK, DraftOK
  <2>2. NextRevision(d.counter) \in Nat
    BY <2>1, NextRevisionIsNat DEF DraftRecords
  <2>3. /\ e \in DraftRecords
        /\ e.counter = d.counter /\ e.reason = d.reason /\ e.order = d.order /\ e.until = d.until
    BY <2>1, <2>2 DEF DraftRecords
  <2> HIDE DEF e
  <2>4. DraftOK(e)
    BY <2>1, <2>3 DEF DraftOK
  <2> QED
    BY <2>3, <2>4 DEF e
<1>5. /\ DOMAIN call = DOMAIN calls[k]
      /\ call.op = calls[k].op  /\ call.order = calls[k].order
      /\ call.amount = calls[k].amount  /\ call.counter = calls[k].counter
      /\ call.day = calls[k].day  /\ call.seats = calls[k].seats
  OBVIOUS
<1>6. call.phase = "writing" /\ call.drafts = signed
  BY <1>2 DEF CallOK
<1>7. ASSUME NEW x \in signed
      PROVE  \E d \in calls[k].drafts : /\ x = [d EXCEPT !.rev = NextRevision(d.counter)]
                                        /\ DraftOK(x) /\ x.counter = d.counter /\ x.reason = d.reason /\ x.order = d.order
  BY <1>4
<1>8. \A x, y \in signed : x.counter = y.counter => x = y
  <2>1. SUFFICES ASSUME NEW x \in signed, NEW y \in signed, x.counter = y.counter PROVE x = y
    OBVIOUS
  <2>2. PICK d \in calls[k].drafts : x = [d EXCEPT !.rev = NextRevision(d.counter)] /\ x.counter = d.counter
    BY <1>7
  <2>3. PICK e \in calls[k].drafts : y = [e EXCEPT !.rev = NextRevision(e.counter)] /\ y.counter = e.counter
    BY <1>7
  <2>4. d = e
    BY <1>2, <2>1, <2>2, <2>3 DEF CallOK
  <2> QED
    BY <2>2, <2>3, <2>4
<1>9. calls[k].drafts # {} => signed # {}
  OBVIOUS
<1> HIDE DEF signed
<1> HIDE DEF call
<1>10. CallOK(call)
  BY <1>2, <1>5, <1>6, <1>7, <1>8, <1>9 DEF CallOK
<1>11. CallsGoOn
  BY <1>3, <1>10, SlotGoesOn
<1> QED
  BY <1>1, <1>11, CallsAlone

\* The licence of a seat goes out with the batch that gives it.
LEMMA SeatGoesOut ==
    ASSUME SalesInv, NEW call, CallOK(call), call.op = "assign",
           \A d \in call.drafts : HandOut(call.counter, LicenceOf(d)), Insert(call.drafts)
    PROVE  post' \in [Counters -> HeldRecords] /\ floor' \in [Counters -> Nat]
<1>1. PICK d \in call.drafts : TRUE
  BY DEF CallOK
<1>2. call.counter \in Counters
  BY DEF CallOK
<1>3. LicenceOf(d) \in LicenceRecords
  BY <1>2, LicencesAreNew DEF SalesInv
<1>4. LicenceOf(d) \in HeldRecords
  BY <1>3 DEF LicenceRecords, HeldRecords
<1> QED
  BY <1>1, <1>2, <1>4, HandedOut

\* The batch that gives a seat: its licence goes out, unless the counter is moved.
LEMMA WriteSeatKeeps ==
    ASSUME SalesInv, NEW k \in Slots, calls[k] # None, WriteSeat(k), UNCHANGED money
    PROVE  SalesInv'
<1> DEFINE call == calls[k]  c == call.counter
<1>1. CallOK(call) /\ call.op = "assign" /\ c \in Counters
  BY DEF SalesInv, CallsOK, CallOK, WriteSeat
<1>2. UNCHANGED <<now, status, credit, money, held, targets>> /\ CallsGoOn
  BY EndGoesOn DEF WriteSeat
<1>3. held' \in [Counters -> HeldRecords] /\ targets' \in [Sales -> SUBSET Counters]
  BY <1>2 DEF SalesInv, SalesTypeOK
<1>4. ASSUME UNCHANGED <<post, floor>>
      PROVE  post' \in [Counters -> HeldRecords] /\ floor' \in [Counters -> Nat]
  BY <1>4 DEF SalesInv, SalesTypeOK
<1>5. CASE /\ Insert(call.drafts)
           /\ IF call.by # "move" THEN \A d \in call.drafts : HandOut(c, LicenceOf(d)) ELSE UNCHANGED <<post, floor>>
  <2>1. post' \in [Counters -> HeldRecords] /\ floor' \in [Counters -> Nat]
    BY <1>1, <1>4, <1>5, SeatGoesOut
  <2> QED
    BY <1>1, <1>2, <1>3, <1>5, <2>1, BatchLicenceStep DEF LicenceStep
<1>6. CASE /\ IF call.by = "enrol" /\ seat[c] = call.order THEN HandOutLatest(c, call.current) ELSE UNCHANGED <<post, floor>>
           /\ UNCHANGED issued
  <2>1. post' \in [Counters -> HeldRecords] /\ floor' \in [Counters -> Nat]
    BY <1>1, <1>4, <1>6, LatestHandedOut
  <2> QED
    BY <1>2, <1>3, <1>6, <2>1, QuietLicenceStep DEF LicenceStep
<1> QED
  BY <1>5, <1>6 DEF WriteSeat

LEMMA WriteReplaceKeeps ==
    ASSUME SalesInv, NEW k \in Slots, calls[k] # None, WriteReplace(k), UNCHANGED money
    PROVE  SalesInv'
<1> DEFINE call == calls[k]  old == call.from  new == call.counter
<1>1. CallOK(call) /\ call.op = "replace" /\ new \in Counters
  BY DEF SalesInv, CallsOK, CallOK, WriteReplace
<1>2. UNCHANGED <<now, status, credit, money, held, post, floor>> /\ CallsGoOn
  BY EndGoesOn DEF WriteReplace
<1>3. /\ held' \in [Counters -> HeldRecords]  /\ post' \in [Counters -> HeldRecords]  /\ floor' \in [Counters -> Nat]
  BY <1>2 DEF SalesInv, SalesTypeOK
<1>4. CASE /\ targets' = [s \in Sales |-> IF /\ status[s] \in {"draft", "confirmed"}
                                            /\ old \in targets[s]  /\ new \notin targets[s]
                                          THEN (targets[s] \ {old}) \cup {new} ELSE targets[s]]
           /\ Insert(call.drafts)
  <2>1. targets' \in [Sales -> SUBSET Counters]
    BY <1>1, <1>4 DEF SalesInv, SalesTypeOK
  <2> QED
    BY <1>1, <1>2, <1>3, <1>4, <2>1, BatchLicenceStep DEF LicenceStep
<1>5. CASE UNCHANGED <<targets, issued>>
  <2>1. targets' \in [Sales -> SUBSET Counters]
    BY <1>5 DEF SalesInv, SalesTypeOK
  <2> QED
    BY <1>2, <1>3, <1>5, <2>1, QuietLicenceStep DEF LicenceStep
<1> QED
  BY <1>4, <1>5 DEF WriteReplace

\* The batches that write a licence signed again.
LEMMA WriteAgainKeeps ==
    ASSUME SalesInv, NEW k \in Slots, calls[k] # None, WriteResign(k) \/ WriteRecheck(k), UNCHANGED money
    PROVE  SalesInv'
<1>1. CallOK(calls[k]) /\ calls[k].op # "settle"
  BY DEF SalesInv, CallsOK, WriteResign, WriteRecheck
<1>2. UNCHANGED <<now, status, credit, money, held, post, floor, targets>>
  BY DEF WriteResign, WriteRecheck
<1>3. Ends(k) \/ Goes(k, "answering")
  BY DEF WriteResign, WriteRecheck
<1>4. CallsGoOn
  BY <1>1, <1>3, EndGoesOn, PhaseGoesOn
<1>5. LicenceStep
  BY <1>2, <1>4 DEF LicenceStep, SalesInv, SalesTypeOK
<1>6. Insert(calls[k].drafts) \/ issued' = issued
  BY DEF WriteResign, WriteRecheck
<1> QED
  BY <1>1, <1>5, <1>6, BatchLicenceStep, QuietLicenceStep

\* The answers of the hourly check; one signs the current licence again first.
LEMMA RecheckKeeps ==
    ASSUME SalesInv, NEW k \in Slots, calls[k] # None, Recheck(k) \/ AnswerRecheck(k), UNCHANGED money
    PROVE  SalesInv'
<1> DEFINE c == calls[k].counter
<1>1. CallOK(calls[k]) /\ calls[k].op = "check" /\ c \in Counters
  BY DEF SalesInv, CallsOK, CallOK, Recheck, AnswerRecheck
<1>2. UNCHANGED <<now, status, credit, money, held, targets, issued>>
  BY DEF Recheck, AnswerRecheck
<1>3. held' \in [Counters -> HeldRecords] /\ targets' \in [Sales -> SUBSET Counters]
  BY <1>2 DEF SalesInv, SalesTypeOK
<1>4. CASE Answer(c, calls[k].current) /\ Ends(k)
  BY <1>1, <1>2, <1>3, <1>4, LatestHandedOut, EndGoesOn, QuietLicenceStep DEF LicenceStep
<1>5. CASE /\ calls' = [calls EXCEPT ![k].phase = "signing", ![k].drafts = {Again(c, Latest(c).until)}]
           /\ UNCHANGED <<post, floor>>
  <2> DEFINE d == Again(c, Latest(c).until)
             call == [calls[k] EXCEPT !.phase = "signing", !.drafts = {d}]
  <2>1. calls' = [calls EXCEPT ![k] = call]
    BY <1>5
  <2>2. DraftOK(d) /\ d.reason = "manual"
    BY <1>1, AgainIsOK, LatestIsHeld
  <2> HIDE DEF d
  <2>3. /\ DOMAIN call = DOMAIN calls[k]
        /\ call.op = calls[k].op  /\ call.counter = calls[k].counter
    OBVIOUS
  <2>4. call.drafts = {d}
    BY <1>1 DEF CallOK
  <2> HIDE DEF call
  <2>5. CallOK(call)
    BY <1>1, <2>2, <2>3, <2>4 DEF CallOK
  <2>6. CallsGoOn
    BY <2>1, <2>5, SlotGoesOn
  <2>7. LicenceStep
    BY <1>2, <1>5, <2>6 DEF LicenceStep, SalesInv, SalesTypeOK
  <2> QED
    BY <1>2, <2>7, QuietLicenceStep
<1> QED
  BY <1>4, <1>5 DEF Recheck, AnswerRecheck

LEMMA DieKeeps ==
    ASSUME SalesInv, NEW k \in Slots, Die(k), UNCHANGED money
    PROVE  SalesInv'
<1>1. UNCHANGED <<now, floor, issued, status, credit, targets, money, post, held>> /\ Ends(k)
  BY DEF Die, database
<1> QED
  BY <1>1, EndGoesOn, CallsAlone

\* A day ends with no call at work; the licences there are keep the terms where they were.
LEMMA TickKeeps ==
    ASSUME SalesInv, Tick, UNCHANGED money
    PROVE  SalesInv'
<1>1. now \in Nat /\ now' = now + 1 /\ now' \in Nat
  BY DEF SalesInv, SalesTypeOK, Tick
<1>2. UNCHANGED <<floor, issued, status, credit, targets, post, held, calls, cleared, owing>>
  BY DEF Tick, database, money
<1>3. \A k \in Slots : calls[k] = None
  BY DEF Tick, Free
<1>4. SalesTypeOK'
  BY <1>1, <1>2 DEF SalesInv, SalesTypeOK
<1>5. IssuedOK'
  <2>1. ASSUME NEW c \in Counters, NEW l \in issued[c] PROVE l.issued <= now'
    <3>1. l.issued \in Nat /\ l.issued <= now
      BY DEF SalesInv, SalesTypeOK, IssuedOK, LicenceRecords
    <3> QED
      BY <1>1, <3>1
  <2>2. \A c \in Counters : \E n \in Nat : \A l \in issued[c] : l.rev <= n
    BY DEF SalesInv, IssuedOK
  <2> QED
    BY <1>2, <2>1, <2>2 DEF IssuedOK
<1>6. CallsOK'
  BY <1>2, <1>3 DEF CallsOK
<1>7. ASSUME NEW s \in Sales, NEW c \in Counters, NEW l \in issued[c], l.order = s
      PROVE  OrderEnd(s)' = OrderEnd(s)
  <2>1. DaysOf(s) # {}
    BY <1>7 DEF DaysOf
  <2>2. DaysOf(s)' = DaysOf(s)
    BY <1>2 DEF DaysOf
  <2>3. TermStart(s)' = TermStart(s)
    BY <2>1, <2>2, TermStartIs
  <2> QED
    BY <2>3 DEF OrderEnd
<1>8. Sold'
  <2>1. \A s \in Sales : Paid(s)' <=> Paid(s)
    BY <1>2 DEF Paid
  <2>2. Sold
    BY DEF SalesInv
  <2> SUFFICES ASSUME NEW s \in Sales, NEW c \in Counters
               PROVE  /\ Kind[s] = "renewal" =>
                            /\ \A l, m \in {l \in issued[c] : l.order = s /\ l.reason = "order"} : l = m
                            /\ \A l \in issued[c] : l.order = s => Paid(s)
                      /\ Kind[s] # "renewal" =>
                            \A l \in {l \in issued[c] : l.order = s /\ l.reason = "order"} : l.until <= OrderEnd(s)'
    BY <1>2, <2>1 DEF Sold
  <2> QED
    BY <1>7, <2>2 DEF Sold
<1> QED
  BY <1>4, <1>5, <1>6, <1>8 DEF SalesInv

\* Every step of the licences keeps the invariant.
LEMMA LicencesNextKeeps ==
    ASSUME SalesInv, LicencesNext, UNCHANGED money
    PROVE  SalesInv'
<1>1. CASE \E c \in Counters, s \in Sales : Enrol(c, s) \/ OfflineLicence(c, s) \/ Move(c, s)
  BY <1>1, EnrolKeeps, OfflineLicenceKeeps, StaffAsk
<1>2. CASE \E c \in Counters : Release(c) \/ Resign(c) \/ Download(c) \/ Check(c)
  BY <1>2, HubSteps, StaffAsk, CheckKeeps
<1>3. CASE \E c \in Counters : Install(c) \/ Lose(c) \/ HandIssue(c) \/ HubRestored(c)
  BY <1>3, HubSteps
<1>4. CASE \E old, new \in Counters : Replace(old, new)
  BY <1>4, StaffAsk
<1>5. CASE \E k \in Slots : calls[k] # None /\ (Sign(k) \/ CounterStep(k) \/ Die(k))
  BY <1>5, SignKeeps, WriteSeatKeeps, WriteReplaceKeeps, WriteAgainKeeps, RecheckKeeps, DieKeeps DEF CounterStep
<1>6. CASE Tick
  BY <1>6, TickKeeps
<1> QED
  BY <1>1, <1>2, <1>3, <1>4, <1>5, <1>6 DEF LicencesNext

-----------------------------------------------------------------------------
(* The steps of the orders and payments.                                   *)

OrdersTypeOK ==
    /\ status \in [Sales -> OrderStates]
    /\ credit \in [Sales -> Nat]  /\ cleared \in [Sales -> Nat]  /\ owing \in [Sales -> Nat]
    /\ targets \in [Sales -> SUBSET Counters]

\* A step of the portal leaves the hubs and the floors alone.
PortalStep ==
    /\ UNCHANGED <<now, floor, held, post>>
    /\ OrdersTypeOK'
    /\ CallsGoOn

LEMMA QuietPortalStep ==
    ASSUME SalesInv, PortalStep, MoneyGrows, issued' = issued
    PROVE  SalesInv'
<1>1. SalesTypeOK'
  BY DEF SalesInv, SalesTypeOK, PortalStep, OrdersTypeOK, CallsGoOn
<1> QED
  BY <1>1, QuietKeeps DEF PortalStep

LEMMA BatchPortalStep ==
    ASSUME SalesInv, PortalStep, MoneyGrows, NEW call, CallOK(call), Insert(call.drafts),
           call.op = "settle" => status[call.order] = "confirmed" /\ Paid(call.order)'
    PROVE  SalesInv'
<1>1. issued' \in [Counters -> SUBSET LicenceRecords]
  BY InsertIssuesToday DEF SalesInv, PortalStep
<1>2. SalesTypeOK'
  BY <1>1 DEF SalesInv, SalesTypeOK, PortalStep, OrdersTypeOK, CallsGoOn
<1> QED
  BY <1>2, BatchKeeps DEF PortalStep

LEMMA OrdersAreTyped ==
    SalesInv => OrdersTypeOK
  BY DEF SalesInv, SalesTypeOK, OrdersTypeOK

\* What only begins or advances a call, and what writes links and events.
LEMMA CallsOnly ==
    ASSUME SalesInv, UNCHANGED <<now, floor, held, post, issued, status, credit, cleared, targets>>, CallsGoOn,
           owing' \in [Sales -> Nat]
    PROVE  SalesInv'
<1>1. OrdersTypeOK'
  BY OrdersAreTyped DEF OrdersTypeOK
<1> QED
  BY <1>1, SameMoney, QuietPortalStep DEF PortalStep

\* An order is drafted, confirmed or cancelled; none of them was paid.
LEMMA OrderKeeps ==
    ASSUME SalesInv, NEW s \in Sales,
           (\E extends \in SUBSET Counters : CreateOrder(s, extends)) \/ Confirm(s) \/ Cancel(s)
    PROVE  SalesInv'
<1>1. UNCHANGED <<now, floor, held, post, issued, credit, cleared, owing, calls>>
  BY DEF CreateOrder, Confirm, Cancel, money
<1>2. /\ status[s] # "paid"
      /\ \E state \in OrderStates : status' = [status EXCEPT ![s] = state]
  BY DEF CreateOrder, Confirm, Cancel, OrderStates
<1>3. targets' = targets \/ \E extends \in SUBSET Counters : targets' = [targets EXCEPT ![s] = extends]
  BY DEF CreateOrder, Confirm, Cancel
<1>4. OrdersTypeOK
  BY OrdersAreTyped
<1>5. OrdersTypeOK'
  BY <1>1, <1>2, <1>3, <1>4 DEF OrdersTypeOK
<1>6. MoneyGrows
  BY <1>1, <1>2, <1>4 DEF OrdersTypeOK, MoneyGrows, Paid
<1> QED
  BY <1>1, <1>5, <1>6, SameGoOn, QuietPortalStep DEF PortalStep

LEMMA SettleIsOK ==
    ASSUME NEW s \in Sales, NEW by, NEW phase \in {"paying", "inserting"}, NEW amount \in Nat
    PROVE  /\ CallOK(Settle(s, by, phase))  /\ CallOK([Settle(s, by, phase) EXCEPT !.amount = amount])
           /\ CallOK(Settle(s, by, "settling"))
  BY DEF Settle, CallOK

\* What begins a call: credit, a payment, a settlement tried again, a link.
LEMMA BeginKeeps ==
    ASSUME SalesInv, NEW s \in Sales,
           \/ \E day \in Days : Credit(s, day)
           \/ \E amount \in Amounts : Pay(s, amount)
           \/ SettleAgain(s)
           \/ CreateLink(s)
    PROVE  SalesInv'
<1>1. UNCHANGED <<now, floor, held, post, issued, status, credit, cleared, targets>>
  BY DEF Credit, Pay, SettleAgain, CreateLink, database, money
<1>2. owing' \in [Sales -> Nat]
  <2>1. owing \in [Sales -> Nat] /\ cleared[s] \in Nat /\ Price[s] \in Nat
    BY SalesAssumption DEF SalesInv, SalesTypeOK
  <2>2. owing' = owing \/ (cleared[s] < Price[s] /\ owing' = [owing EXCEPT ![s] = Price[s] - cleared[s]])
    BY DEF Credit, Pay, SettleAgain, CreateLink, money
  <2> QED
    BY <2>1, <2>2
<1>3. CASE \E day \in Days : Credit(s, day)
  <2>1. PICK day \in Days : Credit(s, day)
    BY <1>3
  <2> DEFINE call == [op |-> "credit", phase |-> "looking", order |-> s, day |-> day,
                      seats |-> {c \in Counters : seat[c] = s}, drafts |-> {}]
  <2>2. Begin(call)
    BY <2>1 DEF Credit
  <2>3. day \in Nat
    BY SalesAssumption
  <2>4. CallOK(call)
    BY <2>3 DEF CallOK
  <2> HIDE DEF call
  <2> QED
    BY <1>1, <1>2, <2>2, <2>4, BeginGoesOn, CallsOnly
<1>4. CASE \E amount \in Amounts : Pay(s, amount)
  <2>1. PICK amount \in Amounts : Pay(s, amount)
    BY <1>4
  <2>2. amount \in Nat
    BY SalesAssumption
  <2>3. Begin([Settle(s, "staff", "paying") EXCEPT !.amount = amount])
    BY <2>1 DEF Pay
  <2> QED
    BY <1>1, <1>2, <2>2, <2>3, SettleIsOK, BeginGoesOn, CallsOnly
<1>5. CASE SettleAgain(s)
  <2>1. Begin(Settle(s, "staff", "settling"))
    BY <1>5 DEF SettleAgain
  <2> QED
    BY <1>1, <1>2, <2>1, SettleIsOK, BeginGoesOn, CallsOnly
<1>6. CASE CreateLink(s)
  <2> DEFINE call == [op |-> "link", phase |-> "filing", order |-> s, drafts |-> {}]
  <2>1. Begin(call)
    BY <1>6 DEF CreateLink
  <2>2. CallOK(call)
    BY DEF CallOK
  <2> HIDE DEF call
  <2> QED
    BY <1>1, <1>2, <2>1, <2>2, BeginGoesOn, CallsOnly
<1> QED
  BY <1>3, <1>4, <1>5, <1>6

\* Razorpay's link is paid, and its event delivered.
LEMMA DeliverKeeps ==
    ASSUME SalesInv, NEW s \in Sales, PayLink(s) \/ Deliver(s)
    PROVE  SalesInv'
<1>1. UNCHANGED <<now, floor, held, post, issued, status, credit, cleared, targets, owing>>
  BY DEF PayLink, Deliver, licenceVars, database
<1>2. owing' \in [Sales -> Nat]
  BY <1>1 DEF SalesInv, SalesTypeOK
<1>3. UNCHANGED calls \/ Begin(Settle(s, "webhook", "inserting")) \/ Begin(Settle(s, "webhook", "settling"))
  BY DEF PayLink, Deliver, licenceVars, OnFile
<1>4. CallsGoOn
  BY <1>3, SameGoOn, SettleIsOK, BeginGoesOn
<1> QED
  BY <1>1, <1>2, <1>4, CallsOnly

LEMMA SettledGoesOn ==
    ASSUME SalesInv, NEW k \in Slots, calls[k] # None, Settled(k) \/ Ends(k)
    PROVE  CallsGoOn
  BY EndGoesOn, PhaseGoesOn DEF Settled

\* The licences of the counters on credit are drafted again, to end with the term at the latest.
LEMMA LookCreditKeeps ==
    ASSUME SalesInv, NEW k \in Slots, calls[k] # None, LookCredit(k)
    PROVE  SalesInv'
<1> DEFINE until  == Smaller(OrderEnd(calls[k].order), calls[k].day)
           behind == {d \in calls[k].seats : until > now /\ Latest(d).until # until}
           again  == {Again(c, until) : c \in behind}
           call   == [calls[k] EXCEPT !.phase = "signing", !.drafts = again]
<1>1. UNCHANGED <<now, floor, held, post, issued, status, credit, cleared, targets, owing>>
  BY DEF LookCredit, database, money
<1>2. CallOK(calls[k]) /\ calls[k].op = "credit"
  BY DEF SalesInv, CallsOK, LookCredit
<1>3. calls' = [calls EXCEPT ![k] = call]
  BY DEF LookCredit
<1>4. calls[k].order \in Sales /\ calls[k].day \in Nat /\ calls[k].seats \subseteq Counters
  BY <1>2 DEF CallOK
<1>5. until \in Nat
  <2>1. OrderEnd(calls[k].order) \in Nat
    BY <1>4, OrderEndIsNat DEF SalesInv
  <2> QED
    BY <1>4, <2>1 DEF Smaller
<1> HIDE DEF until
<1>6. ASSUME NEW d \in again
      PROVE  \E c \in Counters : d = Again(c, until) /\ d.counter = c /\ DraftOK(d) /\ d.reason = "manual"
  <2>1. PICK c \in calls[k].seats : d = Again(c, until)
    OBVIOUS
  <2>2. c \in Counters
    BY <1>4
  <2>3. DraftOK(d) /\ d.reason = "manual" /\ d.counter = c
    BY <1>5, <2>1, <2>2, AgainIsOK
  <2> QED
    BY <2>1, <2>2, <2>3
<1>7. \A d, e \in again : d.counter = e.counter => d = e
  BY <1>6
<1> HIDE DEF again
<1>8. /\ DOMAIN call = DOMAIN calls[k]
      /\ call.op = calls[k].op  /\ call.order = calls[k].order  /\ call.day = calls[k].day  /\ call.seats = calls[k].seats
  OBVIOUS
<1>9. call.drafts = again
  BY <1>2 DEF CallOK
<1> HIDE DEF call
<1>10. CallOK(call)
  BY <1>2, <1>6, <1>7, <1>8, <1>9 DEF CallOK
<1>11. CallsGoOn
  BY <1>3, <1>10, SlotGoesOn
<1>12. owing' \in [Sales -> Nat]
  BY <1>1 DEF SalesInv, SalesTypeOK
<1> QED
  BY <1>1, <1>11, <1>12, CallsOnly

LEMMA WriteCreditKeeps ==
    ASSUME SalesInv, NEW k \in Slots, calls[k] # None, WriteCredit(k)
    PROVE  SalesInv'
<1>1. UNCHANGED <<now, floor, held, post, status, cleared, targets, owing>> /\ CallsGoOn
  BY EndGoesOn DEF WriteCredit, money
<1>2. CallOK(calls[k]) /\ calls[k].op = "credit" /\ calls[k].order \in Sales /\ calls[k].day \in Nat
  BY DEF SalesInv, CallsOK, CallOK, WriteCredit
<1>3. OrdersTypeOK
  BY OrdersAreTyped
<1>4. credit' = credit \/ credit' = [credit EXCEPT ![calls[k].order] = calls[k].day]
  BY DEF WriteCredit
<1>5. OrdersTypeOK'
  BY <1>1, <1>2, <1>3, <1>4 DEF OrdersTypeOK
<1>6. Insert(calls[k].drafts) \/ issued' = issued
  BY DEF WriteCredit
<1> QED
  BY <1>1, <1>2, <1>5, <1>6, SameMoney, QuietPortalStep, BatchPortalStep DEF PortalStep

\* Money comes in: by staff's record or through the link, whose amount was fixed with it.
LEMMA MoneyComesIn ==
    ASSUME SalesInv, NEW k \in Slots, calls[k] # None, WritePayment(k) \/ WriteLinkPayment(k)
    PROVE  SalesInv'
<1> DEFINE s == calls[k].order
<1>1. UNCHANGED <<now, floor, held, post, issued, status, credit, targets, owing>>
  BY DEF WritePayment, WriteLinkPayment, database
<1>2. CallOK(calls[k]) /\ s \in Sales /\ calls[k].amount \in Nat /\ OrdersTypeOK
  BY OrdersAreTyped DEF SalesInv, CallsOK, CallOK, WritePayment, WriteLinkPayment
<1>3. \E amount \in Nat : cleared' = [cleared EXCEPT ![s] = @ + amount]
  <2>1. /\ 0 \in Nat  /\ calls[k].amount \in Nat  /\ owing[s] \in Nat
        /\ cleared = [cleared EXCEPT ![s] = @ + 0]
    BY <1>2 DEF OrdersTypeOK
  <2>2. \/ cleared' = cleared
        \/ cleared' = [cleared EXCEPT ![s] = @ + calls[k].amount]
        \/ cleared' = [cleared EXCEPT ![s] = @ + owing[s]]
    BY DEF WritePayment, WriteLinkPayment
  <2> QED
    BY <2>1, <2>2
<1>4. PICK amount \in Nat : cleared' = [cleared EXCEPT ![s] = @ + amount]
  BY <1>3
<1>5. \A q \in Sales : cleared[q] \in Nat /\ cleared'[q] \in Nat /\ cleared[q] <= cleared'[q]
  BY <1>2, <1>4 DEF OrdersTypeOK
<1>6. \A q \in Sales : Price[q] \in Nat
  BY SalesAssumption
<1>7. MoneyGrows
  BY <1>1, <1>5, <1>6 DEF MoneyGrows, Paid
<1>8. OrdersTypeOK'
  BY <1>1, <1>2, <1>4, <1>5 DEF OrdersTypeOK
<1>9. Ends(k) \/ Goes(k, "settling")
  BY DEF WritePayment, WriteLinkPayment
<1>10. CallsGoOn
  BY <1>9, EndGoesOn, PhaseGoesOn
<1> QED
  BY <1>1, <1>7, <1>8, <1>10, QuietPortalStep DEF PortalStep

\* A settlement reads whether its order is covered; a link is filed; an event is recorded.
LEMMA CallGoesOnKeeps ==
    ASSUME SalesInv, NEW k \in Slots, calls[k] # None, ReadOrder(k) \/ FileLink(k) \/ RecordEvent(k)
    PROVE  SalesInv'
<1>1. UNCHANGED <<now, floor, held, post, issued, status, credit, cleared, targets, owing>>
  BY DEF ReadOrder, FileLink, RecordEvent, database, money
<1>2. owing' \in [Sales -> Nat]
  BY <1>1 DEF SalesInv, SalesTypeOK
<1>3. \/ Settled(k) \/ Ends(k)
      \/ cleared[calls[k].order] >= Price[calls[k].order] /\ Goes(k, "looking")
  BY DEF ReadOrder, FileLink, RecordEvent
<1>4. CallsGoOn
  BY <1>3, SettledGoesOn, PhaseGoesOn
<1> QED
  BY <1>1, <1>2, <1>4, CallsOnly

\* What a settlement drafts is for its order: one licence for each counter of a renewal, or the full term.
LEMMA FulfilmentIs ==
    ASSUME SalesInv, NEW s \in Sales
    PROVE  /\ \A d \in Fulfilment(s) : DraftOK(d) /\ d.reason = "order" /\ d.order = s
           /\ \A d, e \in Fulfilment(s) : d.counter = e.counter => d = e
<1> DEFINE until(c) == IF Kind[s] = "renewal" THEN Larger(Latest(c).until, now) + Term[s] ELSE OrderEnd(s)
<1>1. ASSUME NEW c \in Counters PROVE until(c) \in Nat /\ (Kind[s] # "renewal" => until(c) <= OrderEnd(s))
  <2>1. Latest(c).until \in Nat /\ now \in Nat /\ Term[s] \in Nat /\ OrderEnd(s) \in Nat
    BY LatestIsHeld, OrderEndIsNat, LicencesAssumption DEF SalesInv, SalesTypeOK
  <2>2. Larger(Latest(c).until, now) \in Nat
    BY <2>1 DEF Larger
  <2> QED
    BY <2>1, <2>2
<1>2. targets[s] \subseteq Counters
  BY DEF SalesInv, SalesTypeOK
<1>3. ASSUME NEW d \in Fulfilment(s) PROVE \E c \in Counters : d = Draft(c, until(c), FALSE, s, "order")
  BY <1>2 DEF Fulfilment
<1> HIDE DEF until
<1>4. ASSUME NEW d \in Fulfilment(s)
      PROVE  /\ DraftOK(d)  /\ d.reason = "order"  /\ d.order = s
             /\ d.counter \in Counters  /\ d = Draft(d.counter, until(d.counter), FALSE, s, "order")
  <2>1. PICK c \in Counters : d = Draft(c, until(c), FALSE, s, "order")
    BY <1>3
  <2>2. d \in DraftRecords
    BY <1>1, <2>1 DEF Draft, DraftRecords
  <2>3. d.reason = "order" /\ d.order = s /\ d.counter = c /\ d.until = until(c)
    BY <2>1 DEF Draft
  <2>4. DraftOK(d)
    BY <1>1, <2>2, <2>3 DEF DraftOK
  <2> QED
    BY <2>1, <2>3, <2>4
<1>5. ASSUME NEW d \in Fulfilment(s), NEW e \in Fulfilment(s), d.counter = e.counter PROVE d = e
  BY <1>4, <1>5
<1> QED
  BY <1>4, <1>5

LEMMA ReadLicencesKeeps ==
    ASSUME SalesInv, NEW k \in Slots, calls[k] # None, ReadLicences(k)
    PROVE  SalesInv'
<1> DEFINE s == calls[k].order
           call == [calls[k] EXCEPT !.phase = "signing", !.drafts = Fulfilment(s)]
<1>1. UNCHANGED <<now, floor, held, post, issued, status, credit, cleared, targets, owing>>
  BY DEF ReadLicences, database, money
<1>2. CallOK(calls[k]) /\ calls[k].op = "settle" /\ calls[k].phase = "looking" /\ s \in Sales
  BY DEF SalesInv, CallsOK, CallOK, ReadLicences
<1>3. calls' = [calls EXCEPT ![k] = call]
  BY DEF ReadLicences
<1>4. /\ DOMAIN call = DOMAIN calls[k]
      /\ call.op = calls[k].op  /\ call.order = s  /\ call.amount = calls[k].amount
  OBVIOUS
<1>5. call.drafts = Fulfilment(s)
  BY <1>2 DEF CallOK
<1> HIDE DEF call
<1>6. CallOK(call)
  BY <1>2, <1>4, <1>5, FulfilmentIs DEF CallOK
<1>7. CallsGoOn
  BY <1>3, <1>6, SlotGoesOn
<1>8. owing' \in [Sales -> Nat]
  BY <1>1 DEF SalesInv, SalesTypeOK
<1> QED
  BY <1>1, <1>7, <1>8, CallsOnly

\* The batch of a settlement makes a confirmed order paid, and the money it read is still there.
LEMMA WriteSettleKeeps ==
    ASSUME SalesInv, NEW k \in Slots, calls[k] # None, WriteSettle(k)
    PROVE  SalesInv'
<1> DEFINE s == calls[k].order
<1>1. UNCHANGED <<now, floor, held, post, credit, cleared, targets, owing>> /\ CallsGoOn
  BY SettledGoesOn DEF WriteSettle
<1>2. CallOK(calls[k]) /\ calls[k].op = "settle" /\ s \in Sales /\ cleared[s] >= Price[s] /\ OrdersTypeOK
  BY OrdersAreTyped DEF SalesInv, CallsOK, CallOK, WriteSettle
<1>3. CASE /\ StillWaits(s)
           /\ status' = [status EXCEPT ![s] = "paid"]
           /\ Insert(calls[k].drafts)
  <2>1. OrdersTypeOK' /\ status[s] = "confirmed"
    BY <1>1, <1>2, <1>3 DEF OrdersTypeOK, OrderStates, StillWaits
  <2>2. MoneyGrows
    BY <1>1, <1>2, <1>3 DEF OrdersTypeOK, MoneyGrows, Paid
  <2>3. PICK call : call = calls[k]
    OBVIOUS
  <2>4. Paid(call.order)'
    BY <1>1, <1>2, <1>3, <2>3 DEF OrdersTypeOK, Paid
  <2>5. /\ CallOK(call)  /\ Insert(call.drafts)
        /\ call.op = "settle" => status[call.order] = "confirmed" /\ Paid(call.order)'
    BY <1>2, <1>3, <2>1, <2>3, <2>4
  <2>6. PortalStep
    BY <1>1, <2>1 DEF PortalStep
  <2> QED
    BY <2>2, <2>5, <2>6, BatchPortalStep
<1>4. CASE UNCHANGED <<status, issued>>
  <2>1. OrdersTypeOK'
    BY <1>1, <1>2, <1>4 DEF OrdersTypeOK
  <2> QED
    BY <1>1, <1>4, <2>1, SameMoney, QuietPortalStep DEF PortalStep
<1> QED
  BY <1>3, <1>4 DEF WriteSettle

-----------------------------------------------------------------------------
(* The theorems.                                                           *)

LEMMA SalesStepKeeps ==
    ASSUME SalesInv, [Next]_vars
    PROVE  SalesInv'
<1>1. CASE LicencesNext /\ UNCHANGED money
  BY <1>1, LicencesNextKeeps
<1>2. CASE SalesNext
  <2>1. CASE \E s \in Sales, extends \in SUBSET Counters : CreateOrder(s, extends)
    BY <2>1, OrderKeeps
  <2>2. CASE \E s \in Sales : Confirm(s) \/ Cancel(s) \/ SettleAgain(s) \/ CreateLink(s) \/ PayLink(s) \/ Deliver(s)
    BY <2>2, OrderKeeps, BeginKeeps, DeliverKeeps
  <2>3. CASE \E s \in Sales, day \in Days : Credit(s, day)
    BY <2>3, BeginKeeps
  <2>4. CASE \E s \in Sales, amount \in Amounts : Pay(s, amount)
    BY <2>4, BeginKeeps
  <2>5. CASE \E k \in Slots : calls[k] # None /\ SalesStep(k)
    BY <2>5, LookCreditKeeps, WriteCreditKeeps, MoneyComesIn, CallGoesOnKeeps, ReadLicencesKeeps, WriteSettleKeeps
       DEF SalesStep
  <2> QED
    BY <1>2, <2>1, <2>2, <2>3, <2>4, <2>5 DEF SalesNext
<1>3. CASE UNCHANGED vars
  <2>1. UNCHANGED <<now, floor, held, post, issued, status, credit, cleared, targets, owing, calls>>
    BY <1>3 DEF vars, licenceVars, database, money
  <2>2. owing' \in [Sales -> Nat]
    BY <2>1 DEF SalesInv, SalesTypeOK
  <2> QED
    BY <2>1, <2>2, SameGoOn, CallsOnly
<1> QED
  BY <1>1, <1>2, <1>3 DEF Next

LEMMA SalesBegin ==
    Init => SalesInv
<1> SUFFICES ASSUME Init PROVE SalesInv
  OBVIOUS
<1>1. SalesTypeOK
  BY DEF Init, LicencesInit, SalesTypeOK, OrderStates, NoLicence, HeldRecords
<1>2. \A c \in Counters : issued[c] = {}
  BY DEF Init, LicencesInit
<1>3. IssuedOK /\ Sold
  BY <1>2 DEF IssuedOK, Sold
<1>4. CallsOK
  BY DEF Init, LicencesInit, CallsOK
<1> QED
  BY <1>1, <1>3, <1>4 DEF SalesInv

\* In every state the licences, the calls at work and what they have drafted are as they may be.
THEOREM SalesInvariant == Spec => []SalesInv
  BY SalesBegin, SalesStepKeeps, PTL DEF Spec

\* What an order sells is given once, whatever calls overlap, stop or are tried again.
THEOREM SoldOnlyOnce == Spec => []SoldOnce
<1>1. SalesInv => SoldOnce
  <2> SUFFICES ASSUME SalesInv, NEW s \in Sales, NEW c \in Counters
               PROVE  LET by == {l \in issued[c] : l.order = s}  granted == {l \in by : l.reason = "order"}
                      IN  /\ Kind[s] = "renewal" =>
                                /\ Cardinality(granted) <= 1
                                /\ by # {} => status[s] = "paid" /\ cleared[s] >= Price[s]
                          /\ Kind[s] # "renewal" => \A l \in granted : l.until <= OrderEnd(s)
    BY DEF SoldOnce
  <2> DEFINE by == {l \in issued[c] : l.order = s}  granted == {l \in by : l.reason = "order"}
  <2>1. Sold
    BY DEF SalesInv
  <2>2. ASSUME Kind[s] = "renewal" PROVE Cardinality(granted) <= 1
    <3>1. \A l, m \in granted : l = m
      BY <2>1, <2>2 DEF Sold
    <3> HIDE DEF granted
    <3>2. granted = {} \/ \E x \in granted : granted = {x}
      BY <3>1
    <3> QED
      BY <3>2, FS_EmptySet, FS_Singleton
  <2>3. ASSUME Kind[s] = "renewal", by # {} PROVE status[s] = "paid" /\ cleared[s] >= Price[s]
    BY <2>1, <2>3 DEF Sold, Paid
  <2>4. ASSUME Kind[s] # "renewal" PROVE \A l \in granted : l.until <= OrderEnd(s)
    BY <2>1, <2>4 DEF Sold
  <2> QED
    BY <2>2, <2>3, <2>4
<1> QED
  BY <1>1, SalesInvariant, PTL
=============================================================================
