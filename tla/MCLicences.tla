----------------------------- MODULE MCLicences -----------------------------
(* A new order n of one outlet, its renewal r and a trial t, with two        *)
(* counters.  A behaviour is about the counters, whose hubs check, lose      *)
(* replies and are restored while staff move and renew them; or about the    *)
(* payments, by staff and through a link, of orders that run on one counter. *)
EXTENDS LicenceSales, TLC
CONSTANTS a, b, n, r, t

MCKind    == (n :> "new") @@ (r :> "renewal") @@ (t :> "trial")
MCTerm    == (n :> 2) @@ (r :> 1) @@ (t :> 1)
MCOutlets == (n :> 1) @@ (r :> 0) @@ (t :> 1)
MCPrice   == (n :> 1) @@ (r :> 1) @@ (t :> 0)

VARIABLE about

MCInit == Init /\ about \in {"counters", "payments"}

\* Bound: two orders, and the second leaves room for one step outside the usual course.
Drafted == {s \in Sales : status[s] # "none"}

AboutCounters ==
    /\ \/ LicencesNext /\ UNCHANGED money
       \/ \E s \in Sales, extends \in SUBSET Counters : CreateOrder(s, extends)
       \/ \E s \in Sales : Confirm(s) \/ Pay(s, Price[s])
       \/ \E k \in Slots : calls[k] # None /\ SalesStep(k)
    /\ held'[b] = NoLicence
    /\ Cardinality(Drafted') <= 2  /\ Cardinality(Drafted') + troubles' <= 3

\* Bound: the renewal has a link; calls about the new order run alone.
AboutPayments ==
    /\ \/ SalesNext
       \/ Enrol(a, n) /\ calls' # calls /\ UNCHANGED money
       \/ \E k \in Slots : calls[k] # None /\ (Sign(k) \/ CounterStep(k) \/ Die(k)) /\ UNCHANGED money
    /\ razorpay'[n] = "none"  /\ status'[t] = "none"
    /\ \A k \in Slots : calls'[k] # None => <<calls'[k].op, calls'[k].order>> # <<"credit", r>>
    /\ \A j, k \in Slots : j # k /\ calls'[j] # None /\ calls'[k] # None => calls'[j].order = r

MCNext ==
    /\ UNCHANGED about
    /\ \/ about = "counters" /\ AboutCounters
       \/ about = "payments" /\ AboutPayments

\* The fairness of the service, for the part a behaviour is about.
MCSpec ==
    /\ MCInit /\ [][MCNext]_<<vars, about>>
    /\ \A k \in Slots : WF_vars(CallStep(k))
    /\ WF_vars(about = "counters" /\ Check(a) /\ UNCHANGED money)
    /\ SF_vars(about = "counters" /\ Install(a) /\ UNCHANGED money)
    /\ WF_vars(about = "payments" /\ Deliver(r))

\* Money a customer pays through a link on file is put on file and completes the order, unless it was cancelled, although
\* the Worker may die between any two steps, two deliveries overlap and staff record payments meanwhile.
LinkMoneyCounts == (event[r] = "due" /\ link[r] # "none") ~> (r \in recorded /\ status[r] \in {"paid", "cancelled"})

\* The newest licence of a counter reaches its hub, whatever replies were lost, backups restored and licences signed by
\* hand meanwhile.  The counters are alike: it is checked for one.
NewestReachesCounter == (about = "counters" /\ Behind(a)) ~> ~Behind(a)
=============================================================================
