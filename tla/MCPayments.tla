----------------------------- MODULE MCPayments -----------------------------
(***************************************************************************)
(* A course's orders and a subscription's renewal, which share nothing, in *)
(* one state space: a behaviour is one of a single part, chosen at the     *)
(* start, while the other rests in its initial state.                      *)
(***************************************************************************)
EXTENDS CourseOrder, SubscriptionRenewal, TLC

CONSTANT Parts

VARIABLE part

everything == <<part, vars, renewalVars>>

ASSUME PartsAssumption == OrderAssumption /\ RenewalAssumption

Is(p) == part = p

\* Two channels, without a crash or an order that changed under a writer; and
\* the one that takes no lifecycle lock.
OnChannels(channels) ==
    /\ \A a \in Attempts : att[a].channel \in channels \cup {"none"}
    /\ \A w \in Workers : worker[w].channel \in channels \cup {"none"}
TwoChannels == OnChannels({"stripe", "native"}) /\ crashes = 0 /\ overtaken = {}
Callback == OnChannels({"pingxx"})

\* Two renewals with payments at any time; one beside a user who cancels and
\* resumes.  In either a claimed event is recovered.
TwoRenewals == choices = 0
OneRenewal == now <= 2 /\ \A o \in Bills \ {1} : bill[o] = NoBill

AnyInit == part \in Parts /\ Init /\ RenewalInit

AnyNext ==
    \/ Is("orders") /\ Next /\ TwoChannels' /\ UNCHANGED <<part, renewalVars>>
    \/ Is("callback") /\ Next /\ Callback' /\ UNCHANGED <<part, renewalVars>>
    \/ Is("renewal") /\ RenewalNext /\ TwoRenewals' /\ UNCHANGED <<part, vars>>
    \/ Is("decision") /\ RenewalNext /\ OneRenewal' /\ UNCHANGED <<part, vars>>

AnySpec == AnyInit /\ [][AnyNext]_everything

\* The runs give Workers and Threads the same interchangeable values.
Symmetry == Permutations(Workers \cup Threads)
==============================================================================
