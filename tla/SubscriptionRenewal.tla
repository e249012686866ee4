------------------------ MODULE SubscriptionRenewal ------------------------
(***************************************************************************)
(* One subscription paid by Alipay or WeChat Pay, its renewal orders and   *)
(* the events that move it on: service/billing/renewal.py, tasks.py,       *)
(* renewal_event_transitions.py and the parts of subscriptions.py,         *)
(* webhooks.py and checkout.py they meet in.                               *)
(*                                                                         *)
(* A database transaction is two steps: its first read, which fixes what   *)
(* plain reads see, and its commit, which writes the columns it changed.   *)
(* Reads FOR UPDATE and conditional updates see the rows as they are.      *)
(* Transactions are short beside a unit of the clock.                      *)
(***************************************************************************)
EXTENDS Naturals, FiniteSets, FiniteSetsExt

CONSTANTS
    Threads,      \* Celery workers and request threads
    Nobody,
    Length,       \* of a cycle
    Lead,         \* the renewal order is made so long before it (seven days)
    Ahead,        \* tasks are dispatched so long before they are due (an hour)
    MaxTime,      \* bounds on the clock, the orders, the user's decisions and on
    MaxBills,     \* tasks that fail half way
    MaxChoices,
    MaxFaults

\* What the constants are.
RenewalAssumption ==
    /\ Nobody \notin Threads
    /\ {Length, Lead, Ahead, MaxTime, MaxBills, MaxChoices, MaxFaults} \subseteq Nat
    /\ 0 < Lead /\ Lead < Length

Bills == 1 .. MaxBills
Types == {"renewal", "expire", "cancel"}

VARIABLES
    now,
    sub,        \* the subscription's row; bill is the one its cycle was paid by
    bill,       \* bill[o]: its row, its grant and its trade at the provider
    event,      \* event[e]: the row of e, a type and a time; by claimed it
    thread,     \* thread[w]: what it does, and its transaction's snapshot
    choices,    \* how often the user decided
    faults,     \* how many claims were recovered
    outdated    \* a plain read of the subscription was stale when written back

renewalVars == <<now, sub, bill, event, thread, choices, faults, outdated>>

NoBill == [st |-> "none", start |-> 0, at |-> 0, trade |-> "none", grant |-> "none"]
NewEvent == [st |-> "pending", by |-> Nobody]
IdleThread == [pc |-> "idle", ev |-> <<"renewal", 0>>, of |-> 0, sub |-> <<>>, bills |-> <<>>, fresh |-> TRUE]

Live == {"pending", "failed"}
Obsolete == {"canceled", "expired"}

------------------------------------------------------------------------------
(* The lifecycle events of a subscription.                                 *)

Canceled(ev, types) ==
    [e \in DOMAIN ev |-> IF e[1] \in types /\ ev[e].st \in Live
                         THEN [ev[e] EXCEPT !.st = "canceled"] ELSE ev[e]]

Has(ev, e, states) == e \in DOMAIN ev /\ ev[e].st \in states

UpsertedUnlessCanceled(ev, type, t) ==
    LET e == <<type, t>>
        others == Canceled(ev, {type})
        kept == Has(ev, e, {"processing", "succeeded", "canceled"}) IN
    [d \in DOMAIN ev \cup {e} |->
        IF d # e THEN others[d] ELSE IF kept THEN ev[e] ELSE NewEvent]

\* The event is pending, unless a worker has it or it is done; others of its
\* type are canceled.
Upserted(ev, type, t) ==
    LET e == <<type, t>>
        others == Canceled(ev, {type})
        kept == Has(ev, e, {"processing", "succeeded"}) IN
    [d \in DOMAIN ev \cup {e} |->
        IF d # e THEN others[d] ELSE IF kept THEN ev[e] ELSE NewEvent]

RenewalAt(s) == Max({s.start, s.end - Lead})

\* What follows from s, as the writer holds it in memory.
Synced(ev, s) ==
    IF s.status \in Obsolete THEN Canceled(ev, Types)
    ELSE IF s.cancel \/ s.status = "cancel_scheduled"
    THEN Canceled(Upserted(ev, "cancel", s.end), {"renewal", "expire"})
    ELSE Upserted(Upserted(Canceled(ev, {"cancel"}), "renewal", RenewalAt(s)), "expire", s.end)

FirstCycle == [status |-> "active", start |-> 0, end |-> Length, cancel |-> FALSE, bill |-> 0]

RenewalInit ==
    /\ now = 0
    /\ sub = FirstCycle
    /\ bill = [o \in Bills |-> NoBill]
    /\ event = Synced([e \in {} |-> NewEvent], FirstCycle)
    /\ thread = [w \in Threads |-> IdleThread]
    /\ choices = 0
    /\ faults = 0
    /\ outdated = FALSE

PutThread(w, rec) == thread' = [thread EXCEPT ![w] = rec]
MoveTo(w, pc) == thread' = [thread EXCEPT ![w].pc = pc]
\* The transaction reads for the first time.
Snapshot(w, pc) ==
    PutThread(w, [thread[w] EXCEPT !.pc = pc, !.sub = sub, !.bills = bill, !.fresh = TRUE])
\* A commit that moves the wallet on makes other writers of the wallet fail.
PutWallet(w, rec) ==
    thread' = [v \in Threads |-> IF v = w THEN rec ELSE [thread[v] EXCEPT !.fresh = FALSE]]

\* The columns of target that differ from what w read.
Written(w, target) ==
    [f \in DOMAIN sub |-> IF target[f] = thread[w].sub[f] THEN sub[f] ELSE target[f]]
Outdated(w) == outdated \/ sub # thread[w].sub

------------------------------------------------------------------------------
(* Events are claimed, released, recovered and ended.                      *)

\* _claim_target_renewal_event, in a transaction of its own.
Claim(w, e) ==
    /\ thread[w].pc = "idle"
    /\ event[e].st \in Live /\ e[2] <= now + Ahead
    /\ event' = [event EXCEPT ![e].st = "processing", ![e].by = w]
    /\ PutThread(w, [IdleThread EXCEPT !.pc = "claimed", !.ev = e])
    /\ UNCHANGED <<now, sub, bill, choices, faults, outdated>>

FoundById(w) == thread[w].ev \in DOMAIN event

Mine(w) == event[thread[w].ev].st = "processing" /\ event[thread[w].ev].by = w
Ended(ev, w, st) == [ev EXCEPT ![thread[w].ev].st = st, ![thread[w].ev].by = Nobody]

\* An event that is not due yet is given back.
Open(w) ==
    /\ thread[w].pc = "claimed"
    /\ IF thread[w].ev[2] > now
       THEN Mine(w) /\ event' = Ended(event, w, "pending") /\ PutThread(w, IdleThread)
       ELSE Snapshot(w, thread[w].ev[1]) /\ event' = event
    /\ UNCHANGED <<now, sub, bill, choices, faults, outdated>>

\* _recover_stale_processing_renewal_events: its worker died, or is slow.
Recover(e) ==
    /\ event[e].st = "processing" /\ faults < MaxFaults
    /\ faults' = faults + 1
    /\ event' = [event EXCEPT ![e].st = "pending", ![e].by = Nobody]
    /\ UNCHANGED <<now, sub, bill, thread, choices, outdated>>

\* The worker dies, its claim or the wallet's version is lost: nothing of the
\* transaction stays.
RollBack(w) ==
    /\ thread[w].pc # "idle"
    /\ PutThread(w, IdleThread)
    /\ UNCHANGED <<now, sub, bill, event, choices, faults, outdated>>

------------------------------------------------------------------------------
(* RENEWAL: make the order of the next cycle.  An order of that cycle which *)
(* has its trade already would be synchronised with the provider first, or *)
(* dropped when the subscription is obsolete; only a preorder, a referral  *)
(* or a Stripe subscription has one.                                       *)

\* The orders of the cycle, as the snapshot shows them.
OfCycle(w, start) ==
    {o \in Bills : thread[w].bills[o].st # "none" /\ thread[w].bills[o].start = start}

\* ensure_subscription_renewal_order.
EnsureBill(w) ==
    LET found == OfCycle(w, sub.end)
        free == {o \in Bills : bill[o].st = "none"} IN
    /\ sub.status \notin Obsolete
    /\ found \cup free # {}
    /\ bill' = IF found # {} THEN bill
               ELSE [bill EXCEPT ![Min(free)] =
                        [NoBill EXCEPT !.st = "pending", !.start = sub.end]]

Renew(w) ==
    /\ thread[w].pc = "renewal" /\ Mine(w)
    /\ (sub.status \in Obsolete /\ bill' = bill) \/ EnsureBill(w)
    /\ event' = Ended(event, w, "succeeded")
    /\ PutThread(w, IdleThread)
    /\ UNCHANGED <<now, sub, choices, faults, outdated>>

------------------------------------------------------------------------------
(* A payment is told to the system.                                        *)

\* The cycle an order paid at r.at is for: the one it was made for, or one
\* that starts with the payment when that is over.
From(r) == IF r.at >= r.start + Length THEN r.at ELSE r.start

\* _apply_paid_subscription_cycle_state.
Activated(s, o, r) ==
    [s EXCEPT !.status = IF s.cancel THEN "cancel_scheduled" ELSE "active",
              !.start = From(r), !.end = From(r) + Length, !.bill = o]

\* _is_stale_manual_cycle: of an older cycle.  Two orders of one cycle, told
\* apart there by when they were paid, do not occur: see CycleBilledOnce.
StaleCycle(o, r) == sub.bill # o /\ From(r) < sub.start

\* apply_billing_native_notification, or the user's sync_billing_order, of an
\* order the provider holds a payment for; it may be told again and again.
Notify(w, o) ==
    /\ thread[w].pc = "idle"
    /\ bill[o].trade = "paid"
    /\ PutThread(w, [IdleThread EXCEPT !.pc = "settle", !.of = o, !.sub = sub, !.bills = bill])
    /\ UNCHANGED <<now, sub, bill, event, choices, faults, outdated>>

\* _grant_paid_order_credits with the subscription locked: a cycle to come is
\* reserved and left to its boundary, one that is on is activated.
SettleBill(w) ==
    LET o == thread[w].of
        read == thread[w].bills[o]
        r == IF read.st = "paid" THEN read ELSE [read EXCEPT !.st = "paid", !.at = now]
        paid == [bill[o] EXCEPT !.st = "paid", !.at = r.at]
        deferred == From(r) > now IN
    /\ thread[w].pc = "settle"
    /\ \/ /\ StaleCycle(o, r)
          /\ bill' = [bill EXCEPT ![o] = paid]
          /\ PutThread(w, IdleThread)
          /\ UNCHANGED <<sub, event>>
       \/ /\ ~StaleCycle(o, r) /\ deferred /\ read.grant # "none"
          /\ bill' = [bill EXCEPT ![o] = paid]
          /\ event' = Synced(event, sub)
          /\ PutThread(w, IdleThread) /\ sub' = sub
       \/ /\ ~StaleCycle(o, r) /\ thread[w].fresh
          /\ deferred => read.grant = "none"
          /\ read.grant = "none" => bill[o].grant = "none"
          /\ bill' = [bill EXCEPT ![o] =
                [paid EXCEPT !.grant = IF deferred THEN "reserved" ELSE "available"]]
          /\ sub' = IF deferred THEN sub ELSE Activated(sub, o, r)
          /\ event' = Synced(event, sub')
          /\ PutWallet(w, IdleThread)
    /\ UNCHANGED <<now, choices, faults, outdated>>

------------------------------------------------------------------------------
(* EXPIRE and CANCEL_EFFECTIVE: what the end of a cycle brings.            *)

Complete(w) ==
    /\ Mine(w)
    /\ event' = Ended(event, w, "succeeded")
    /\ PutThread(w, IdleThread)
    /\ UNCHANGED <<sub, bill, outdated>>

\* The subscription is written back and its events follow.
Become(w, s) ==
    /\ Mine(w)
    /\ sub' = Written(w, s)
    /\ event' = Ended(Synced(event, s), w, "succeeded")
    /\ outdated' = Outdated(w)

\* The order that was paid for the cycle after the boundary.
Successors(w) ==
    LET os == thread[w].bills IN
    {o \in Bills : os[o].st = "paid" /\ From(os[o]) = thread[w].ev[2]}
FirstPaid(w) ==
    LET os == thread[w].bills IN
    CHOOSE o \in Successors(w) : \A p \in Successors(w) :
        os[o].at < os[p].at \/ (os[o].at = os[p].at /\ o <= p)

\* Expiring the ended credits moves the wallet on, if there are any; when
\* another writer was first they are left to a later scan.
ExpireSubscription(w) ==
    /\ Become(w, [thread[w].sub EXCEPT !.status = "expired"])
    /\ \/ PutThread(w, IdleThread)
       \/ thread[w].fresh /\ PutWallet(w, IdleThread)
    /\ bill' = bill

ActivatePaid(w) ==
    LET o == FirstPaid(w) IN
    /\ thread[w].fresh
    /\ Become(w, Activated(thread[w].sub, o, thread[w].bills[o]))
    /\ bill' = [bill EXCEPT ![o].grant = "available"]
    /\ PutWallet(w, IdleThread)

ExpireCycle(w) ==
    LET s == thread[w].sub
        over == s.status = "expired" \/ s.start >= thread[w].ev[2] IN
    /\ thread[w].pc = "expire"
    /\ \/ over /\ Complete(w)
       \/ ~over /\ Successors(w) # {} /\ ActivatePaid(w)
       \/ ~over /\ Successors(w) = {} /\ ExpireSubscription(w)
    /\ UNCHANGED <<now, choices, faults>>

CancelEffective(w) ==
    LET s == thread[w].sub IN
    /\ thread[w].pc = "cancel"
    /\ \/ s.status \in Obsolete /\ Complete(w)
       \/ /\ s.status \notin Obsolete
          /\ Become(w, [s EXCEPT !.cancel = TRUE, !.status = "canceled"])
          /\ PutThread(w, IdleThread) /\ bill' = bill
    /\ UNCHANGED <<now, choices, faults>>

------------------------------------------------------------------------------
(* The user, the provider and the clock.                                   *)

\* cancel_billing_subscription and resume_billing_subscription read plainly.
Choose(w, choice) ==
    /\ thread[w].pc = "idle" /\ choices < MaxChoices
    /\ \/ choice = "stop" /\ sub.status \in {"active", "cancel_scheduled"}
       \/ choice = "resume" /\ sub.status = "cancel_scheduled"
    /\ choices' = choices + 1
    /\ PutThread(w, [IdleThread EXCEPT !.pc = choice, !.sub = sub])
    /\ UNCHANGED <<now, sub, bill, event, faults, outdated>>

Decide(w) ==
    LET stop == thread[w].pc = "stop"
        s == [thread[w].sub EXCEPT !.cancel = stop,
                                   !.status = IF stop THEN "cancel_scheduled" ELSE "active"] IN
    /\ thread[w].pc \in {"stop", "resume"}
    /\ sub' = Written(w, s)
    /\ event' = Synced(event, s)
    /\ outdated' = Outdated(w)
    /\ PutThread(w, IdleThread)
    /\ UNCHANGED <<now, bill, choices, faults>>

\* create_billing_order_checkout makes the trade of a pending order.
Checkout(o) ==
    /\ bill[o].st = "pending" /\ bill[o].trade = "none"
    /\ bill' = [bill EXCEPT ![o].trade = "open"]
    /\ UNCHANGED <<now, sub, event, thread, choices, faults, outdated>>

PayBill(o) ==
    /\ bill[o].trade = "open"
    /\ bill' = [bill EXCEPT ![o].trade = "paid"]
    /\ UNCHANGED <<now, sub, event, thread, choices, faults, outdated>>

Tick ==
    /\ now < MaxTime
    /\ \A w \in Threads : thread[w].pc = "idle"
    /\ now' = now + 1
    /\ UNCHANGED <<sub, bill, event, thread, choices, faults, outdated>>

RenewalNext ==
    \/ Tick
    \/ \E e \in DOMAIN event : Recover(e) \/ \E w \in Threads : Claim(w, e)
    \/ \E o \in Bills : Checkout(o) \/ PayBill(o) \/ \E w \in Threads : Notify(w, o)
    \/ \E w \in Threads :
        \/ Open(w) \/ RollBack(w) \/ Renew(w) \/ SettleBill(w)
        \/ ExpireCycle(w) \/ CancelEffective(w)
        \/ Choose(w, "stop") \/ Choose(w, "resume") \/ Decide(w)

RenewalSpec == RenewalInit /\ [][RenewalNext]_renewalVars

------------------------------------------------------------------------------
(* Correctness.                                                            *)

\* A renewal is charged once: however often its event is claimed, recovered
\* and run, and whoever cancels or pays meanwhile, a cycle has one order.
CycleBilledOnce ==
    \A o, p \in Bills :
        (bill[o].st # "none" /\ bill[p].st # "none" /\ bill[o].start = bill[p].start) => o = p

\* A cycle that is on has its end in sight: an event for that end waits or is
\* being worked on, of the kind the user's last decision asks for, unless a
\* writer went by a subscription that had changed.
EndIsScheduled ==
    LET Awaits(type) == Has(event, <<type, sub.end>>, Live \cup {"processing"}) IN
    (~outdated /\ sub.end > now) =>
        /\ sub.status = "active" => Awaits("expire")
        /\ sub.status = "cancel_scheduled" => Awaits("cancel")

\* What the activation's comment says of cycle-boundary workers: a cycle that
\* was paid and credited is not taken back by the expiry of the one before it.
PaidCycleNotExpired ==
    \A o \in Bills :
        (bill[o].grant = "available" /\ sub.bill = o /\ now < sub.end) => sub.status # "expired"
==============================================================================
