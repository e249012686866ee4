---------------------------- MODULE CourseOrder ----------------------------
(***************************************************************************)
(* A learner's orders of one course and the payment attempts made for them *)
(* at the providers: service/order/funs.py and use_coupon_code of          *)
(* service/order/coupon_funcs.py.                                          *)
(*                                                                         *)
(* An order outlives its attempts: a changed price or channel closes the   *)
(* open attempt at the provider and makes another.  Provider work of one   *)
(* order is serialised by a lifecycle lock, each database step by the      *)
(* order's row lock; init_buy_record takes neither, and goes on without    *)
(* its own lock when that is busy, so that lock orders nothing and is left *)
(* out.  A crash gives up the locks its worker held.                       *)
(***************************************************************************)
EXTENDS Naturals, FiniteSets, FiniteSetsExt

CONSTANTS
    Workers,
    Channels,      \* payment channels in use, of "stripe", "native" (Alipay and
                   \* WeChat Pay) and "pingxx"
    Prices,        \* what campaigns and coupons may make of the price
    MaxOrders,     \* bounds on the orders, the attempts and the crashes
    MaxAttempts,
    MaxCrashes

\* What the constants are.
OrderAssumption ==
    /\ Channels \subseteq {"stripe", "native", "pingxx"}
    /\ Prices \subseteq Nat
    /\ MaxOrders \in Nat /\ MaxAttempts \in Nat /\ MaxCrashes \in Nat

Orders == 1 .. MaxOrders
Attempts == 1 .. MaxAttempts

VARIABLES
    order,       \* order[o]: its row
    att,         \* att[a]: the local snapshot and the provider's view of attempt a
    expired,     \* orders older than PAY_ORDER_EXPIRE_TIME
    holder,      \* holder[o]: the workers that hold the lifecycle lock
    worker,      \* worker[w]: what worker w is doing
    crashes,
    raced,       \* orders init_buy_record overwrote after they had changed
    overlooked,  \* orders with a payment booked at a price no longer asked
    overtaken    \* orders claimed or completed on a status they no longer had

vars == <<order, att, expired, holder, worker, crashes, raced, overlooked, overtaken>>

NoOrder == [status |-> "none", price |-> 0, channel |-> "none", coupon |-> FALSE]
NoAttempt == [of |-> 0, channel |-> "none", amount |-> 0, snap |-> "none", remote |-> "none"]
Idle == [pc |-> "idle", op |-> "none", of |-> 0, channel |-> "none",
         seen |-> "none", claimed |-> {}, left |-> {}]

Init ==
    /\ order = [o \in Orders |-> NoOrder]
    /\ att = [a \in Attempts |-> NoAttempt]
    /\ expired = {}
    /\ holder = [o \in Orders |-> {}]
    /\ worker = [w \in Workers |-> Idle]
    /\ crashes = 0
    /\ raced = {}
    /\ overlooked = {}
    /\ overtaken = {}

history == <<crashes, raced, overlooked, overtaken>>

Made(o) == order[o].status # "none"
AttemptsOf(o) == {a \in Attempts : att[a].of = o}
\* The newest attempt of a channel; 0 when there is none.
Latest(o, ch) == Max({0} \cup {a \in AttemptsOf(o) : att[a].channel = ch})

\* Snapshots that count as pending: Stripe may retry a failed intent.
Pending(a) == att[a].snap \in {"pending"} \cup (IF att[a].channel = "stripe" THEN {"failed"} ELSE {})

Put(w, rec) == worker' = [worker EXCEPT ![w] = rec]
GoTo(w, pc) == worker' = [worker EXCEPT ![w].pc = pc]
\* The worker is done; the lifecycle lock is free again.
Done(w) ==
    /\ Put(w, Idle)
    /\ holder' = [holder EXCEPT ![worker[w].of] = {}]
Free(o) == holder[o] = {}
\* A webhook, a sync and a refund give the lifecycle lock up before they
\* commit: the next holder may have read the order, but not locked its row.
CanCommit(o) == \A w \in holder[o] : worker[w].pc = "close"
SetStatus(o, st) == order' = [order EXCEPT ![o].status = st]

------------------------------------------------------------------------------
(* init_buy_record: a plain read, then writes by primary key.              *)

Reusable == {o \in Orders : order[o].status \in {"INIT", "TO_BE_PAID", "REPRICING", "SUCCESS"}}
Newest == Max({0} \cup Reusable)

\* An order in repricing or a successful one is returned as it is.
InitRead(w) ==
    /\ worker[w].pc = "idle"
    /\ \/ /\ Newest = 0
          /\ Put(w, [Idle EXCEPT !.pc = "new"])
       \/ /\ Newest # 0
          /\ order[Newest].status \in {"INIT", "TO_BE_PAID"}
          /\ Put(w, [Idle EXCEPT !.pc = IF Newest \in expired THEN "replace" ELSE "refresh",
                                 !.of = Newest, !.seen = order[Newest].status])
    /\ UNCHANGED <<order, att, expired, holder, history>>

NewOrder(price) ==
    [NoOrder EXCEPT !.status = IF price = 0 THEN "SUCCESS" ELSE "INIT", !.price = price]
FirstFree(o) == ~Made(o) /\ \A p \in Orders : p < o => Made(p)
\* The row the decision was made on has changed since.
Stale(w) == IF order[worker[w].of].status # worker[w].seen THEN {worker[w].of} ELSE {}

InitCreate(w) ==
    /\ worker[w].pc = "new"
    /\ \/ \E o \in Orders, p \in Prices :
           FirstFree(o) /\ order' = [order EXCEPT ![o] = NewOrder(p)]
       \/ (\A o \in Orders : Made(o)) /\ order' = order
    /\ Put(w, Idle)
    /\ UNCHANGED <<att, expired, holder, history>>

\* The timed-out order gives its coupon back, and another takes its place; one
\* past the bound is not followed.
InitReplace(w) ==
    /\ worker[w].pc = "replace"
    /\ LET closed == [order EXCEPT ![worker[w].of].status = "TIMEOUT",
                                   ![worker[w].of].coupon = FALSE] IN
        \/ \E o \in Orders, p \in Prices :
            FirstFree(o) /\ order' = [closed EXCEPT ![o] = NewOrder(p)]
        \/ (\A o \in Orders : Made(o)) /\ order' = closed
    /\ raced' = raced \cup Stale(w)
    /\ Put(w, Idle)
    /\ UNCHANGED <<att, expired, holder, crashes, overlooked, overtaken>>

\* _sync_order_campaign_pricing; an attempt may be open at the old price.
InitRefresh(w) ==
    /\ worker[w].pc = "refresh"
    /\ \E p \in Prices :
        order' = [order EXCEPT ![worker[w].of].price = p,
                               ![worker[w].of].status = IF p = 0 THEN "SUCCESS" ELSE @]
    /\ raced' = raced \cup Stale(w)
    /\ Put(w, Idle)
    /\ UNCHANGED <<att, expired, holder, crashes, overlooked, overtaken>>

------------------------------------------------------------------------------
(* generate_charge and use_coupon_code, under the lifecycle lock.          *)

\* _resume_pending_charge: there is an attempt to go on with.
Resumable(o, ch) ==
    \E a \in AttemptsOf(o) :
        /\ att[a].channel = ch /\ Pending(a) /\ att[a].amount = order[o].price
        /\ \A b \in AttemptsOf(o) :
            att[b].channel = ch /\ Pending(b) /\ att[b].amount = order[o].price => b <= a

\* The attempts a request finds to close.  Its plain read opens a transaction,
\* which has no other snapshots in view until it commits.
ToClose(o) == {a \in AttemptsOf(o) : att[a].channel = order[o].channel /\ Pending(a)}

Lock(w, o, op, ch, pc) ==
    /\ worker[w].pc = "idle" /\ Free(o)
    /\ holder' = [holder EXCEPT ![o] = {w}]
    /\ Put(w, [Idle EXCEPT !.pc = pc, !.op = op, !.of = o, !.channel = ch,
                           !.claimed = IF pc = "close" THEN ToClose(o) ELSE {}])
    /\ UNCHANGED <<order, att, expired, history>>

\* _resume_or_close_pending_charge.
Charge(w, o, ch) ==
    \/ order[o].status = "INIT" /\ Lock(w, o, "charge", ch, "issue")
    \/ order[o].status = "TO_BE_PAID" /\ ~Resumable(o, ch) /\ Lock(w, o, "charge", ch, "close")

\* _validate_coupon_before_closing_payment.
Coupon(w, o) ==
    /\ \/ order[o].status = "INIT"
       \/ order[o].status \in {"TO_BE_PAID", "REPRICING"} /\ ~order[o].coupon
    /\ Lock(w, o, "coupon", "none", "close")

AfterClose(w) == IF worker[w].op = "charge" THEN "issue" ELSE "apply"
\* A coupon keeps the repricing claim, a charge gives it up.
Unclaimed(w) == IF worker[w].op = "charge" THEN "INIT" ELSE "REPRICING"

\* A charge holds the order it read to be paid, and the row it locks does not
\* replace that object in its session; a coupon dropped its own, and reads anew.
StatusRead(w) == IF worker[w].op = "charge" THEN "TO_BE_PAID" ELSE order[worker[w].of].status

\* cancel_pending_payment_for_repricing, first transaction: decided on what was
\* read, written over what is there.
CloseClaim(w) ==
    LET o == worker[w].of
        status == StatusRead(w)
        claimed == worker[w].claimed IN
    /\ worker[w].pc = "close"
    /\ \/ /\ status = "INIT"
          /\ GoTo(w, AfterClose(w)) /\ UNCHANGED <<order, holder>>
       \/ /\ status \in {"TO_BE_PAID", "REPRICING"} /\ claimed = {}
          /\ SetStatus(o, Unclaimed(w))
          /\ GoTo(w, AfterClose(w)) /\ UNCHANGED holder
       \/ /\ status \in {"TO_BE_PAID", "REPRICING"} /\ claimed # {}
          /\ SetStatus(o, "REPRICING")
          /\ Put(w, [worker[w] EXCEPT !.pc = "cancel", !.left = claimed])
          /\ UNCHANGED holder
       \/ /\ status \notin {"INIT", "TO_BE_PAID", "REPRICING"}
          /\ Done(w) /\ UNCHANGED order
    /\ overtaken' = overtaken \cup (IF order[o].status = status THEN {} ELSE {o})
    /\ UNCHANGED <<att, expired, crashes, raced, overlooked>>

CancelAnyway(w) ==
    /\ worker[w].pc = "cancel" /\ worker[w].left # {}
    /\ LET a == Max(worker[w].left) IN
        /\ att' = [att EXCEPT ![a].remote = IF @ = "open" THEN "closed" ELSE @]
        /\ Put(w, [worker[w] EXCEPT !.left = @ \ {a}])
    /\ UNCHANGED <<order, expired, holder, history>>

\* The provider closes an attempt, unless it was paid; its answer may be lost.
Cancel(w) ==
    /\ worker[w].pc = "cancel" /\ worker[w].left # {}
    /\ LET a == Max(worker[w].left) IN
        \/ /\ att[a].remote \in {"open", "closed"}
           /\ att' = [att EXCEPT ![a].remote = "closed"]
           /\ \/ Put(w, [worker[w] EXCEPT !.left = @ \ {a}])
              \/ GoTo(w, "restore")
        \/ GoTo(w, "restore") /\ att' = att
    /\ UNCHANGED <<order, expired, holder, history>>

RestoreUnchecked(w) ==
    /\ worker[w].pc = "restore"
    /\ SetStatus(worker[w].of, "TO_BE_PAID")
    /\ Done(w)
    /\ UNCHANGED <<att, expired, history>>

\* restore_repricing_order after a refused or failed cancellation.
Restore(w) ==
    LET o == worker[w].of IN
    /\ worker[w].pc = "restore"
    /\ SetStatus(o, IF order[o].status = "REPRICING" THEN "TO_BE_PAID" ELSE order[o].status)
    /\ Done(w)
    /\ UNCHANGED <<att, expired, history>>

\* Its last transaction: nothing may have happened to the order or to the
\* snapshots meanwhile.
Settle(w) ==
    LET o == worker[w].of
        quiet == order[o].status = "REPRICING" /\ \A a \in worker[w].claimed : Pending(a) IN
    /\ worker[w].pc = "cancel" /\ worker[w].left = {}
    /\ \/ /\ quiet
          /\ att' = [a \in Attempts |-> IF a \in worker[w].claimed
                                        THEN [att[a] EXCEPT !.snap = "closed"] ELSE att[a]]
          /\ SetStatus(o, Unclaimed(w))
          /\ GoTo(w, AfterClose(w)) /\ UNCHANGED holder
       \/ /\ ~quiet /\ worker[w].op = "charge"
          /\ Done(w) /\ UNCHANGED <<order, att>>
       \/ /\ ~quiet /\ worker[w].op = "coupon"
          /\ GoTo(w, "undo") /\ UNCHANGED <<order, att, holder>>
    /\ UNCHANGED <<expired, history>>

NewAttempt(o, ch) ==
    [of |-> o, channel |-> ch, amount |-> order[o].price, snap |-> "pending", remote |-> "open"]

\* _generate_charge_locked; the provider may fail, and then nothing is stored.
Issue(w) ==
    LET o == worker[w].of
        ch == worker[w].channel
        payable == \/ order[o].status = "INIT"
                   \/ order[o].status = "TO_BE_PAID" /\ ~Resumable(o, ch) IN
    /\ worker[w].pc = "issue"
    /\ \/ /\ payable /\ order[o].price = 0
          /\ SetStatus(o, "SUCCESS") /\ UNCHANGED att
       \/ /\ payable /\ order[o].price > 0
          /\ \E a \in Attempts :
              /\ att[a] = NoAttempt /\ \A b \in Attempts : b < a => att[b] # NoAttempt
              /\ att' = [att EXCEPT ![a] = NewAttempt(o, ch)]
          /\ order' = [order EXCEPT ![o].status = "TO_BE_PAID", ![o].channel = ch]
       \/ UNCHANGED <<order, att>>
    /\ Done(w)
    /\ UNCHANGED <<expired, history>>

\* _use_coupon_code_locked after the attempts are closed: one coupon an order;
\* any other outcome raises.
Apply(w) ==
    LET o == worker[w].of IN
    /\ worker[w].pc = "apply"
    /\ \/ /\ order[o].status \in {"INIT", "REPRICING"} /\ ~order[o].coupon
          /\ \E p \in Prices \cup {0} :
              /\ p < order[o].price \/ p = 0
              /\ order' = [order EXCEPT ![o].price = p, ![o].coupon = TRUE,
                                        ![o].status = IF p = 0 THEN "SUCCESS" ELSE "INIT"]
          /\ Done(w)
       \/ GoTo(w, "undo") /\ UNCHANGED <<order, holder>>
    /\ UNCHANGED <<att, expired, history>>

\* The recovery of use_coupon_code.
Undo(w) ==
    LET o == worker[w].of IN
    /\ worker[w].pc = "undo"
    /\ SetStatus(o, IF order[o].status = "REPRICING" THEN "INIT" ELSE order[o].status)
    /\ Done(w)
    /\ UNCHANGED <<att, expired, history>>

------------------------------------------------------------------------------
(* What is learned of payments.                                            *)

AmountMatches(a) == order[att[a].of].price = 0 \/ att[a].amount = order[att[a].of].price
\* The gate of every callback, of a snapshot seen pending.
CanComplete(a) ==
    /\ a = Latest(att[a].of, att[a].channel)
    /\ AmountMatches(a)
    /\ order[att[a].of].status \in {"TO_BE_PAID", "REPRICING"}
Taken(a) == att[a].remote \in {"paid", "refunded"}
Book(a) == att' = [att EXCEPT ![a].snap = "paid"]

\* handle_stripe_webhook: a success, a failure, a cancellation or a refund,
\* late or repeated.
StripeEvent(a) ==
    LET o == att[a].of
        current == a = Latest(o, "stripe") /\ AmountMatches(a) IN
    /\ att[a].channel = "stripe" /\ CanCommit(o)
    /\ \/ Taken(a) /\ Pending(a) /\ CanComplete(a) /\ Book(a) /\ SetStatus(o, "SUCCESS")
       \/ /\ current /\ att[a].snap # "paid"
          /\ \E snap \in {"failed"} \cup (IF att[a].remote = "closed" THEN {"closed"} ELSE {}) :
              att' = [att EXCEPT ![a].snap = snap]
          /\ UNCHANGED order
       \/ /\ current /\ att[a].remote = "refunded"
          /\ att' = [att EXCEPT ![a].snap = "refunded"] /\ UNCHANGED order
    /\ UNCHANGED <<expired, holder, worker, history>>

\* A webhook bound to a payment integration reads the order first, and like a
\* charge keeps what it read; the snapshot it reads under the lock.
WebhookRead(w, a) ==
    /\ worker[w].pc = "idle"
    /\ att[a].channel = "stripe" /\ Taken(a) /\ CanComplete(a)
    /\ Put(w, [Idle EXCEPT !.pc = "webhook", !.of = att[a].of, !.left = {a}])
    /\ UNCHANGED <<order, att, expired, holder, history>>

WebhookWrite(w) ==
    LET o == worker[w].of
        a == Max(worker[w].left) IN
    /\ worker[w].pc = "webhook" /\ CanCommit(o)
    /\ \/ /\ Pending(a)
          /\ Book(a)
          /\ SetStatus(o, "SUCCESS")
          /\ overtaken' = overtaken \cup
                (IF order[o].status \in {"TO_BE_PAID", "REPRICING"} THEN {} ELSE {o})
       \/ ~Pending(a) /\ UNCHANGED <<order, att, overtaken>>
    /\ Put(w, Idle)
    /\ UNCHANGED <<expired, holder, crashes, raced, overlooked>>

\* sync_stripe_checkout_session.
StripeSync(o) ==
    LET a == Latest(o, "stripe") IN
    /\ Made(o) /\ order[o].channel = "stripe" /\ a # 0 /\ CanCommit(o)
    /\ \/ /\ Taken(a) /\ Pending(a) /\ CanComplete(a)
          /\ Book(a) /\ SetStatus(o, "SUCCESS")
       \/ /\ Taken(a) /\ order[o].status = "SUCCESS" /\ AmountMatches(a)
          /\ att[a].snap \in {"pending", "paid", "closed"}
          /\ Book(a) /\ UNCHANGED order
       \/ /\ ~Taken(a)
          /\ att' = [att EXCEPT ![a].snap = IF att[a].remote = "closed" THEN "closed" ELSE "pending"]
          /\ UNCHANGED order
    /\ UNCHANGED <<expired, holder, worker, history>>

\* success_buy_record_from_native: the snapshot is paid, whatever the order is.
NativeEvent(a) ==
    LET o == att[a].of IN
    /\ att[a].channel = "native" /\ CanCommit(o) /\ att[a].remote = "paid"
    /\ Book(a)
    /\ IF att[a].snap = "pending" /\ CanComplete(a)
       THEN SetStatus(o, "SUCCESS") /\ UNCHANGED overlooked
       ELSE /\ overlooked' = IF order[o].status = "SUCCESS" THEN overlooked
                             ELSE overlooked \cup {o}
            /\ UNCHANGED order
    /\ UNCHANGED <<expired, holder, worker, crashes, raced, overtaken>>

\* sync_native_payment_order: the provider is asked before the lock is taken.
SyncRead(w, o) ==
    LET a == Latest(o, "native") IN
    /\ worker[w].pc = "idle"
    /\ Made(o) /\ order[o].channel = "native" /\ a # 0
    /\ Put(w, [Idle EXCEPT !.pc = "sync", !.of = o, !.left = {a}, !.seen = att[a].remote])
    /\ UNCHANGED <<order, att, expired, holder, history>>

SyncApplyUnpaid(w) ==
    LET o == worker[w].of
        a == Max(worker[w].left) IN
    /\ worker[w].pc = "sync" /\ CanCommit(o)
    /\ Book(a)
    /\ SetStatus(o, "SUCCESS")
    /\ Put(w, Idle)
    /\ UNCHANGED <<expired, holder, history>>

SyncApply(w) ==
    LET o == worker[w].of
        a == Max(worker[w].left)
        same == order[o].channel = "native" /\ a = Latest(o, "native") IN
    /\ worker[w].pc = "sync" /\ CanCommit(o)
    /\ \/ /\ same /\ worker[w].seen = "paid"
          /\ Book(a)
          /\ SetStatus(o, "SUCCESS")
       \/ /\ same /\ worker[w].seen = "closed"
          /\ att' = [att EXCEPT ![a].snap = IF @ = "paid" THEN @ ELSE "closed"]
          /\ UNCHANGED order
       \/ (~same \/ worker[w].seen = "open") /\ UNCHANGED <<order, att>>
    /\ Put(w, Idle)
    /\ UNCHANGED <<expired, holder, history>>

\* success_buy_record_from_pingxx: no lifecycle lock, and a plain read.
PingxxRead(w, a) ==
    /\ worker[w].pc = "idle"
    /\ att[a].channel = "pingxx" /\ att[a].remote = "paid"
    /\ att[a].snap = "pending" /\ CanComplete(a)
    /\ Put(w, [Idle EXCEPT !.pc = "callback", !.of = att[a].of, !.left = {a}])
    /\ UNCHANGED <<order, att, expired, holder, history>>

PingxxWrite(w) ==
    /\ worker[w].pc = "callback"
    /\ Book(Max(worker[w].left))
    /\ SetStatus(worker[w].of, "SUCCESS")
    /\ Put(w, Idle)
    /\ UNCHANGED <<expired, holder, history>>

\* refund_order_payment: the provider refunds, then it is written down.
RefundAsk(w, o) ==
    LET a == Latest(o, "stripe") IN
    /\ worker[w].pc = "idle" /\ CanCommit(o)
    /\ Made(o) /\ order[o].channel = "stripe" /\ a # 0 /\ Taken(a)
    /\ att' = [att EXCEPT ![a].remote = "refunded"]
    /\ Put(w, [Idle EXCEPT !.pc = "refund", !.of = o, !.left = {a}])
    /\ UNCHANGED <<order, expired, holder, history>>

RefundWrite(w) ==
    /\ worker[w].pc = "refund" /\ CanCommit(worker[w].of)
    /\ att' = [att EXCEPT ![Max(worker[w].left)].snap = "refunded"]
    /\ SetStatus(worker[w].of, "REFUND")
    /\ Put(w, Idle)
    /\ UNCHANGED <<expired, holder, history>>

\* open_api_revoke_order.
Revoke(o) ==
    /\ order[o].status = "SUCCESS"
    /\ SetStatus(o, "REFUND")
    /\ UNCHANGED <<att, expired, holder, worker, history>>

\* The last step of import_activation_order, on the order init_buy_record
\* returned it: an operator gives the course away.
Import(o) ==
    /\ order[o].status \in {"INIT", "TO_BE_PAID", "REPRICING", "SUCCESS"}
    /\ order' = [order EXCEPT ![o].price = 0, ![o].status = "SUCCESS"]
    /\ UNCHANGED <<att, expired, holder, worker, history>>

------------------------------------------------------------------------------
(* The learner, the providers, time and crashes.                           *)

Pay(a) ==
    /\ att[a].remote = "open"
    /\ att' = [att EXCEPT ![a].remote = "paid"]
    /\ UNCHANGED <<order, expired, holder, worker, history>>
Lapse(a) ==
    /\ att[a].remote = "open"
    /\ att' = [att EXCEPT ![a].remote = "closed"]
    /\ UNCHANGED <<order, expired, holder, worker, history>>
Expire(o) ==
    /\ Made(o) /\ o \notin expired
    /\ expired' = expired \cup {o}
    /\ UNCHANGED <<order, att, holder, worker, history>>

Crash(w) ==
    /\ worker[w].pc # "idle" /\ crashes < MaxCrashes
    /\ crashes' = crashes + 1
    /\ Put(w, Idle)
    /\ holder' = [o \in Orders |-> holder[o] \ {w}]
    /\ UNCHANGED <<order, att, expired, raced, overlooked, overtaken>>

InitBuyRecord(w) == InitRead(w) \/ InitCreate(w) \/ InitReplace(w) \/ InitRefresh(w)
Reprice(w) ==
    \/ CloseClaim(w) \/ Cancel(w) \/ Restore(w) \/ Settle(w)
    \/ Issue(w) \/ Apply(w) \/ Undo(w)
Learn(w) ==
    \/ SyncApply(w) \/ PingxxWrite(w) \/ RefundWrite(w) \/ WebhookWrite(w)
    \/ \E o \in Orders : SyncRead(w, o) \/ RefundAsk(w, o)
    \/ \E a \in Attempts : PingxxRead(w, a) \/ WebhookRead(w, a)

Next ==
    \/ \E w \in Workers : InitBuyRecord(w) \/ Reprice(w) \/ Learn(w) \/ Crash(w)
    \/ \E w \in Workers, o \in Orders : Coupon(w, o) \/ \E ch \in Channels : Charge(w, o, ch)
    \/ \E o \in Orders : StripeSync(o) \/ Revoke(o) \/ Import(o) \/ Expire(o)
    \/ \E a \in Attempts : StripeEvent(a) \/ NativeEvent(a) \/ Pay(a) \/ Lapse(a)

Spec == Init /\ [][Next]_vars

------------------------------------------------------------------------------
(* Properties.                                                             *)

\* An order is charged once: a second attempt is never paid, whatever was
\* repriced, cancelled, retried or interrupted; but for a payment that was
\* booked on its snapshot and not on the order (see PaidNeverReopened), and an
\* order claimed on a status it no longer had (see PaymentWins).  So an order
\* open for a new attempt has none that could still be paid, or that was.
ChargedOnce ==
    \A o \in Orders \ (overlooked \cup overtaken) :
        /\ Cardinality({a \in AttemptsOf(o) : att[a].remote = "paid"}) <= 1
        /\ order[o].status = "INIT" =>
                \A a \in AttemptsOf(o) : att[a].remote \in {"closed", "refunded"}

\* A course that costs something is entered by a payment the provider took.
NothingForFree ==
    \A o \in Orders \ raced : order[o].status = "SUCCESS" /\ order[o].price > 0 =>
        \E a \in AttemptsOf(o) : Taken(a)

\* A completed order stays completed or is refunded, and a refund is the end:
\* no late callback, cancellation or recovery undoes it.  What read the order
\* before can: init_buy_record, the claim of a charge and a bound webhook; and a
\* sync that finds a native attempt paid completes a refunded order, too.
EndsKept ==
    \A o \in Orders \ (raced' \cup overtaken') :
        /\ order[o].status = "SUCCESS" => order'[o].status \in {"SUCCESS", "REFUND"}
        /\ /\ order[o].status = "REFUND"
           /\ \A a \in AttemptsOf(o) : att[a].channel = "stripe"
           => order'[o].status = "REFUND"
CompletedStays == [][EndsKept]_vars

\* "accept valid callbacks only for the current amount without leaving a paid
\* learner stuck in an unpaid state" (docs): an order does not open again
\* with its payment taken.
PaidNeverReopened ==
    \A o \in Orders : order[o].status = "INIT" => \A a \in AttemptsOf(o) : att[a].remote # "paid"

\* "The callback must fulfill that valid payment; the repricing path then
\* observes the terminal order and aborts its price change" (docs): an order
\* whose payment is booked, on it too, stays completed.
PaymentWins ==
    \A o \in Orders \ (raced \cup overlooked) :
        (\E a \in AttemptsOf(o) : att[a].snap = "paid") => order[o].status \in {"SUCCESS", "REFUND"}
==============================================================================
