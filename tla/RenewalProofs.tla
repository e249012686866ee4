--------------------------- MODULE RenewalProofs ---------------------------
(***************************************************************************)
(* What SubscriptionRenewal promises, for any threads, orders, lengths and *)
(* any number of decisions and recovered claims.  A cycle has one order    *)
(* because it is made by the event before it, which a worker ends in the   *)
(* same commit and which nobody revives; so an event that is not over is   *)
(* of the next cycle, whatever its worker last read.                       *)
(***************************************************************************)
EXTENDS SubscriptionRenewal, WellFoundedInduction, TLAPS

Places == {"idle", "claimed", "settle", "stop", "resume"} \cup Types
SubType == [status : {"active", "cancel_scheduled", "canceled", "expired"},
            start : Nat, end : Nat, cancel : BOOLEAN, bill : Bills \cup {0}]
BillType == [st : {"pending", "paid"}, start : Nat, at : Nat, trade : {"none", "open", "paid"},
             grant : {"none", "reserved", "available"}] \cup {NoBill}
EventType == [st : {"pending", "failed", "processing", "succeeded", "canceled"},
              by : Threads \cup {Nobody}]
ThreadType == [pc : Places, ev : Types \X Nat, of : Bills \cup {0},
               sub : SubType \cup {<<>>}, bills : [Bills -> BillType] \cup {<<>>},
               fresh : BOOLEAN]

RenewalTypeOK ==
    /\ now \in Nat /\ choices \in Nat /\ faults \in Nat /\ outdated \in BOOLEAN
    /\ sub \in SubType
    /\ bill \in [Bills -> BillType]
    /\ DOMAIN event \subseteq Types \X Nat /\ event \in [DOMAIN event -> EventType]
    /\ thread \in [Threads -> ThreadType]

\* A thread in a transaction, and what it read in it.
Reading(w) == thread[w].pc \notin {"idle", "claimed"}
ReadsBills(w) == thread[w].pc \in Types \cup {"settle"}

\* The cycle of s; an order that was made for the cycle from t on.
Whole(s) == s.end = s.start + Length
SameCycle(s, t) == s.start = t.start /\ s.end = t.end /\ s.bill = t.bill
Exists(o) == bill[o].st # "none"
Billed(t) == \E o \in Bills : Exists(o) /\ bill[o].start = t

\* Orders follow each other: one is for the next cycle, one started the cycle
\* that is on, the others started earlier ones.
Follows(o) ==
    Exists(o) => \/ bill[o].start = sub.end
                 \/ bill[o].st = "paid" /\ o = sub.bill
                 \/ bill[o].st = "paid" /\ From(bill[o]) < sub.start
Starts(o) ==
    o = sub.bill => bill[o].st = "paid" /\ From(bill[o]) = sub.start

\* The order of a cycle is made by the event before it, which is over then;
\* and a renewal that is not over is one of the next cycle.
MadeOnce(o) ==
    Exists(o) => \E t \in Nat : /\ t + Lead = bill[o].start
                                /\ Has(event, <<"renewal", t>>, {"succeeded"})
Timely(t) ==
    <<"renewal", t>> \in DOMAIN event => t + Lead = sub.end \/ Billed(t + Lead)

\* What a thread works on.
Working(w) ==
    /\ thread[w].pc \in Types \cup {"claimed"} => thread[w].ev \in DOMAIN event
    /\ thread[w].pc \in Types => thread[w].ev[1] = thread[w].pc /\ thread[w].ev[2] <= now
    /\ Reading(w) => thread[w].sub \in SubType
    /\ ReadsBills(w) => thread[w].bills \in [Bills -> BillType]
    /\ thread[w].pc = "settle" =>
          thread[w].of \in Bills /\ thread[w].bills[thread[w].of].st # "none"

\* What it read was so: of a cycle that had its successor, unless it is the
\* one that is on; and this one, if the wallet was not moved on.
SubRead(w) ==
    Reading(w) => /\ Whole(thread[w].sub)
                  /\ thread[w].sub.end = sub.end \/ Billed(thread[w].sub.end)
                  /\ thread[w].fresh => SameCycle(thread[w].sub, sub)
BillRead(r, b) ==
    /\ r.st # "none" => b.st # "none" /\ b.start = r.start
    /\ r.st = "paid" => b.st = "paid" /\ b.at = r.at
    /\ r.st # "paid" /\ b.st = "paid" => b.at = now
BillsRead(w) == ReadsBills(w) => \A o \in Bills : BillRead(thread[w].bills[o], bill[o])

\* An event that ends a cycle is over only when its time has come.
InTime(type, t) == Has(event, <<type, t>>, {"succeeded"}) => t <= now
Consistent == ~outdated /\ sub.status = "active" => ~sub.cancel

Chain ==
    /\ Whole(sub)
    /\ \A o \in Bills : Follows(o) /\ Starts(o) /\ MadeOnce(o)
    /\ CycleBilledOnce
    /\ \A t \in Nat : Timely(t)
Reads(w) == Working(w) /\ SubRead(w) /\ BillsRead(w)
Ends ==
    /\ \A t \in Nat : InTime("expire", t) /\ InTime("cancel", t)
    /\ Consistent
    /\ EndIsScheduled

RenewalInv == RenewalTypeOK /\ Chain /\ (\A w \in Threads : Reads(w)) /\ Ends

------------------------------------------------------------------------------
(* The lifecycle events.                                                   *)

\* Events are rows of a type and a time.
Rows(ev) == DOMAIN ev \subseteq Types \X Nat /\ ev \in [DOMAIN ev -> EventType]

\* No row is lost, and what is over stays over; nothing new is over.
Kept(ev, next) ==
    /\ DOMAIN ev \subseteq DOMAIN next
    /\ \A e \in DOMAIN ev : ev[e].st = "succeeded" <=> next[e].st = "succeeded"
    /\ \A e \in DOMAIN next : next[e].st = "succeeded" => e \in DOMAIN ev

Waits(ev, type, t) == Has(ev, <<type, t>>, Live \cup {"processing"})

LEMMA RenewalConstants ==
    ASSUME RenewalAssumption
    PROVE  /\ Nobody \notin Threads /\ Length \in Nat /\ Lead \in Nat /\ Ahead \in Nat
           /\ MaxTime \in Nat /\ MaxBills \in Nat /\ MaxChoices \in Nat /\ MaxFaults \in Nat
           /\ 0 < Lead /\ Lead < Length
           /\ Bills \subseteq Nat /\ 0 \notin Bills
BY SMT DEF RenewalAssumption, Bills

LEMMA CanceledKeeps ==
    ASSUME NEW ev, Rows(ev), NEW types
    PROVE  /\ Rows(Canceled(ev, types)) /\ Kept(ev, Canceled(ev, types))
           /\ DOMAIN Canceled(ev, types) = DOMAIN ev
           /\ \A e \in DOMAIN ev : e[1] \notin types => Canceled(ev, types)[e] = ev[e]
<1> DEFINE next == Canceled(ev, types)
<1>1. DOMAIN next = DOMAIN ev
  BY DEF Canceled
<1>2. ASSUME NEW e \in DOMAIN ev
      PROVE  /\ next[e] \in EventType /\ (e[1] \notin types => next[e] = ev[e])
             /\ ev[e].st = "succeeded" <=> next[e].st = "succeeded"
  <2>1. ev[e] \in EventType
    BY DEF Rows
  <2>2. CASE e[1] \in types /\ ev[e].st \in Live
    <3>1. next[e] = [ev[e] EXCEPT !.st = "canceled"]
      BY <2>2 DEF Canceled
    <3> HIDE DEF next
    <3> QED BY <2>1, <2>2, <3>1 DEF EventType, Live
  <2>3. CASE ~(e[1] \in types /\ ev[e].st \in Live)
    <3>1. next[e] = ev[e]
      BY <2>3 DEF Canceled
    <3> QED BY <2>1, <2>2, <3>1
  <2> QED BY <2>2, <2>3
<1>3. next = [e \in DOMAIN next |-> next[e]]
  BY DEF Canceled
<1> HIDE DEF next
<1>4. Rows(next)
  BY <1>1, <1>2, <1>3 DEF Rows
<1>5. Kept(ev, next)
  BY <1>1, <1>2 DEF Kept
<1> QED BY <1>1, <1>2, <1>4, <1>5 DEF next

LEMMA UpsertedKeeps ==
    ASSUME NEW ev, Rows(ev), NEW type \in Types, NEW t \in Nat
    PROVE  /\ Rows(Upserted(ev, type, t)) /\ Kept(ev, Upserted(ev, type, t))
           /\ DOMAIN Upserted(ev, type, t) = DOMAIN ev \cup {<<type, t>>}
           /\ \A d \in DOMAIN ev : d[1] # type => Upserted(ev, type, t)[d] = ev[d]
           /\ \/ Waits(Upserted(ev, type, t), type, t)
              \/ Has(ev, <<type, t>>, {"succeeded"})
<1> DEFINE e == <<type, t>>
           others == Canceled(ev, {type})
           next == Upserted(ev, type, t)
           over == Has(ev, e, {"processing", "succeeded"})
<1>1. /\ Rows(others) /\ Kept(ev, others) /\ DOMAIN others = DOMAIN ev
      /\ \A d \in DOMAIN ev : d[1] \notin {type} => others[d] = ev[d]
  BY CanceledKeeps
<1>2. /\ DOMAIN next = DOMAIN ev \cup {e}
      /\ next = [d \in DOMAIN next |-> next[d]]
      /\ next[e] = IF over THEN ev[e] ELSE NewEvent
      /\ \A d \in DOMAIN ev : d # e => next[d] = others[d]
  BY DEF Upserted
<1>3. e \in Types \X Nat /\ e[1] = type
  OBVIOUS
<1>4. NewEvent \in EventType /\ NewEvent.st = "pending"
  BY DEF NewEvent, EventType
<1> HIDE DEF next, others, e
<1>5. ASSUME NEW d \in DOMAIN next PROVE next[d] \in EventType
  <2>1. CASE d = e /\ over
    BY <1>2, <2>1 DEF Rows, Has
  <2>2. CASE d = e /\ ~over
    BY <1>2, <1>4, <2>2
  <2>3. CASE d # e
    BY <1>1, <1>2, <2>3 DEF Rows
  <2> QED BY <2>1, <2>2, <2>3
<1>6. Rows(next)
  BY <1>2, <1>3, <1>5 DEF Rows
<1>7. ASSUME NEW d \in DOMAIN ev
      PROVE  ev[d].st = "succeeded" <=> next[d].st = "succeeded"
  <2>1. CASE d # e
    BY <1>1, <1>2, <2>1 DEF Kept
  <2>2. CASE d = e /\ over
    BY <1>2, <2>2
  <2>3. CASE d = e /\ ~over
    <3>1. ev[d].st # "succeeded"
      BY <2>3 DEF Has
    <3>2. next[d] = NewEvent
      BY <1>2, <2>3
    <3> QED BY <1>4, <3>1, <3>2
  <2> QED BY <2>1, <2>2, <2>3
<1>8. ASSUME NEW d \in DOMAIN next, next[d].st = "succeeded" PROVE d \in DOMAIN ev
  <2>1. CASE d = e /\ ~over
    <3>1. next[d] = NewEvent
      BY <1>2, <2>1
    <3> QED BY <1>4, <1>8, <3>1
  <2>2. CASE d = e /\ over
    BY <2>2 DEF Has
  <2> QED BY <1>2, <2>1, <2>2
<1>9. Kept(ev, next)
  BY <1>2, <1>7, <1>8 DEF Kept
<1>10. \A d \in DOMAIN ev : d[1] # type => next[d] = ev[d]
  <2> TAKE d \in DOMAIN ev
  <2> HAVE d[1] # type
  <2>1. d # e /\ d[1] \notin {type}
    BY <1>3
  <2> QED BY <1>1, <1>2, <2>1
<1>11. Waits(next, type, t) \/ Has(ev, e, {"succeeded"})
  <2>1. CASE ~over
    <3>1. next[e] = NewEvent /\ e \in DOMAIN next
      BY <1>2, <2>1
    <3> QED BY <1>4, <3>1 DEF Waits, Has, Live, e
  <2>2. CASE over
    <3>1. next[e] = ev[e] /\ e \in DOMAIN next
      BY <1>2, <2>2
    <3> QED BY <2>2, <3>1 DEF Waits, Has, e
  <2> QED BY <2>1, <2>2
<1> QED BY <1>2, <1>6, <1>9, <1>10, <1>11 DEF next, e

\* What _sync_subscription_lifecycle_events makes of them.
LEMMA SyncedKeeps ==
    ASSUME RenewalAssumption, NEW ev, Rows(ev), NEW s \in SubType, Whole(s)
    PROVE  /\ Rows(Synced(ev, s)) /\ Kept(ev, Synced(ev, s))
           /\ \A t \in Nat : <<"renewal", t>> \in DOMAIN Synced(ev, s)
                               => <<"renewal", t>> \in DOMAIN ev \/ t + Lead = s.end
           /\ s.status = "active" /\ ~s.cancel
                 => \/ Waits(Synced(ev, s), "expire", s.end)
                    \/ Has(ev, <<"expire", s.end>>, {"succeeded"})
           /\ s.status = "cancel_scheduled"
                 => \/ Waits(Synced(ev, s), "cancel", s.end)
                    \/ Has(ev, <<"cancel", s.end>>, {"succeeded"})
<1>1. /\ s.start \in Nat /\ s.end \in Nat /\ s.cancel \in BOOLEAN
      /\ s.status \in {"active", "cancel_scheduled", "canceled", "expired"}
  BY DEF SubType
<1>2. \A a, b, c : Kept(a, b) /\ Kept(b, c) => Kept(a, c)
  BY DEF Kept
<1>3. CASE s.status \in Obsolete
  <2>1. Synced(ev, s) = Canceled(ev, Types)
    BY <1>3 DEF Synced
  <2>2. /\ Rows(Canceled(ev, Types)) /\ Kept(ev, Canceled(ev, Types))
        /\ DOMAIN Canceled(ev, Types) = DOMAIN ev
    BY CanceledKeeps
  <2> QED BY <1>3, <2>1, <2>2 DEF Obsolete
<1>4. CASE s.status \notin Obsolete /\ (s.cancel \/ s.status = "cancel_scheduled")
  <2> DEFINE u == Upserted(ev, "cancel", s.end)
             c == Canceled(u, {"renewal", "expire"})
  <2>1. Synced(ev, s) = c
    BY <1>4 DEF Synced
  <2>2. /\ Rows(u) /\ Kept(ev, u) /\ DOMAIN u = DOMAIN ev \cup {<<"cancel", s.end>>}
        /\ Waits(u, "cancel", s.end) \/ Has(ev, <<"cancel", s.end>>, {"succeeded"})
    BY <1>1, UpsertedKeeps DEF Types
  <2> HIDE DEF u
  <2>3. /\ Rows(c) /\ Kept(u, c) /\ DOMAIN c = DOMAIN u
        /\ \A e \in DOMAIN u : e[1] \notin {"renewal", "expire"} => c[e] = u[e]
    BY <2>2, CanceledKeeps
  <2> HIDE DEF c
  <2>4. Waits(u, "cancel", s.end) => Waits(c, "cancel", s.end)
    BY <2>2, <2>3 DEF Waits, Has
  <2>5. \A t \in Nat : <<"renewal", t>> \in DOMAIN c => <<"renewal", t>> \in DOMAIN ev
    BY <2>2, <2>3
  <2>6. ~(s.status = "active" /\ ~s.cancel)
    BY <1>4
  <2> QED BY <1>2, <2>1, <2>2, <2>3, <2>4, <2>5, <2>6
<1>5. CASE s.status \notin Obsolete /\ ~(s.cancel \/ s.status = "cancel_scheduled")
  <2> DEFINE at == RenewalAt(s)
             c == Canceled(ev, {"cancel"})
             r == Upserted(c, "renewal", at)
             x == Upserted(r, "expire", s.end)
  <2>1. Synced(ev, s) = x
    BY <1>5 DEF Synced
  <2>2. at \in Nat /\ at + Lead = s.end
    <3>1. s.end - Lead \in Nat /\ s.end - Lead >= s.start /\ (s.end - Lead) + Lead = s.end
      BY <1>1, RenewalConstants DEF Whole
    <3> DEFINE d == s.end - Lead
    <3> HIDE DEF d
    <3>2. d \in Nat /\ d >= s.start
      BY <3>1 DEF d
    <3>3. Max({s.start, d}) = d
      <4>1. d \in {s.start, d} /\ \A y \in {s.start, d} : d >= y
        BY <1>1, <3>2
      <4>2. \A x1 \in {s.start, d} : (\A y \in {s.start, d} : x1 >= y) => x1 = d
        BY <1>1, <3>2
      <4> QED BY <4>1, <4>2 DEF Max
    <3> QED BY <3>1, <3>3 DEF RenewalAt, d
  <2>3. Rows(c) /\ Kept(ev, c) /\ DOMAIN c = DOMAIN ev
    BY CanceledKeeps
  <2> HIDE DEF c, at
  <2>4. /\ Rows(r) /\ Kept(c, r) /\ DOMAIN r = DOMAIN c \cup {<<"renewal", at>>}
    BY <2>2, <2>3, UpsertedKeeps DEF Types
  <2> HIDE DEF r
  <2>5. /\ Rows(x) /\ Kept(r, x) /\ DOMAIN x = DOMAIN r \cup {<<"expire", s.end>>}
        /\ Waits(x, "expire", s.end) \/ Has(r, <<"expire", s.end>>, {"succeeded"})
    <3>1. "expire" \in Types
      BY DEF Types
    <3> QED BY <1>1, <2>4, <3>1, UpsertedKeeps
  <2> HIDE DEF x
  <2>6. \A t \in Nat : <<"renewal", t>> \in DOMAIN x
                         => <<"renewal", t>> \in DOMAIN ev \/ t + Lead = s.end
    <3> TAKE t \in Nat
    <3> HAVE <<"renewal", t>> \in DOMAIN x
    <3>1. <<"renewal", t>> # <<"expire", s.end>>
      OBVIOUS
    <3>2. <<"renewal", t>> \in DOMAIN ev \/ <<"renewal", t>> = <<"renewal", at>>
      BY <2>3, <2>4, <2>5, <3>1
    <3> QED BY <2>2, <3>2
  <2>7. Has(r, <<"expire", s.end>>, {"succeeded"}) => Has(ev, <<"expire", s.end>>, {"succeeded"})
    <3>1. Kept(ev, r)
      BY <1>2, <2>3, <2>4
    <3> QED BY <3>1 DEF Kept, Has
  <2>8. Kept(ev, x)
    BY <1>2, <2>3, <2>4, <2>5
  <2> QED BY <1>5, <2>1, <2>5, <2>6, <2>7, <2>8
<1> QED BY <1>3, <1>4, <1>5

LEMMA EndedChanges ==
    ASSUME NEW ev, Rows(ev), NEW w \in Threads, thread[w].ev \in DOMAIN ev,
           NEW st \in {"pending", "succeeded"}
    PROVE  /\ Rows(Ended(ev, w, st)) /\ DOMAIN Ended(ev, w, st) = DOMAIN ev
           /\ Ended(ev, w, st)[thread[w].ev].st = st
           /\ \A d \in DOMAIN ev : d # thread[w].ev => Ended(ev, w, st)[d] = ev[d]
<1> DEFINE e == thread[w].ev
           next == Ended(ev, w, st)
<1>1. /\ next = [ev EXCEPT ![e] = [[ev[e] EXCEPT !.st = st] EXCEPT !.by = Nobody]]
  BY Zenon DEF Ended
<1> DEFINE row == [[ev[e] EXCEPT !.st = st] EXCEPT !.by = Nobody]
<1>2. ev[e] \in EventType
  BY DEF Rows
<1>3. row \in EventType /\ row.st = st
  BY <1>2 DEF EventType
<1> HIDE DEF row, next
<1>4. /\ DOMAIN next = DOMAIN ev /\ next[e] = row
      /\ next = [d \in DOMAIN next |-> next[d]]
      /\ \A d \in DOMAIN ev : d # e => next[d] = ev[d]
  BY <1>1 DEF row, Rows
<1>5. \A d \in DOMAIN next : next[d] \in EventType
  BY <1>3, <1>4 DEF Rows
<1>6. Rows(next)
  BY <1>4, <1>5 DEF Rows
<1> QED BY <1>3, <1>4, <1>6 DEF next

\* The columns that a plain read is written back in.
LEMMA WrittenColumns ==
    ASSUME sub \in SubType, NEW w \in Threads, thread[w].sub \in SubType, NEW t \in SubType
    PROVE  /\ Written(w, t) \in SubType
           /\ Written(w, t).status = IF t.status = thread[w].sub.status THEN sub.status ELSE t.status
           /\ Written(w, t).cancel = IF t.cancel = thread[w].sub.cancel THEN sub.cancel ELSE t.cancel
           /\ Written(w, t).start = IF t.start = thread[w].sub.start THEN sub.start ELSE t.start
           /\ Written(w, t).end = IF t.end = thread[w].sub.end THEN sub.end ELSE t.end
           /\ Written(w, t).bill = IF t.bill = thread[w].sub.bill THEN sub.bill ELSE t.bill
           /\ sub = thread[w].sub => Written(w, t) = t
<1> DEFINE r == Written(w, t)
           q == [status |-> r.status, start |-> r.start, end |-> r.end,
                 cancel |-> r.cancel, bill |-> r.bill]
<1>1. DOMAIN sub = {"status", "start", "end", "cancel", "bill"}
  BY DEF SubType
<1>2. /\ r.status = IF t.status = thread[w].sub.status THEN sub.status ELSE t.status
      /\ r.cancel = IF t.cancel = thread[w].sub.cancel THEN sub.cancel ELSE t.cancel
      /\ r.start = IF t.start = thread[w].sub.start THEN sub.start ELSE t.start
      /\ r.end = IF t.end = thread[w].sub.end THEN sub.end ELSE t.end
      /\ r.bill = IF t.bill = thread[w].sub.bill THEN sub.bill ELSE t.bill
  BY <1>1 DEF Written
<1>3. r = q
  BY <1>1 DEF Written
<1> HIDE DEF r
<1>4. /\ r.status \in {"active", "cancel_scheduled", "canceled", "expired"}
      /\ r.start \in Nat /\ r.end \in Nat /\ r.cancel \in BOOLEAN /\ r.bill \in Bills \cup {0}
  BY <1>2 DEF SubType
<1>5. q \in SubType
  BY <1>4 DEF SubType
<1>6. r \in SubType
  BY <1>3, <1>5
<1>7. sub = thread[w].sub => r = t
  <2> HAVE sub = thread[w].sub
  <2>1. /\ r.status = t.status /\ r.start = t.start /\ r.end = t.end
        /\ r.cancel = t.cancel /\ r.bill = t.bill
    BY <1>2
  <2>2. t = [status |-> t.status, start |-> t.start, end |-> t.end,
             cancel |-> t.cancel, bill |-> t.bill]
    BY DEF SubType
  <2> QED BY <1>3, <2>1, <2>2
<1> QED BY <1>2, <1>6, <1>7 DEF r

LEMMA SmallestOf ==
    ASSUME NEW S, S \subseteq Nat, S # {}
    PROVE  Min(S) \in S
<1>1. \E x \in S : \A y \in S : x =< y
  <2> DEFINE Less == OpToRel(<, Nat)
  <2>1. PICK x \in S : \A y \in S : <<y, x>> \notin Less
    BY NatLessThanWellFounded, WFMin, Zenon
  <2>2. \A y \in S : ~(y < x)
    BY <2>1 DEF OpToRel
  <2> QED BY <2>2
<1> QED BY <1>1 DEF Min

------------------------------------------------------------------------------
(* What a step does to the chain of orders.                                *)

\* Orders stay, of their cycle; one that is paid was paid now or before.
BillsGo ==
    /\ bill' \in [Bills -> BillType]
    /\ \A o \in Bills :
          /\ Exists(o) => bill'[o].st # "none" /\ bill'[o].start = bill[o].start
          /\ bill[o].st = "paid" => bill'[o].st = "paid" /\ bill'[o].at = bill[o].at
          /\ bill[o].st # "paid" /\ bill'[o].st = "paid" => bill'[o].at = now
NoneMade == \A o \in Bills : bill'[o].st # "none" => Exists(o)

\* Rows stay, and those that are over; a new renewal is timely.
EventsGo ==
    /\ Rows(event') /\ DOMAIN event \subseteq DOMAIN event'
    /\ \A e \in DOMAIN event : event[e].st = "succeeded" => event'[e].st = "succeeded"
    /\ \A t \in Nat : <<"renewal", t>> \in DOMAIN event'
          => <<"renewal", t>> \in DOMAIN event \/ t + Lead = sub'.end \/ Billed(t + Lead)

LEMMA FromIsLater ==
    ASSUME RenewalAssumption, NEW r \in BillType
    PROVE  From(r) \in Nat /\ From(r) >= r.start
<1>1. r.at \in Nat /\ r.start \in Nat
  BY DEF BillType, NoBill
<1>2. r.at >= r.start + Length => r.at >= r.start
  BY <1>1, RenewalConstants
<1> QED BY <1>1, <1>2 DEF From

LEMMA BilledStays ==
    ASSUME BillsGo, NEW t, Billed(t)
    PROVE  \E o \in Bills : bill'[o].st # "none" /\ bill'[o].start = t
BY DEF BillsGo, Billed, Exists

LEMMA MadeStays ==
    ASSUME RenewalInv, EventsGo, BillsGo, NEW o \in Bills, Exists(o)
    PROVE  MadeOnce(o)'
<1>1. PICK t \in Nat : /\ t + Lead = bill[o].start
                       /\ Has(event, <<"renewal", t>>, {"succeeded"})
  BY DEF RenewalInv, Chain, MadeOnce
<1>2. Has(event', <<"renewal", t>>, {"succeeded"})
  BY <1>1 DEF Has, EventsGo
<1>3. bill'[o].start = bill[o].start
  BY DEF BillsGo
<1> QED BY <1>1, <1>2, <1>3 DEF MadeOnce

\* Steps that make no order and leave the cycle alone.
LEMMA ChainKept ==
    ASSUME RenewalAssumption, RenewalInv, BillsGo, NoneMade, EventsGo, SameCycle(sub', sub)
    PROVE  Chain'
<1> USE DEF SameCycle
<1>1. Whole(sub)'
  BY DEF RenewalInv, Chain, Whole
<1>2. ASSUME NEW o \in Bills PROVE Follows(o)' /\ Starts(o)' /\ MadeOnce(o)'
  <2>1. Exists(o)' => Exists(o)
    BY DEF Exists, NoneMade
  <2>2. Exists(o) => bill'[o].start = bill[o].start
    BY DEF BillsGo
  <2>3. bill[o].st = "paid" => /\ Exists(o) /\ bill'[o].st = "paid"
                               /\ bill'[o].at = bill[o].at /\ From(bill'[o]) = From(bill[o])
    BY <2>2 DEF BillsGo, From, Exists
  <2>4. Follows(o) /\ Starts(o)
    BY DEF RenewalInv, Chain
  <2>5. Follows(o)'
    BY <2>1, <2>2, <2>3, <2>4 DEF Follows
  <2>6. Starts(o)'
    BY <2>3, <2>4 DEF Starts
  <2>7. MadeOnce(o)'
    <3>1. CASE Exists(o)
      BY <3>1, MadeStays
    <3>2. CASE ~Exists(o)
      BY <2>1, <3>2 DEF MadeOnce
    <3> QED BY <3>1, <3>2
  <2> QED BY <2>5, <2>6, <2>7
<1>3. CycleBilledOnce'
  BY DEF RenewalInv, Chain, CycleBilledOnce, BillsGo, NoneMade, Exists
<1>4. ASSUME NEW t \in Nat PROVE Timely(t)'
  <2>1. Billed(t + Lead) => Billed(t + Lead)'
    BY BilledStays DEF Billed, Exists
  <2>2. Timely(t)
    BY DEF RenewalInv, Chain
  <2> QED BY <2>1, <2>2 DEF Timely, EventsGo
<1> QED BY <1>1, <1>2, <1>3, <1>4 DEF Chain

\* The order of the next cycle starts it.
LEMMA ChainMoves ==
    ASSUME RenewalAssumption, RenewalInv, BillsGo, NoneMade, EventsGo,
           NEW o \in Bills, Exists(o), bill[o].start = sub.end, bill'[o].st = "paid",
           sub'.start = From(bill'[o]), sub'.end = From(bill'[o]) + Length, sub'.bill = o
    PROVE  Chain' /\ Billed(sub.end)
<1>1. Whole(sub)'
  BY DEF Whole
<1>2. bill'[o].start = sub.end /\ bill'[o] \in BillType /\ sub.start \in Nat /\ sub.end \in Nat
  BY DEF BillsGo, RenewalInv, RenewalTypeOK, SubType
<1>3. PICK from \in Nat : from = From(bill'[o]) /\ from >= sub.end
  BY <1>2, FromIsLater
<1>4. sub.start < from
  BY <1>2, <1>3, RenewalConstants DEF RenewalInv, Chain, Whole
<1>5. ASSUME NEW p \in Bills PROVE Follows(p)' /\ Starts(p)' /\ MadeOnce(p)'
  <2>1. Exists(p)' => Exists(p)
    BY DEF Exists, NoneMade
  <2>2. MadeOnce(p)'
    <3>1. CASE Exists(p)
      BY <3>1, MadeStays
    <3>2. CASE ~Exists(p)
      BY <2>1, <3>2 DEF MadeOnce
    <3> QED BY <3>1, <3>2
  <2>3. CASE p = o
    BY <2>2, <2>3 DEF Follows, Starts
  <2>4. CASE p # o
    <3>1. Starts(p)'
      BY <2>4 DEF Starts
    <3>2. ASSUME Exists(p) PROVE bill'[p].st = "paid" /\ From(bill'[p]) < from
      <4>1. bill[p].start # sub.end
        BY <2>4, <3>2 DEF RenewalInv, Chain, CycleBilledOnce, Exists
      <4>2. bill[p].st = "paid" /\ (p = sub.bill \/ From(bill[p]) < sub.start)
        BY <3>2, <4>1 DEF RenewalInv, Chain, Follows
      <4>3. bill'[p].st = "paid" /\ From(bill'[p]) = From(bill[p])
        BY <3>2, <4>2 DEF BillsGo, From
      <4>4. p = sub.bill => From(bill[p]) = sub.start
        BY DEF RenewalInv, Chain, Starts
      <4>5. From(bill[p]) \in Nat
        BY FromIsLater DEF RenewalInv, RenewalTypeOK
      <4>6. PICK f \in Nat : f = From(bill[p])
        BY <4>5
      <4>7. f < from
        BY <1>2, <1>4, <4>2, <4>4, <4>6
      <4> QED BY <4>3, <4>6, <4>7
    <3>3. Follows(p)'
      BY <1>3, <2>1, <3>2 DEF Follows
    <3> QED BY <2>2, <3>1, <3>3
  <2> QED BY <2>3, <2>4
<1>6. CycleBilledOnce'
  BY DEF RenewalInv, Chain, CycleBilledOnce, BillsGo, NoneMade, Exists
<1>7. Billed(sub.end)
  BY DEF Billed
<1>8. ASSUME NEW t \in Nat PROVE Timely(t)'
  <2>1. Billed(t + Lead) => Billed(t + Lead)'
    BY BilledStays DEF Billed, Exists
  <2>2. Timely(t)
    BY DEF RenewalInv, Chain
  <2>3. t + Lead = sub.end => Billed(t + Lead)
    BY <1>7
  <2> QED BY <2>1, <2>2, <2>3 DEF Timely, EventsGo
<1> QED BY <1>1, <1>5, <1>6, <1>7, <1>8 DEF Chain

\* A renewal that is not over is the one that has not made its order.
LEMMA NotOverNotBilled ==
    ASSUME RenewalAssumption, RenewalInv, NEW t \in Nat, <<"renewal", t>> \in DOMAIN event,
           event[<<"renewal", t>>].st # "succeeded"
    PROVE  t + Lead = sub.end /\ ~Billed(sub.end)
<1>1. ~Billed(t + Lead)
  <2> SUFFICES ASSUME Billed(t + Lead) PROVE FALSE
    OBVIOUS
  <2>1. PICK o \in Bills : Exists(o) /\ bill[o].start = t + Lead
    BY DEF Billed
  <2>2. PICK u \in Nat : /\ u + Lead = bill[o].start
                         /\ Has(event, <<"renewal", u>>, {"succeeded"})
    BY <2>1 DEF RenewalInv, Chain, MadeOnce
  <2>3. u = t
    BY <2>1, <2>2, RenewalConstants
  <2> QED BY <2>2, <2>3 DEF Has
<1>2. Timely(t)
  BY DEF RenewalInv, Chain
<1> QED BY <1>1, <1>2 DEF Timely

\* The event before a cycle makes its order.
LEMMA ChainMakes ==
    ASSUME RenewalAssumption, RenewalInv, NEW t \in Nat, <<"renewal", t>> \in DOMAIN event,
           event[<<"renewal", t>>].st = "processing", EventsGo,
           event'[<<"renewal", t>>].st = "succeeded", sub' = sub,
           NEW o \in Bills, bill[o].st = "none",
           bill' = [bill EXCEPT ![o] = [NoBill EXCEPT !.st = "pending", !.start = sub.end]]
    PROVE  Chain' /\ BillsGo
<1>1. t + Lead = sub.end /\ ~Billed(sub.end)
  BY NotOverNotBilled
<1>2. /\ bill'[o] = [NoBill EXCEPT !.st = "pending", !.start = sub.end]
      /\ \A p \in Bills : p # o => bill'[p] = bill[p]
      /\ DOMAIN bill' = Bills /\ bill' = [p \in DOMAIN bill' |-> bill'[p]]
  BY DEF RenewalInv, RenewalTypeOK
<1>3. bill'[o] \in BillType /\ bill'[o].st = "pending" /\ bill'[o].start = sub.end
  BY <1>2 DEF NoBill, BillType, RenewalInv, RenewalTypeOK, SubType
<1>4. BillsGo
  <2>1. \A p \in Bills : bill'[p] \in BillType
    BY <1>2, <1>3 DEF RenewalInv, RenewalTypeOK
  <2>2. bill' \in [Bills -> BillType]
    BY <1>2, <2>1
  <2> QED BY <1>2, <1>3, <2>2 DEF BillsGo, Exists
<1>5. Whole(sub)'
  BY DEF RenewalInv, Chain, Whole
<1>6. ASSUME NEW p \in Bills PROVE Follows(p)' /\ Starts(p)' /\ MadeOnce(p)'
  <2>1. CASE p # o
    <3>1. bill'[p] = bill[p] /\ Follows(p) /\ Starts(p)
      BY <1>2, <2>1 DEF RenewalInv, Chain
    <3>2. MadeOnce(p)'
      <4>1. CASE Exists(p)
        BY <1>4, <4>1, MadeStays
      <4>2. CASE ~Exists(p)
        BY <3>1, <4>2 DEF MadeOnce, Exists
      <4> QED BY <4>1, <4>2
    <3> QED BY <3>1, <3>2 DEF Follows, Starts, Exists
  <2>2. CASE p = o
    <3>1. Follows(p)'
      BY <1>3, <2>2 DEF Follows
    <3>2. Starts(p)'
      BY <2>2 DEF Starts, RenewalInv, Chain
    <3>3. Has(event', <<"renewal", t>>, {"succeeded"})
      BY DEF Has, EventsGo
    <3>4. MadeOnce(p)'
      BY <1>1, <1>3, <2>2, <3>3 DEF MadeOnce
    <3> QED BY <3>1, <3>2, <3>4
  <2> QED BY <2>1, <2>2
<1>7. CycleBilledOnce'
  BY <1>1, <1>2, <1>3 DEF RenewalInv, Chain, CycleBilledOnce, Billed, Exists
<1>8. ASSUME NEW u \in Nat PROVE Timely(u)'
  <2>1. Billed(u + Lead) => Billed(u + Lead)'
    BY <1>4, BilledStays DEF Billed, Exists
  <2>2. Timely(u)
    BY DEF RenewalInv, Chain
  <2> QED BY <2>1, <2>2 DEF Timely, EventsGo
<1> QED BY <1>4, <1>5, <1>6, <1>7, <1>8 DEF Chain

------------------------------------------------------------------------------
(* What a step does to the threads.                                        *)

LEMMA IdleTyped == IdleThread \in ThreadType /\ IdleThread.pc = "idle"
BY DEF IdleThread, ThreadType, Places, Types

LEMMA IdleReads ==
    ASSUME NEW w \in Threads, thread'[w].pc = "idle"
    PROVE  Reads(w)'
BY DEF Reads, Working, SubRead, BillsRead, Reading, ReadsBills, Types

LEMMA ThreadPut ==
    ASSUME RenewalTypeOK, NEW w \in Threads, NEW rec \in ThreadType, PutThread(w, rec)
    PROVE  /\ thread' \in [Threads -> ThreadType] /\ thread'[w] = rec
           /\ \A v \in Threads : v # w => thread'[v] = thread[v]
BY DEF PutThread, RenewalTypeOK

LEMMA WalletPut ==
    ASSUME RenewalTypeOK, NEW w \in Threads, NEW rec \in ThreadType, PutWallet(w, rec)
    PROVE  /\ thread' \in [Threads -> ThreadType] /\ thread'[w] = rec
           /\ \A v \in Threads : v # w => thread'[v] = [thread[v] EXCEPT !.fresh = FALSE]
<1>1. \A v \in Threads : [thread[v] EXCEPT !.fresh = FALSE] \in ThreadType
  BY DEF RenewalTypeOK, ThreadType
<1> QED BY <1>1 DEF PutWallet

\* Other threads learn at most that the wallet was moved on; so they do when the
\* cycle was.
LeftAlone(v) ==
    \/ thread'[v] = thread[v] /\ SameCycle(sub', sub)
    \/ /\ thread'[v] = [thread[v] EXCEPT !.fresh = FALSE]
       /\ SameCycle(sub', sub) \/ Billed(sub.end)

LEMMA OthersRead ==
    ASSUME RenewalInv, NEW v \in Threads, now' = now, BillsGo, DOMAIN event \subseteq DOMAIN event',
           LeftAlone(v)
    PROVE  Reads(v)'
<1> DEFINE a == thread[v]
           b == thread'[v]
<1>1. a \in ThreadType
  BY DEF RenewalInv, RenewalTypeOK
<1>2. /\ b.pc = a.pc /\ b.ev = a.ev /\ b.of = a.of /\ b.sub = a.sub /\ b.bills = a.bills
      /\ SameCycle(sub', sub) \/ (b.fresh = FALSE /\ Billed(sub.end))
      /\ b.fresh => a.fresh
  <2>1. CASE thread'[v] = thread[v] /\ SameCycle(sub', sub)
    BY <2>1
  <2>2. CASE /\ thread'[v] = [thread[v] EXCEPT !.fresh = FALSE]
             /\ SameCycle(sub', sub) \/ Billed(sub.end)
    <3>1. b = [a EXCEPT !.fresh = FALSE]
      BY <2>2
    <3> HIDE DEF a, b
    <3>2. /\ b.pc = a.pc /\ b.ev = a.ev /\ b.of = a.of /\ b.sub = a.sub /\ b.bills = a.bills
          /\ b.fresh = FALSE
      BY <1>1, <3>1 DEF ThreadType
    <3> QED BY <2>2, <3>2
  <2> QED BY <2>1, <2>2 DEF LeftAlone
<1>3. Working(v) /\ SubRead(v) /\ BillsRead(v)
  BY DEF RenewalInv, Reads
<1>4. \A t : Billed(t) => Billed(t)'
  BY BilledStays DEF Billed, Exists
<1>5. Working(v)'
  BY <1>2, <1>3 DEF Working, Reading, ReadsBills
<1> HIDE DEF b
<1>6. SubRead(v)'
  <2> SUFFICES ASSUME Reading(v) PROVE SubRead(v)'
    BY <1>2 DEF SubRead, Reading, b
  <2>1. PICK r : r = a.sub
    OBVIOUS
  <2>2. /\ Whole(r)
        /\ r.end = sub.end \/ Billed(r.end)
        /\ a.fresh => SameCycle(r, sub)
    BY <1>3, <2>1 DEF SubRead
  <2>3. r.end = sub'.end \/ Billed(r.end)'
    <3>1. Billed(r.end) => Billed(r.end)'
      BY <1>4
    <3>2. r.end = sub.end => sub'.end = r.end \/ Billed(r.end)
      BY <1>2 DEF SameCycle
    <3> QED BY <2>2, <3>1, <3>2
  <2>4. thread'[v].sub = r
    BY <1>2, <2>1 DEF b
  <2>5. thread'[v].fresh => SameCycle(r, sub')
    BY <1>2, <2>2 DEF SameCycle, b
  <2>6. r.end = sub'.end \/ \E o \in Bills : bill'[o].st # "none" /\ bill'[o].start = r.end
    BY <2>3 DEF Billed, Exists
  <2>7. Whole(r) /\ (thread'[v].fresh => SameCycle(r, sub'))
    BY <2>2, <2>5
  <2> HIDE DEF a
  <2> QED BY <2>4, <2>6, <2>7 DEF SubRead, Billed, Exists, Whole, SameCycle
<1>7. BillsRead(v)'
  <2> SUFFICES ASSUME ReadsBills(v) PROVE BillsRead(v)'
    BY <1>2 DEF BillsRead, ReadsBills, b
  <2>1. PICK r : r = a.bills
    OBVIOUS
  <2>2. thread'[v].bills = r
    BY <1>2, <2>1 DEF b
  <2>3. ASSUME NEW o \in Bills PROVE BillRead(r[o], bill[o])'
    <3>1. BillRead(r[o], bill[o])
      BY <1>3, <2>1 DEF BillsRead
    <3> QED BY <3>1 DEF BillRead, BillsGo, Exists
  <2> QED BY <2>2, <2>3 DEF BillsRead, BillRead
<1> QED BY <1>5, <1>6, <1>7 DEF Reads

\* A transaction starts with what is there.
LEMMA SnapshotReads ==
    ASSUME RenewalInv, NEW w \in Threads, NEW pc \in Types, thread[w].ev \in DOMAIN event,
           thread[w].ev[1] = pc, thread[w].ev[2] <= now, Snapshot(w, pc),
           UNCHANGED <<now, sub, bill, event>>
    PROVE  /\ thread' \in [Threads -> ThreadType] /\ Reads(w)'
           /\ \A v \in Threads : v # w => thread'[v] = thread[v]
<1> DEFINE rec == [thread[w] EXCEPT !.pc = pc, !.sub = sub, !.bills = bill, !.fresh = TRUE]
<1>1. thread[w] \in ThreadType /\ sub \in SubType /\ bill \in [Bills -> BillType]
  BY DEF RenewalInv, RenewalTypeOK
<1>2. /\ rec \in ThreadType /\ rec.pc = pc /\ rec.ev = thread[w].ev /\ rec.sub = sub
      /\ rec.bills = bill /\ rec.fresh = TRUE
  BY <1>1 DEF ThreadType, Places
<1>3. PutThread(w, rec)
  BY DEF Snapshot
<1> HIDE DEF rec
<1>4. /\ thread' \in [Threads -> ThreadType] /\ thread'[w] = rec
      /\ \A v \in Threads : v # w => thread'[v] = thread[v]
  BY <1>2, <1>3, ThreadPut DEF RenewalInv
<1>5. Working(w)'
  BY <1>1, <1>2, <1>4 DEF Working, Types
<1>6. SubRead(w)'
  BY <1>2, <1>4 DEF SubRead, SameCycle, RenewalInv, Chain, Whole
<1>7. BillsRead(w)'
  BY <1>1, <1>2, <1>4 DEF BillsRead, BillRead
<1> QED BY <1>4, <1>5, <1>6, <1>7 DEF Reads

------------------------------------------------------------------------------
(* What a step does to the end of the cycle.                               *)

\* Steps that leave the subscription alone end such an event in time only.
EventsWait ==
    \A type \in {"expire", "cancel"}, t \in Nat :
        /\ Has(event', <<type, t>>, {"succeeded"})
              => Has(event, <<type, t>>, {"succeeded"}) \/ t <= now
        /\ Waits(event, type, t) => Waits(event', type, t) \/ t <= now

LEMMA EndsKept ==
    ASSUME RenewalInv, EventsWait, sub' = sub, outdated' = outdated, now' \in Nat, now <= now'
    PROVE  Ends'
<1>1. now \in Nat /\ sub.end \in Nat
  BY DEF RenewalInv, RenewalTypeOK, SubType
<1>2. ASSUME NEW type \in {"expire", "cancel"}, NEW t \in Nat PROVE InTime(type, t)'
  <2>1. InTime(type, t)
    BY DEF RenewalInv, Ends
  <2> QED BY <1>1, <2>1 DEF InTime, EventsWait
<1>3. Consistent'
  BY DEF RenewalInv, Ends, Consistent
<1>4. EndIsScheduled'
  <2> SUFFICES ASSUME ~outdated, sub.end > now'
               PROVE  /\ sub.status = "active" => Waits(event', "expire", sub.end)
                      /\ sub.status = "cancel_scheduled" => Waits(event', "cancel", sub.end)
    BY DEF EndIsScheduled, Waits
  <2>1. sub.end > now /\ ~(sub.end <= now)
    BY <1>1
  <2>2. /\ sub.status = "active" => Waits(event, "expire", sub.end)
        /\ sub.status = "cancel_scheduled" => Waits(event, "cancel", sub.end)
    BY <2>1 DEF RenewalInv, Ends, EndIsScheduled, Waits
  <2> QED BY <1>1, <2>1, <2>2 DEF EventsWait
<1> QED BY <1>2, <1>3, <1>4 DEF Ends

\* And those that write it bring its events after it.
LEMMA EndsSynced ==
    ASSUME RenewalAssumption, RenewalInv, now' = now, NEW s \in SubType, Whole(s),
           outdated' \in BOOLEAN, outdated' \/ sub' = s, Consistent',
           \/ event' = Synced(event, s)
           \/ \E w \in Threads : /\ thread[w].ev \in DOMAIN event /\ thread[w].ev[2] <= now
                                 /\ event' = Ended(Synced(event, s), w, "succeeded")
    PROVE  Ends'
<1> DEFINE ev == Synced(event, s)
<1>1. /\ Rows(ev) /\ Kept(event, ev)
      /\ s.status = "active" /\ ~s.cancel
            => Waits(ev, "expire", s.end) \/ Has(event, <<"expire", s.end>>, {"succeeded"})
      /\ s.status = "cancel_scheduled"
            => Waits(ev, "cancel", s.end) \/ Has(event, <<"cancel", s.end>>, {"succeeded"})
  BY SyncedKeeps DEF Rows, RenewalInv, RenewalTypeOK
<1>2. now \in Nat /\ s.end \in Nat
  BY DEF RenewalInv, RenewalTypeOK, SubType
<1> HIDE DEF ev
<1>3. ASSUME NEW type \in {"expire", "cancel"}, NEW t \in Nat
      PROVE  /\ Has(event', <<type, t>>, {"succeeded"}) => Has(ev, <<type, t>>, {"succeeded"}) \/ t <= now
             /\ Waits(ev, type, t) => Waits(event', type, t) \/ t <= now
  <2>1. CASE event' = ev
    BY <2>1
  <2>2. ASSUME NEW w \in Threads, thread[w].ev \in DOMAIN event, thread[w].ev[2] <= now,
               event' = Ended(ev, w, "succeeded")
        PROVE  /\ Has(event', <<type, t>>, {"succeeded"})
                     => Has(ev, <<type, t>>, {"succeeded"}) \/ t <= now
               /\ Waits(ev, type, t) => Waits(event', type, t) \/ t <= now
    <3>1. thread[w].ev \in DOMAIN ev
      BY <1>1, <2>2 DEF Kept
    <3>2. /\ DOMAIN event' = DOMAIN ev
          /\ \A d \in DOMAIN ev : d # thread[w].ev => event'[d] = ev[d]
      BY <1>1, <2>2, <3>1, EndedChanges
    <3>3. <<type, t>> = thread[w].ev => t <= now
      BY <2>2
    <3> QED BY <3>2, <3>3 DEF Has, Waits
  <2> QED BY <2>1, <2>2 DEF ev
<1>4. ASSUME NEW type \in {"expire", "cancel"}, NEW t \in Nat PROVE InTime(type, t)'
  <2>1. InTime(type, t)
    BY DEF RenewalInv, Ends
  <2>2. Has(ev, <<type, t>>, {"succeeded"}) => Has(event, <<type, t>>, {"succeeded"})
    BY <1>1 DEF Kept, Has
  <2> QED BY <1>3, <2>1, <2>2 DEF InTime
<1>5. EndIsScheduled'
  <2> SUFFICES ASSUME ~outdated', sub'.end > now
               PROVE  /\ sub'.status = "active" => Waits(event', "expire", sub'.end)
                      /\ sub'.status = "cancel_scheduled" => Waits(event', "cancel", sub'.end)
    BY DEF EndIsScheduled, Waits
  <2>1. sub' = s /\ ~(s.end <= now)
    BY <1>2
  <2>2. /\ ~Has(event, <<"expire", s.end>>, {"succeeded"})
        /\ ~Has(event, <<"cancel", s.end>>, {"succeeded"})
    BY <1>2, <2>1 DEF RenewalInv, Ends, InTime
  <2>3. s.status = "active" => ~s.cancel
    BY <2>1 DEF Consistent
  <2> QED BY <1>1, <1>2, <1>3, <2>1, <2>2, <2>3
<1> QED BY <1>4, <1>5 DEF Ends

------------------------------------------------------------------------------
(* Every step keeps all of it.                                             *)

\* What the events of a step come to.
LEMMA RowChanges ==
    ASSUME RenewalInv, sub' = sub, NEW e \in DOMAIN event, NEW row \in EventType,
           event' = [event EXCEPT ![e] = row], event[e].st # "succeeded",
           row.st \in Live \cup {"processing"} \/ (row.st = "succeeded" /\ e[2] <= now)
    PROVE  EventsGo /\ EventsWait /\ event'[e] = row
<1>1. Rows(event)
  BY DEF RenewalInv, RenewalTypeOK, Rows
<1>2. /\ DOMAIN event' = DOMAIN event /\ event'[e] = row
      /\ event' = [d \in DOMAIN event' |-> event'[d]]
      /\ \A d \in DOMAIN event : d # e => event'[d] = event[d]
  BY <1>1 DEF Rows
<1>3. \A d \in DOMAIN event' : event'[d] \in EventType
  BY <1>1, <1>2 DEF Rows
<1>4. Rows(event')
  BY <1>1, <1>2, <1>3 DEF Rows
<1>5. EventsGo
  BY <1>2, <1>4 DEF EventsGo
<1>6. EventsWait
  <2> SUFFICES ASSUME NEW type \in {"expire", "cancel"}, NEW t \in Nat
               PROVE  /\ Has(event', <<type, t>>, {"succeeded"})
                            => Has(event, <<type, t>>, {"succeeded"}) \/ t <= now
                      /\ Waits(event, type, t) => Waits(event', type, t) \/ t <= now
    BY DEF EventsWait
  <2>1. CASE <<type, t>> = e
    <3>1. e[2] = t
      BY <2>1
    <3> QED BY <1>2, <2>1, <3>1 DEF Has, Waits, Live
  <2>2. CASE <<type, t>> # e
    BY <1>2, <2>2 DEF Has, Waits
  <2> QED BY <2>1, <2>2
<1> QED BY <1>2, <1>5, <1>6

LEMMA NoRowChanges ==
    ASSUME RenewalInv, SameCycle(sub', sub), event' = event
    PROVE  EventsGo /\ EventsWait
BY DEF EventsGo, EventsWait, RenewalInv, RenewalTypeOK, Rows

LEMMA SyncedGo ==
    ASSUME RenewalAssumption, RenewalInv, NEW s \in SubType, Whole(s),
           s.end = sub'.end \/ Billed(s.end),
           \/ event' = Synced(event, s)
           \/ \E w \in Threads : /\ thread[w].ev \in DOMAIN event
                                 /\ event' = Ended(Synced(event, s), w, "succeeded")
    PROVE  EventsGo
<1> DEFINE ev == Synced(event, s)
<1>1. /\ Rows(ev) /\ Kept(event, ev)
      /\ \A t \in Nat : <<"renewal", t>> \in DOMAIN ev
            => <<"renewal", t>> \in DOMAIN event \/ t + Lead = s.end
  BY SyncedKeeps DEF Rows, RenewalInv, RenewalTypeOK
<1> HIDE DEF ev
<1>2. /\ Rows(event') /\ DOMAIN event' = DOMAIN ev
      /\ \A e \in DOMAIN ev : ev[e].st = "succeeded" => event'[e].st = "succeeded"
  <2>1. CASE event' = ev
    BY <1>1, <2>1
  <2>2. ASSUME NEW w \in Threads, thread[w].ev \in DOMAIN event, event' = Ended(ev, w, "succeeded")
        PROVE  /\ Rows(event') /\ DOMAIN event' = DOMAIN ev
               /\ \A e \in DOMAIN ev : ev[e].st = "succeeded" => event'[e].st = "succeeded"
    <3>1. thread[w].ev \in DOMAIN ev
      BY <1>1, <2>2 DEF Kept
    <3>2. /\ Rows(event') /\ DOMAIN event' = DOMAIN ev
          /\ event'[thread[w].ev].st = "succeeded"
          /\ \A d \in DOMAIN ev : d # thread[w].ev => event'[d] = ev[d]
      BY <1>1, <2>2, <3>1, EndedChanges
    <3> QED BY <3>2
  <2> QED BY <2>1, <2>2 DEF ev
<1>3. DOMAIN event \subseteq DOMAIN event'
  BY <1>1, <1>2 DEF Kept
<1>4. \A e \in DOMAIN event : event[e].st = "succeeded" => event'[e].st = "succeeded"
  BY <1>1, <1>2 DEF Kept
<1>5. ASSUME NEW t \in Nat, <<"renewal", t>> \in DOMAIN event'
      PROVE  <<"renewal", t>> \in DOMAIN event \/ t + Lead = sub'.end \/ Billed(t + Lead)
  <2>1. <<"renewal", t>> \in DOMAIN event \/ t + Lead = s.end
    BY <1>1, <1>2, <1>5
  <2> QED BY <2>1
<1> QED BY <1>2, <1>3, <1>4, <1>5 DEF EventsGo

LEMMA OrdersStay ==
    ASSUME RenewalInv, bill' = bill
    PROVE  BillsGo /\ NoneMade
BY DEF BillsGo, NoneMade, Exists, RenewalInv, RenewalTypeOK

\* A step of w, or of nobody, put together.
LEMMA Together ==
    ASSUME RenewalInv, now' = now, sub' \in SubType, BillsGo, EventsGo, Chain', Ends',
           choices' \in Nat, faults' \in Nat, outdated' \in BOOLEAN,
           thread' \in [Threads -> ThreadType],
           \A v \in Threads : LeftAlone(v) \/ Reads(v)'
    PROVE  RenewalInv'
<1>1. RenewalTypeOK'
  BY DEF RenewalInv, RenewalTypeOK, BillsGo, EventsGo, Rows
<1>2. \A v \in Threads : Reads(v)'
  BY OthersRead DEF EventsGo
<1> QED BY <1>1, <1>2 DEF RenewalInv

\* One that leaves the subscription alone.
LEMMA QuietStep ==
    ASSUME RenewalAssumption, RenewalInv, UNCHANGED <<now, sub, outdated>>,
           BillsGo, NoneMade, EventsGo, EventsWait, choices' \in Nat, faults' \in Nat,
           thread' \in [Threads -> ThreadType],
           \A v \in Threads : LeftAlone(v) \/ Reads(v)'
    PROVE  RenewalInv'
<1>1. SameCycle(sub', sub)
  BY DEF SameCycle
<1>2. Chain'
  BY <1>1, ChainKept
<1>3. now' \in Nat /\ now <= now' /\ now' = now /\ sub' \in SubType /\ outdated' \in BOOLEAN
  BY DEF RenewalInv, RenewalTypeOK
<1>4. Ends'
  BY <1>3, EndsKept
<1> QED BY <1>2, <1>3, <1>4, Together

LEMMA LeftAsItWas ==
    ASSUME NEW v \in Threads, thread'[v] = thread[v], sub' = sub
    PROVE  LeftAlone(v)
BY DEF LeftAlone, SameCycle

\* A thread that did nothing but become idle.
LEMMA Rested ==
    ASSUME RenewalInv, NEW w \in Threads, PutThread(w, IdleThread), sub' = sub
    PROVE  /\ thread' \in [Threads -> ThreadType]
           /\ \A v \in Threads : LeftAlone(v) \/ Reads(v)'
<1>1. /\ thread' \in [Threads -> ThreadType] /\ thread'[w] = IdleThread
      /\ \A v \in Threads : v # w => thread'[v] = thread[v]
  BY IdleTyped, ThreadPut DEF RenewalInv
<1>2. Reads(w)'
  BY <1>1, IdleTyped, IdleReads
<1> QED BY <1>1, <1>2, LeftAsItWas

LEMMA WhatItIs ==
    ASSUME RenewalInv
    PROVE  /\ now \in Nat /\ choices \in Nat /\ faults \in Nat /\ outdated \in BOOLEAN
           /\ sub \in SubType /\ bill \in [Bills -> BillType] /\ Rows(event)
           /\ thread \in [Threads -> ThreadType]
BY DEF RenewalInv, RenewalTypeOK, Rows

LEMMA ClaimKeeps ==
    ASSUME RenewalAssumption, RenewalInv, NEW w \in Threads, NEW e \in DOMAIN event, Claim(w, e)
    PROVE  RenewalInv'
<1> DEFINE row == [[event[e] EXCEPT !.st = "processing"] EXCEPT !.by = w]
           rec == [[IdleThread EXCEPT !.pc = "claimed"] EXCEPT !.ev = e]
<1>1. event' = [event EXCEPT ![e] = row]
  BY Zenon DEF Claim
<1>2. PutThread(w, rec)
  BY Zenon DEF Claim
<1>3. event[e] \in EventType /\ e \in Types \X Nat
  BY WhatItIs DEF Rows
<1>4. row \in EventType /\ row.st = "processing"
  BY <1>3 DEF EventType
<1>5. rec \in ThreadType /\ rec.pc = "claimed" /\ rec.ev = e
  BY <1>3, IdleTyped DEF ThreadType, Places
<1> HIDE DEF row, rec
<1>6. /\ UNCHANGED <<now, sub, outdated, bill, choices, faults>> /\ event[e].st # "succeeded"
  BY DEF Claim, Live
<1>7. EventsGo /\ EventsWait
  BY <1>1, <1>4, <1>6, RowChanges
<1>8. /\ thread' \in [Threads -> ThreadType] /\ thread'[w] = rec
      /\ \A v \in Threads : v # w => thread'[v] = thread[v]
  BY <1>2, <1>5, ThreadPut DEF RenewalInv
<1>9. Reads(w)'
  <2>1. Working(w)'
    BY <1>5, <1>7, <1>8 DEF Working, Reading, ReadsBills, Types, EventsGo
  <2> QED BY <1>5, <1>8, <2>1 DEF Reads, SubRead, BillsRead, Reading, ReadsBills, Types
<1>10. BillsGo /\ NoneMade
  BY <1>6, OrdersStay
<1>11. choices' \in Nat /\ faults' \in Nat
  BY <1>6, WhatItIs
<1>12. \A v \in Threads : LeftAlone(v) \/ Reads(v)'
  BY <1>6, <1>8, <1>9, LeftAsItWas
<1> QED BY <1>6, <1>7, <1>8, <1>10, <1>11, <1>12, QuietStep

\* The claimed event is ended, in time.
LEMMA EndedInTime ==
    ASSUME RenewalInv, NEW w \in Threads, sub' = sub, thread[w].ev \in DOMAIN event, Mine(w),
           NEW st \in {"pending", "succeeded"}, event' = Ended(event, w, st),
           st = "succeeded" => thread[w].ev[2] <= now
    PROVE  EventsGo /\ EventsWait /\ event'[thread[w].ev].st = st
<1> DEFINE e == thread[w].ev
           row == [[event[e] EXCEPT !.st = st] EXCEPT !.by = Nobody]
<1>1. event' = [event EXCEPT ![e] = row]
  BY Zenon DEF Ended
<1>2. event[e] \in EventType
  BY WhatItIs DEF Rows
<1>3. row \in EventType /\ row.st = st
  BY <1>2 DEF EventType
<1>4. event[e].st # "succeeded" /\ e \in DOMAIN event
  BY DEF Mine
<1>5. row.st \in Live \cup {"processing"} \/ (row.st = "succeeded" /\ e[2] <= now)
  BY <1>3 DEF Live
<1> HIDE DEF row, e
<1>6. EventsGo /\ EventsWait /\ event'[e] = row
  BY <1>1, <1>3, <1>4, <1>5, RowChanges
<1> QED BY <1>3, <1>6 DEF e

LEMMA OpenKeeps ==
    ASSUME RenewalAssumption, RenewalInv, NEW w \in Threads, Open(w)
    PROVE  RenewalInv'
<1>1. /\ UNCHANGED <<now, sub, outdated, bill, choices, faults>>
      /\ thread[w].pc = "claimed"
  BY DEF Open
<1>2. thread[w].ev \in DOMAIN event
  BY <1>1 DEF RenewalInv, Reads, Working
<1>3. BillsGo /\ NoneMade /\ choices' \in Nat /\ faults' \in Nat
  BY <1>1, OrdersStay, WhatItIs
<1>4. CASE thread[w].ev[2] > now
  <2>1. Mine(w) /\ event' = Ended(event, w, "pending") /\ PutThread(w, IdleThread)
    BY <1>4 DEF Open
  <2>2. EventsGo /\ EventsWait
    BY <1>1, <1>2, <2>1, EndedInTime
  <2>3. /\ thread' \in [Threads -> ThreadType]
        /\ \A v \in Threads : LeftAlone(v) \/ Reads(v)'
    BY <1>1, <2>1, Rested
  <2> QED BY <1>1, <1>3, <2>2, <2>3, QuietStep
<1>5. CASE ~(thread[w].ev[2] > now)
  <2>1. Snapshot(w, thread[w].ev[1]) /\ event' = event
    BY <1>5 DEF Open
  <2>2. PICK type \in Types, t \in Nat : thread[w].ev = <<type, t>>
    BY <1>2, WhatItIs DEF Rows
  <2>3. t <= now
    BY <1>5, <2>2, WhatItIs
  <2>4. /\ thread' \in [Threads -> ThreadType] /\ Reads(w)'
        /\ \A v \in Threads : v # w => thread'[v] = thread[v]
    BY <1>1, <1>2, <2>1, <2>2, <2>3, SnapshotReads
  <2>5. EventsGo /\ EventsWait
    BY <1>1, <2>1, NoRowChanges DEF SameCycle
  <2>6. \A v \in Threads : LeftAlone(v) \/ Reads(v)'
    BY <1>1, <2>4, LeftAsItWas
  <2> QED BY <1>1, <1>3, <2>4, <2>5, <2>6, QuietStep
<1> QED BY <1>4, <1>5

LEMMA RecoverKeeps ==
    ASSUME RenewalAssumption, RenewalInv, NEW e \in DOMAIN event, Recover(e)
    PROVE  RenewalInv'
<1> DEFINE row == [[event[e] EXCEPT !.st = "pending"] EXCEPT !.by = Nobody]
<1>1. event' = [event EXCEPT ![e] = row]
  BY Zenon DEF Recover
<1>2. event[e] \in EventType
  BY WhatItIs DEF Rows
<1>3. row \in EventType /\ row.st = "pending"
  BY <1>2 DEF EventType
<1> HIDE DEF row
<1>4. /\ UNCHANGED <<now, sub, outdated, bill, thread, choices>> /\ faults' = faults + 1
      /\ event[e].st # "succeeded"
  BY DEF Recover
<1>5. EventsGo /\ EventsWait
  BY <1>1, <1>3, <1>4, RowChanges DEF Live
<1>6. BillsGo /\ NoneMade /\ choices' \in Nat /\ faults' \in Nat
  BY <1>4, OrdersStay, WhatItIs
<1>7. thread' \in [Threads -> ThreadType] /\ \A v \in Threads : LeftAlone(v)
  BY <1>4, LeftAsItWas, WhatItIs
<1> QED BY <1>4, <1>5, <1>6, <1>7, QuietStep

LEMMA RollBackKeeps ==
    ASSUME RenewalAssumption, RenewalInv, NEW w \in Threads, RollBack(w)
    PROVE  RenewalInv'
<1>1. /\ UNCHANGED <<now, sub, outdated, bill, event, choices, faults>>
      /\ PutThread(w, IdleThread)
  BY DEF RollBack
<1>2. /\ BillsGo /\ NoneMade /\ EventsGo /\ EventsWait
      /\ choices' \in Nat /\ faults' \in Nat
  BY <1>1, OrdersStay, NoRowChanges, WhatItIs DEF SameCycle
<1>3. /\ thread' \in [Threads -> ThreadType]
      /\ \A v \in Threads : LeftAlone(v) \/ Reads(v)'
  BY <1>1, Rested
<1> QED BY <1>1, <1>2, <1>3, QuietStep

LEMMA RenewKeeps ==
    ASSUME RenewalAssumption, RenewalInv, NEW w \in Threads, Renew(w)
    PROVE  RenewalInv'
<1>1. /\ UNCHANGED <<now, sub, outdated, choices, faults>> /\ thread[w].pc = "renewal" /\ Mine(w)
      /\ event' = Ended(event, w, "succeeded") /\ PutThread(w, IdleThread)
  BY DEF Renew
<1>2. /\ thread[w].ev \in DOMAIN event /\ thread[w].ev[1] = "renewal" /\ thread[w].ev[2] <= now
  BY <1>1 DEF RenewalInv, Reads, Working, Types
<1>3. EventsGo /\ EventsWait /\ event'[thread[w].ev].st = "succeeded"
  BY <1>1, <1>2, EndedInTime
<1>4. /\ thread' \in [Threads -> ThreadType]
      /\ \A v \in Threads : LeftAlone(v) \/ Reads(v)'
  BY <1>1, Rested
<1>5. choices' \in Nat /\ faults' \in Nat /\ outdated' \in BOOLEAN
      /\ now \in Nat /\ sub \in SubType
  BY <1>1, WhatItIs
<1>6. CASE bill' = bill
  BY <1>1, <1>3, <1>4, <1>5, <1>6, OrdersStay, QuietStep
<1>7. CASE bill' # bill
  <2> DEFINE free == {o \in Bills : bill[o].st = "none"}
  <2>1. PICK o : /\ o = Min(free) /\ free # {}
                 /\ bill' = [bill EXCEPT ![o] = [NoBill EXCEPT !.st = "pending", !.start = sub.end]]
    BY <1>7 DEF Renew, EnsureBill
  <2>2. o \in free
    BY <2>1, SmallestOf, RenewalConstants
  <2>3. o \in Bills /\ bill[o].st = "none"
    BY <2>2
  <2> HIDE DEF free
  <2>4. PICK t \in Nat : thread[w].ev = <<"renewal", t>>
    BY <1>2, WhatItIs DEF Rows
  <2>5. /\ <<"renewal", t>> \in DOMAIN event /\ event[<<"renewal", t>>].st = "processing"
        /\ event'[<<"renewal", t>>].st = "succeeded"
    BY <1>1, <1>2, <1>3, <2>4 DEF Mine
  <2>6. Chain' /\ BillsGo
    BY <1>1, <1>3, <2>1, <2>3, <2>5, ChainMakes
  <2>7. Ends'
    BY <1>1, <1>3, <1>5, EndsKept
  <2> QED BY <1>1, <1>3, <1>4, <1>5, <2>6, <2>7, Together
<1> QED BY <1>6, <1>7

LEMMA NotifyKeeps ==
    ASSUME RenewalAssumption, RenewalInv, NEW w \in Threads, NEW o \in Bills, Notify(w, o)
    PROVE  RenewalInv'
<1> DEFINE rec == [IdleThread EXCEPT !.pc = "settle", !.of = o, !.sub = sub, !.bills = bill]
<1>1. /\ UNCHANGED <<now, sub, outdated, bill, event, choices, faults>>
      /\ bill[o].trade = "paid" /\ PutThread(w, rec)
  BY DEF Notify
<1>2. sub \in SubType /\ bill \in [Bills -> BillType]
  BY WhatItIs
<1>3. /\ rec \in ThreadType /\ rec.pc = "settle" /\ rec.of = o /\ rec.sub = sub
      /\ rec.bills = bill /\ rec.fresh = TRUE
  BY <1>2, IdleTyped DEF ThreadType, Places, IdleThread
<1> HIDE DEF rec
<1>4. /\ BillsGo /\ NoneMade /\ EventsGo /\ EventsWait
      /\ choices' \in Nat /\ faults' \in Nat
  BY <1>1, OrdersStay, NoRowChanges, WhatItIs DEF SameCycle
<1>5. /\ thread' \in [Threads -> ThreadType] /\ thread'[w] = rec
      /\ \A v \in Threads : v # w => thread'[v] = thread[v]
  BY <1>1, <1>3, ThreadPut DEF RenewalInv
<1>6. bill[o].st # "none"
  BY <1>1, <1>2 DEF BillType, NoBill
<1>7. Reads(w)'
  <2>1. Working(w)'
    BY <1>1, <1>2, <1>3, <1>5, <1>6 DEF Working, Types
  <2>2. SubRead(w)'
    BY <1>1, <1>3, <1>5 DEF SubRead, SameCycle, RenewalInv, Chain, Whole
  <2>3. BillsRead(w)'
    BY <1>1, <1>2, <1>3, <1>5 DEF BillsRead, BillRead
  <2> QED BY <2>1, <2>2, <2>3 DEF Reads
<1>8. \A v \in Threads : LeftAlone(v) \/ Reads(v)'
  BY <1>1, <1>5, <1>7, LeftAsItWas
<1> QED BY <1>1, <1>4, <1>5, <1>8, QuietStep

LEMMA ChooseKeeps ==
    ASSUME RenewalAssumption, RenewalInv, NEW w \in Threads, NEW choice \in {"stop", "resume"},
           Choose(w, choice)
    PROVE  RenewalInv'
<1> DEFINE rec == [IdleThread EXCEPT !.pc = choice, !.sub = sub]
<1>1. /\ UNCHANGED <<now, sub, outdated, bill, event, faults>>
      /\ choices' = choices + 1 /\ PutThread(w, rec)
  BY DEF Choose
<1>2. sub \in SubType
  BY WhatItIs
<1>3. rec \in ThreadType /\ rec.pc = choice /\ rec.sub = sub
  BY <1>2, IdleTyped DEF ThreadType, Places, IdleThread
<1> HIDE DEF rec
<1>4. /\ BillsGo /\ NoneMade /\ EventsGo /\ EventsWait
      /\ choices' \in Nat /\ faults' \in Nat
  BY <1>1, OrdersStay, NoRowChanges, WhatItIs DEF SameCycle
<1>5. /\ thread' \in [Threads -> ThreadType] /\ thread'[w] = rec
      /\ \A v \in Threads : v # w => thread'[v] = thread[v]
  BY <1>1, <1>3, ThreadPut DEF RenewalInv
<1>6. Reads(w)'
  <2>1. Working(w)'
    BY <1>2, <1>3, <1>5 DEF Working, ReadsBills, Types
  <2>2. SubRead(w)'
    BY <1>1, <1>3, <1>5 DEF SubRead, SameCycle, RenewalInv, Chain, Whole
  <2>3. BillsRead(w)'
    BY <1>3, <1>5 DEF BillsRead, ReadsBills, Types
  <2> QED BY <2>1, <2>2, <2>3 DEF Reads
<1>7. \A v \in Threads : LeftAlone(v) \/ Reads(v)'
  BY <1>1, <1>5, <1>6, LeftAsItWas
<1> QED BY <1>1, <1>4, <1>5, <1>7, QuietStep

\* The provider's steps move a trade only.
LEMMA TradeKeeps ==
    ASSUME RenewalAssumption, RenewalInv, NEW o \in Bills, Checkout(o) \/ PayBill(o)
    PROVE  RenewalInv'
<1>1. /\ UNCHANGED <<now, sub, event, thread, choices, faults, outdated>>
  BY DEF Checkout, PayBill
<1>2. PICK trade \in {"open", "paid"} : bill' = [bill EXCEPT ![o].trade = trade]
  BY DEF Checkout, PayBill
<1>3. bill \in [Bills -> BillType] /\ bill[o] # NoBill
  BY WhatItIs DEF Checkout, PayBill, NoBill
<1> DEFINE row == [bill[o] EXCEPT !.trade = trade]
<1>4. row \in BillType /\ row.st = bill[o].st /\ row.start = bill[o].start /\ row.at = bill[o].at
  BY <1>3 DEF BillType
<1>5. /\ bill' = [bill EXCEPT ![o] = row]
  BY <1>2
<1> HIDE DEF row
<1>6. /\ bill' \in [Bills -> BillType]
      /\ \A p \in Bills : /\ bill'[p].st = bill[p].st /\ bill'[p].start = bill[p].start
                          /\ bill'[p].at = bill[p].at
  BY <1>3, <1>4, <1>5
<1>7. BillsGo /\ NoneMade
  BY <1>6 DEF BillsGo, NoneMade, Exists
<1>8. /\ EventsGo /\ EventsWait /\ choices' \in Nat /\ faults' \in Nat
      /\ thread' \in [Threads -> ThreadType] /\ \A v \in Threads : LeftAlone(v)
  BY <1>1, NoRowChanges, WhatItIs, LeftAsItWas DEF SameCycle
<1> QED BY <1>1, <1>7, <1>8, QuietStep

LEMMA TickKeeps ==
    ASSUME RenewalAssumption, RenewalInv, Tick
    PROVE  RenewalInv'
<1>1. /\ UNCHANGED <<sub, bill, event, thread, choices, faults, outdated>> /\ now' = now + 1
      /\ \A w \in Threads : thread[w].pc = "idle"
  BY DEF Tick
<1>2. /\ BillsGo /\ NoneMade /\ EventsGo /\ EventsWait /\ SameCycle(sub', sub)
  BY <1>1, OrdersStay, NoRowChanges DEF SameCycle
<1>3. Chain'
  BY <1>2, ChainKept
<1>4. now' \in Nat /\ now <= now'
  BY <1>1, WhatItIs
<1>5. Ends'
  BY <1>1, <1>2, <1>4, EndsKept
<1>6. \A w \in Threads : Reads(w)'
  BY <1>1, IdleReads
<1>7. RenewalTypeOK'
  BY <1>1, <1>4 DEF RenewalInv, RenewalTypeOK
<1> QED BY <1>3, <1>5, <1>6, <1>7 DEF RenewalInv

\* The subscription that an order paid at r.at leads to.
LEMMA ActivatedIs ==
    ASSUME RenewalAssumption, NEW s \in SubType, NEW o \in Bills, NEW r \in BillType
    PROVE  /\ Activated(s, o, r) \in SubType /\ Whole(Activated(s, o, r))
           /\ Activated(s, o, r).start = From(r) /\ Activated(s, o, r).end = From(r) + Length
           /\ Activated(s, o, r).bill = o /\ Activated(s, o, r).cancel = s.cancel
           /\ Activated(s, o, r).status = "active" => ~s.cancel
<1>1. PICK from \in Nat : from = From(r)
  BY FromIsLater
<1>2. from + Length \in Nat
  BY <1>1, RenewalConstants
<1> DEFINE status == IF s.cancel THEN "cancel_scheduled" ELSE "active"
<1>3. Activated(s, o, r) = [s EXCEPT !.status = status, !.start = from, !.end = from + Length, !.bill = o]
  BY <1>1 DEF Activated
<1>4. status \in {"active", "cancel_scheduled"} /\ (status = "active" => ~s.cancel)
  OBVIOUS
<1> HIDE DEF status
<1>5. PICK end \in Nat : end = from + Length
  BY <1>2
<1> DEFINE a == [s EXCEPT !.status = status, !.start = from, !.end = end, !.bill = o]
<1>6. /\ a \in SubType /\ a.start = from /\ a.end = end /\ a.bill = o /\ a.cancel = s.cancel
      /\ a.status = status
  BY <1>4 DEF SubType
<1> HIDE DEF a
<1>7. Activated(s, o, r) = a
  BY <1>3, <1>5 DEF a
<1> QED BY <1>1, <1>4, <1>5, <1>6, <1>7 DEF Whole

\* What a payment of o makes of its row, whatever was read of it.
PaidAs(read) == IF read.st = "paid" THEN read ELSE [read EXCEPT !.st = "paid", !.at = now]
PaidRow(o, r, grant) == [bill[o] EXCEPT !.st = "paid", !.at = r.at, !.grant = grant]

Pays(o, read, r, grant) ==
    /\ read.st # "none" /\ BillRead(read, bill[o]) /\ r = PaidAs(read)
    /\ grant \in {"none", "reserved", "available"}
    /\ bill' = [bill EXCEPT ![o] = PaidRow(o, r, grant)]

LEMMA Payment ==
    ASSUME RenewalAssumption, RenewalInv, NEW o \in Bills, NEW read \in BillType,
           NEW r, NEW grant, Pays(o, read, r, grant)
    PROVE  /\ BillsGo /\ NoneMade /\ Exists(o) /\ r \in BillType
           /\ bill'[o].st = "paid" /\ From(bill'[o]) = From(r)
           /\ bill[o].st = "paid" => From(bill[o]) = From(r)
<1>1. /\ read.st # "none" /\ BillRead(read, bill[o]) /\ r = PaidAs(read)
      /\ grant \in {"none", "reserved", "available"}
      /\ bill' = [bill EXCEPT ![o] = PaidRow(o, r, grant)]
  BY DEF Pays
<1>2. bill[o] \in BillType /\ now \in Nat /\ bill \in [Bills -> BillType]
  BY WhatItIs
<1>3. bill[o].st # "none" /\ bill[o] # NoBill
  BY <1>1 DEF BillRead, NoBill
<1>4. read # NoBill
  BY <1>1 DEF NoBill
<1>5. r \in BillType /\ r.start = read.start /\ r.at \in Nat
  <2>1. CASE read.st = "paid"
    BY <1>1, <1>4, <2>1 DEF BillType, PaidAs
  <2>2. CASE read.st # "paid"
    <3>1. r = [read EXCEPT !.st = "paid", !.at = now]
      BY <1>1, <2>2 DEF PaidAs
    <3> QED BY <1>2, <1>4, <3>1 DEF BillType
  <2> QED BY <2>1, <2>2
<1>6. r.at = IF read.st = "paid" THEN read.at ELSE now
  <2>1. CASE read.st = "paid"
    BY <1>1, <2>1 DEF PaidAs
  <2>2. CASE read.st # "paid"
    <3>1. r = [read EXCEPT !.st = "paid", !.at = now]
      BY <1>1, <2>2 DEF PaidAs
    <3> QED BY <1>4, <2>2, <3>1 DEF BillType
  <2> QED BY <2>1, <2>2
<1> DEFINE row == PaidRow(o, r, grant)
<1>7. row \in BillType /\ row.st = "paid" /\ row.start = bill[o].start /\ row.at = r.at
  BY <1>1, <1>2, <1>3, <1>5 DEF BillType, PaidRow
<1> HIDE DEF row
<1>8. /\ bill[o].start = read.start
      /\ bill[o].st = "paid" => bill[o].at = r.at
      /\ bill[o].st # "paid" => r.at = now
  BY <1>1, <1>6 DEF BillRead
<1>9. /\ bill' \in [Bills -> BillType] /\ bill'[o] = row
      /\ \A p \in Bills : p # o => bill'[p] = bill[p]
  BY <1>1, <1>2, <1>7 DEF row
<1>10. BillsGo /\ NoneMade /\ Exists(o)
  BY <1>3, <1>7, <1>8, <1>9 DEF BillsGo, NoneMade, Exists
<1>11. From(bill'[o]) = From(r)
  BY <1>5, <1>7, <1>8, <1>9 DEF From
<1>12. bill[o].st = "paid" => From(bill[o]) = From(r)
  BY <1>5, <1>8 DEF From
<1> QED BY <1>5, <1>7, <1>9, <1>10, <1>11, <1>12

\* The cycle that o starts is the next one, or the one that is on.
LEMMA ChainActivates ==
    ASSUME RenewalAssumption, RenewalInv, BillsGo, NoneMade, EventsGo,
           NEW o \in Bills, Exists(o), bill'[o].st = "paid", NEW r \in BillType,
           From(bill'[o]) = From(r), bill[o].st = "paid" => From(bill[o]) = From(r),
           sub.bill = o \/ ~(From(r) < sub.start),
           sub'.start = From(r), sub'.end = From(r) + Length, sub'.bill = o
    PROVE  Chain' /\ (SameCycle(sub', sub) \/ Billed(sub.end))
<1>1. Follows(o) /\ Starts(o)
  BY DEF RenewalInv, Chain
<1>2. CASE bill[o].start = sub.end
  BY <1>2, ChainMoves
<1>3. CASE o = sub.bill
  <2>1. SameCycle(sub', sub)
    BY <1>1, <1>3 DEF Starts, SameCycle, RenewalInv, Chain, Whole
  <2> QED BY <2>1, ChainKept
<1>4. ~(bill[o].st = "paid" /\ o # sub.bill /\ From(bill[o]) < sub.start)
  OBVIOUS
<1> QED BY <1>1, <1>2, <1>3, <1>4 DEF Follows

\* The wallet of others is moved on.
LEMMA WalletRested ==
    ASSUME RenewalInv, NEW w \in Threads, PutWallet(w, IdleThread),
           SameCycle(sub', sub) \/ Billed(sub.end)
    PROVE  /\ thread' \in [Threads -> ThreadType]
           /\ \A v \in Threads : LeftAlone(v) \/ Reads(v)'
<1>1. /\ thread' \in [Threads -> ThreadType] /\ thread'[w] = IdleThread
      /\ \A v \in Threads : v # w => thread'[v] = [thread[v] EXCEPT !.fresh = FALSE]
  BY IdleTyped, WalletPut DEF RenewalInv
<1>2. Reads(w)'
  BY <1>1, IdleTyped, IdleReads
<1>3. \A v \in Threads : v # w => LeftAlone(v)
  BY <1>1 DEF LeftAlone
<1> QED BY <1>1, <1>2, <1>3

LEMMA SettleBillKeeps ==
    ASSUME RenewalAssumption, RenewalInv, NEW w \in Threads, SettleBill(w)
    PROVE  RenewalInv'
<1>1. PICK o : o = thread[w].of
  OBVIOUS
<1>2. PICK read : read = thread[w].bills[o]
  OBVIOUS
<1>3. PICK r : r = IF read.st = "paid" THEN read ELSE [read EXCEPT !.st = "paid", !.at = now]
  OBVIOUS
<1> DEFINE paid == [bill[o] EXCEPT !.st = "paid", !.at = r.at]
           deferred == From(r) > now
<1>4. /\ thread[w].pc = "settle" /\ UNCHANGED <<now, choices, faults, outdated>>
      /\ \/ /\ StaleCycle(o, r) /\ bill' = [bill EXCEPT ![o] = paid]
            /\ PutThread(w, IdleThread) /\ UNCHANGED <<sub, event>>
         \/ /\ ~StaleCycle(o, r) /\ bill' = [bill EXCEPT ![o] = paid]
            /\ event' = Synced(event, sub) /\ PutThread(w, IdleThread) /\ sub' = sub
         \/ /\ ~StaleCycle(o, r)
            /\ bill' = [bill EXCEPT ![o] =
                  [paid EXCEPT !.grant = IF deferred THEN "reserved" ELSE "available"]]
            /\ sub' = IF deferred THEN sub ELSE Activated(sub, o, r)
            /\ event' = Synced(event, sub') /\ PutWallet(w, IdleThread)
  BY <1>1, <1>2, <1>3 DEF SettleBill
<1>5. /\ o \in Bills /\ read \in BillType /\ read.st # "none" /\ BillRead(read, bill[o])
  BY <1>1, <1>2, <1>4 DEF RenewalInv, Reads, Working, BillsRead, ReadsBills
<1>6. /\ choices' \in Nat /\ faults' \in Nat /\ outdated' \in BOOLEAN /\ outdated' = outdated
      /\ sub \in SubType /\ bill[o] \in BillType /\ Whole(sub)
  BY <1>4, <1>5, WhatItIs DEF RenewalInv, Chain
<1>7. PICK grant \in {"none", "reserved", "available"} :
          bill' = [bill EXCEPT ![o] = PaidRow(o, r, grant)]
  <2>1. bill[o] # NoBill
    BY <1>5 DEF BillRead, NoBill
  <2>2. bill[o].grant \in {"none", "reserved", "available"}
    BY <1>6, <2>1 DEF BillType
  <2>3. paid = PaidRow(o, r, bill[o].grant)
    BY <1>6, <2>1 DEF BillType, PaidRow
  <2>4. \A g : [paid EXCEPT !.grant = g] = PaidRow(o, r, g)
    BY <1>6, <2>1 DEF BillType, PaidRow
  <2> HIDE DEF paid
  <2>5. CASE bill' = [bill EXCEPT ![o] = paid]
    BY <2>2, <2>3, <2>5
  <2>6. CASE bill' = [bill EXCEPT ![o] =
                  [paid EXCEPT !.grant = IF deferred THEN "reserved" ELSE "available"]]
    <3>1. PICK g \in {"reserved", "available"} : g = IF deferred THEN "reserved" ELSE "available"
      OBVIOUS
    <3> QED BY <2>4, <2>6, <3>1
  <2> QED BY <1>4, <2>5, <2>6
<1>8. /\ BillsGo /\ NoneMade /\ Exists(o) /\ r \in BillType
      /\ bill'[o].st = "paid" /\ From(bill'[o]) = From(r)
      /\ bill[o].st = "paid" => From(bill[o]) = From(r)
  <2>1. r = PaidAs(read)
    BY <1>3 DEF PaidAs
  <2>2. Pays(o, read, r, grant)
    BY <1>5, <1>7, <2>1 DEF Pays
  <2> QED BY <1>5, <2>2, Payment
<1> HIDE DEF paid
<1>9. CASE PutThread(w, IdleThread) /\ UNCHANGED <<sub, event>>
  <2>1. EventsGo /\ EventsWait
    BY <1>9, NoRowChanges DEF SameCycle
  <2>2. /\ thread' \in [Threads -> ThreadType]
        /\ \A v \in Threads : LeftAlone(v) \/ Reads(v)'
    BY <1>9, Rested
  <2> QED BY <1>4, <1>6, <1>8, <1>9, <2>1, <2>2, QuietStep
<1>10. CASE /\ event' = Synced(event, sub) /\ sub' = sub
            /\ PutThread(w, IdleThread) \/ PutWallet(w, IdleThread)
  <2>1. EventsGo /\ SameCycle(sub', sub)
    BY <1>6, <1>10, SyncedGo DEF SameCycle
  <2>2. /\ thread' \in [Threads -> ThreadType]
        /\ \A v \in Threads : LeftAlone(v) \/ Reads(v)'
    BY <1>10, <2>1, Rested, WalletRested
  <2>3. Chain'
    BY <1>8, <2>1, ChainKept
  <2>4. Consistent'
    BY <1>6, <1>10 DEF RenewalInv, Ends, Consistent
  <2>5. Ends'
    BY <1>4, <1>6, <1>10, <2>4, EndsSynced
  <2> QED BY <1>4, <1>6, <1>8, <1>10, <2>1, <2>2, <2>3, <2>5, Together
<1>11. CASE /\ ~StaleCycle(o, r) /\ sub' = Activated(sub, o, r)
            /\ event' = Synced(event, sub') /\ PutWallet(w, IdleThread)
  <2>1. PICK s : s = Activated(sub, o, r)
    OBVIOUS
  <2>2. /\ s \in SubType /\ Whole(s) /\ s.start = From(r) /\ s.end = From(r) + Length /\ s.bill = o
        /\ s.status = "active" => ~sub.cancel
        /\ s.cancel = sub.cancel
    BY <1>5, <1>6, <1>8, <2>1, ActivatedIs
  <2>3. sub' = s /\ event' = Synced(event, s)
    BY <1>11, <2>1
  <2>4. EventsGo
    BY <2>2, <2>3, SyncedGo
  <2>5. Chain' /\ (SameCycle(sub', sub) \/ Billed(sub.end))
    BY <1>5, <1>8, <1>11, <2>2, <2>3, <2>4, ChainActivates DEF StaleCycle
  <2>6. /\ thread' \in [Threads -> ThreadType]
        /\ \A v \in Threads : LeftAlone(v) \/ Reads(v)'
    BY <1>11, <2>5, WalletRested
  <2>7. Consistent'
    BY <2>2, <2>3 DEF Consistent
  <2>8. Ends'
    BY <1>4, <1>6, <2>2, <2>3, <2>7, EndsSynced
  <2> QED BY <1>4, <1>6, <1>8, <2>2, <2>3, <2>4, <2>5, <2>6, <2>8, Together
<1> QED BY <1>4, <1>9, <1>10, <1>11

------------------------------------------------------------------------------
(* Steps that write back a subscription they read plainly.                 *)

\* A thread that did nothing but become idle, with the wallet moved on or not.
LEMMA CycleRested ==
    ASSUME RenewalInv, NEW w \in Threads, SameCycle(sub', sub),
           PutThread(w, IdleThread) \/ PutWallet(w, IdleThread)
    PROVE  /\ thread' \in [Threads -> ThreadType]
           /\ \A v \in Threads : LeftAlone(v) \/ Reads(v)'
<1>1. CASE PutThread(w, IdleThread)
  <2>1. /\ thread' \in [Threads -> ThreadType] /\ thread'[w] = IdleThread
        /\ \A v \in Threads : v # w => thread'[v] = thread[v]
    BY <1>1, IdleTyped, ThreadPut DEF RenewalInv
  <2>2. Reads(w)'
    BY <2>1, IdleTyped, IdleReads
  <2>3. \A v \in Threads : v # w => LeftAlone(v)
    BY <2>1 DEF LeftAlone
  <2> QED BY <2>1, <2>2, <2>3
<1>2. CASE PutWallet(w, IdleThread)
  BY <1>2, WalletRested
<1> QED BY <1>1, <1>2

WithStatus(s, stop, status) == [s EXCEPT !.cancel = stop, !.status = status]

\* The subscription is written back with another status: its cycle is not
\* touched, and its events follow what the writer holds.
LEMMA PlainWrite ==
    ASSUME RenewalAssumption, RenewalInv, NEW w \in Threads, Reading(w),
           NEW stop \in BOOLEAN, NEW status \in {"active", "cancel_scheduled", "canceled", "expired"},
           status = "active" => ~stop,
           NEW s, s = WithStatus(thread[w].sub, stop, status),
           sub' = Written(w, s), outdated' = Outdated(w), UNCHANGED <<now, bill, choices, faults>>,
           \/ event' = Synced(event, s)
           \/ /\ thread[w].ev \in DOMAIN event /\ thread[w].ev[2] <= now
              /\ event' = Ended(Synced(event, s), w, "succeeded"),
           PutThread(w, IdleThread) \/ PutWallet(w, IdleThread)
    PROVE  RenewalInv'
<1>1. /\ choices' \in Nat /\ faults' \in Nat /\ outdated \in BOOLEAN /\ sub \in SubType /\ now' = now
  BY WhatItIs
<1>2. outdated' \in BOOLEAN /\ (outdated' \/ (~outdated /\ sub = thread[w].sub))
  BY <1>1 DEF Outdated
<1>3. /\ thread[w].sub \in SubType /\ Whole(thread[w].sub)
      /\ thread[w].sub.end = sub.end \/ Billed(thread[w].sub.end)
  BY DEF RenewalInv, Reads, Working, SubRead
<1>4. /\ s \in SubType /\ s.start = thread[w].sub.start /\ s.end = thread[w].sub.end
      /\ s.bill = thread[w].sub.bill /\ s.status = status /\ s.cancel = stop
  BY <1>3 DEF SubType, WithStatus
<1>5. /\ sub' \in SubType /\ sub'.start = sub.start /\ sub'.end = sub.end /\ sub'.bill = sub.bill
      /\ sub = thread[w].sub => sub' = s
  <2>1. /\ Written(w, s) \in SubType
        /\ Written(w, s).start = IF s.start = thread[w].sub.start THEN sub.start ELSE s.start
        /\ Written(w, s).end = IF s.end = thread[w].sub.end THEN sub.end ELSE s.end
        /\ Written(w, s).bill = IF s.bill = thread[w].sub.bill THEN sub.bill ELSE s.bill
        /\ sub = thread[w].sub => Written(w, s) = s
    BY <1>1, <1>3, <1>4, WrittenColumns
  <2> QED BY <1>4, <2>1
<1>6. BillsGo /\ NoneMade /\ SameCycle(sub', sub)
  BY <1>5, OrdersStay DEF SameCycle
<1>7. Whole(s) /\ (s.end = sub'.end \/ Billed(s.end))
  <2>1. PICK x : x = s.end
    OBVIOUS
  <2>2. x = sub.end \/ Billed(x)
    BY <1>3, <1>4, <2>1
  <2> QED BY <1>3, <1>4, <1>5, <2>1, <2>2 DEF Whole
<1>8. EventsGo
  BY <1>4, <1>7, SyncedGo
<1>9. Chain'
  BY <1>6, <1>8, ChainKept
<1>10. outdated' \/ sub' = s
  BY <1>2, <1>5
<1>11. Consistent'
  BY <1>4, <1>10 DEF Consistent
<1>12. Ends'
  BY <1>1, <1>2, <1>4, <1>7, <1>10, <1>11, EndsSynced
<1>13. /\ thread' \in [Threads -> ThreadType]
       /\ \A v \in Threads : LeftAlone(v) \/ Reads(v)'
  BY <1>6, CycleRested
<1> QED BY <1>1, <1>2, <1>5, <1>6, <1>8, <1>9, <1>12, <1>13, Together

LEMMA DecideKeeps ==
    ASSUME RenewalAssumption, RenewalInv, NEW w \in Threads, Decide(w)
    PROVE  RenewalInv'
<1>1. thread[w].pc \in {"stop", "resume"} /\ UNCHANGED <<now, bill, choices, faults>>
  BY DEF Decide
<1>2. PICK stop \in BOOLEAN, status \in {"active", "cancel_scheduled"} :
          LET s == WithStatus(thread[w].sub, stop, status) IN
          /\ status = "active" => ~stop
          /\ sub' = Written(w, s) /\ event' = Synced(event, s) /\ outdated' = Outdated(w)
          /\ PutThread(w, IdleThread)
  <2>1. CASE thread[w].pc = "stop"
    <3>1. /\ (TRUE <=> thread[w].pc = "stop")
      BY <2>1
    <3> WITNESS TRUE \in BOOLEAN, "cancel_scheduled" \in {"active", "cancel_scheduled"}
    <3> QED BY <2>1, Zenon DEF Decide, WithStatus
  <2>2. CASE thread[w].pc # "stop"
    <3> WITNESS FALSE \in BOOLEAN, "active" \in {"active", "cancel_scheduled"}
    <3> QED BY <2>2, Zenon DEF Decide, WithStatus
  <2> QED BY <2>1, <2>2
<1>3. Reading(w)
  BY <1>1 DEF Reading
<1>4. status \in {"active", "cancel_scheduled", "canceled", "expired"}
  OBVIOUS
<1> QED BY <1>1, <1>2, <1>3, <1>4, PlainWrite

\* What a worker knows of the event whose task it runs.
LEMMA TaskKnows ==
    ASSUME RenewalInv, NEW w \in Threads, NEW type \in Types, thread[w].pc = type
    PROVE  /\ thread[w].ev \in DOMAIN event /\ thread[w].ev[2] \in Nat /\ thread[w].ev[2] <= now
           /\ Reading(w) /\ thread[w].sub \in SubType
           /\ thread[w].bills \in [Bills -> BillType]
<1>1. Reads(w) /\ Rows(event)
  BY WhatItIs DEF RenewalInv
<1> QED BY <1>1 DEF Reads, Working, Reading, ReadsBills, Types, Rows

\* There is nothing left to do at the boundary.
LEMMA CompleteKeeps ==
    ASSUME RenewalAssumption, RenewalInv, NEW w \in Threads, NEW type \in Types,
           thread[w].pc = type, Complete(w), UNCHANGED <<now, choices, faults>>
    PROVE  RenewalInv'
<1>1. /\ UNCHANGED <<sub, bill, outdated>> /\ Mine(w) /\ PutThread(w, IdleThread)
      /\ event' = Ended(event, w, "succeeded")
  BY DEF Complete
<1>2. thread[w].ev \in DOMAIN event /\ thread[w].ev[2] <= now
  BY TaskKnows
<1>3. EventsGo /\ EventsWait
  BY <1>1, <1>2, EndedInTime
<1>4. /\ thread' \in [Threads -> ThreadType]
      /\ \A v \in Threads : LeftAlone(v) \/ Reads(v)'
  BY <1>1, Rested
<1>5. BillsGo /\ NoneMade /\ choices' \in Nat /\ faults' \in Nat
  BY <1>1, OrdersStay, WhatItIs
<1> QED BY <1>1, <1>3, <1>4, <1>5, QuietStep

LEMMA CancelEffectiveKeeps ==
    ASSUME RenewalAssumption, RenewalInv, NEW w \in Threads, CancelEffective(w)
    PROVE  RenewalInv'
<1>1. thread[w].pc = "cancel" /\ UNCHANGED <<now, choices, faults>> /\ "cancel" \in Types
  BY DEF CancelEffective, Types
<1>2. CASE Complete(w)
  BY <1>1, <1>2, CompleteKeeps
<1>3. CASE ~Complete(w)
  <2>1. PICK s : /\ s = [thread[w].sub EXCEPT !.cancel = TRUE, !.status = "canceled"]
                 /\ Become(w, s) /\ PutThread(w, IdleThread) /\ bill' = bill
    BY <1>3 DEF CancelEffective
  <2>2. thread[w].ev \in DOMAIN event /\ thread[w].ev[2] <= now /\ Reading(w)
    BY <1>1, TaskKnows
  <2>3. /\ sub' = Written(w, s) /\ event' = Ended(Synced(event, s), w, "succeeded")
        /\ outdated' = Outdated(w)
    BY <2>1 DEF Become
  <2>4. s = WithStatus(thread[w].sub, TRUE, "canceled")
    BY <2>1 DEF WithStatus
  <2> QED BY <1>1, <2>1, <2>2, <2>3, <2>4, PlainWrite
<1> QED BY <1>2, <1>3

LEMMA ExpireSubscriptionKeeps ==
    ASSUME RenewalAssumption, RenewalInv, NEW w \in Threads, thread[w].pc = "expire",
           ExpireSubscription(w), UNCHANGED <<now, choices, faults>>
    PROVE  RenewalInv'
<1>1. "expire" \in Types
  BY DEF Types
<1>2. /\ thread[w].ev \in DOMAIN event /\ thread[w].ev[2] <= now /\ Reading(w)
      /\ thread[w].sub \in SubType
  BY <1>1, TaskKnows
<1>3. PICK s : s = [thread[w].sub EXCEPT !.status = "expired"]
  OBVIOUS
<1>4. /\ sub' = Written(w, s) /\ event' = Ended(Synced(event, s), w, "succeeded")
      /\ outdated' = Outdated(w) /\ bill' = bill
      /\ PutThread(w, IdleThread) \/ PutWallet(w, IdleThread)
  BY <1>3 DEF ExpireSubscription, Become
<1>5. PICK stop \in BOOLEAN : stop = thread[w].sub.cancel
  BY <1>2 DEF SubType
<1>6. s = WithStatus(thread[w].sub, stop, "expired")
  BY <1>2, <1>3, <1>5 DEF SubType, WithStatus
<1> QED BY <1>2, <1>4, <1>6, PlainWrite

\* The one order that is paid for the cycle after the boundary is the next.
LEMMA SuccessorIsNext ==
    ASSUME RenewalAssumption, RenewalInv, NEW w \in Threads, thread[w].pc = "expire",
           thread[w].fresh, ~(thread[w].sub.start >= thread[w].ev[2]), NEW o \in Successors(w)
    PROVE  /\ o \in Bills /\ Exists(o) /\ bill[o].st = "paid" /\ bill[o].start = sub.end
           /\ From(bill[o]) = thread[w].ev[2] /\ From(thread[w].bills[o]) = thread[w].ev[2]
           /\ sub.start < thread[w].ev[2] /\ SameCycle(thread[w].sub, sub)
<1>1. "expire" \in Types
  BY DEF Types
<1>2. /\ thread[w].ev[2] \in Nat /\ Reading(w) /\ thread[w].sub \in SubType
      /\ thread[w].bills \in [Bills -> BillType]
  BY <1>1, TaskKnows
<1>3. SubRead(w) /\ BillsRead(w) /\ ReadsBills(w)
  BY <1>1 DEF RenewalInv, Reads, ReadsBills
<1>4. /\ o \in Bills /\ thread[w].bills[o].st = "paid" /\ From(thread[w].bills[o]) = thread[w].ev[2]
  BY DEF Successors
<1>5. PICK time \in Nat : time = thread[w].ev[2]
  BY <1>2
<1> DEFINE read == thread[w].bills[o]
<1> HIDE DEF read
<1>6. BillRead(read, bill[o])
  BY <1>3, <1>4 DEF BillsRead, read
<1>7. bill[o].st = "paid" /\ bill[o].at = read.at /\ bill[o].start = read.start
  BY <1>4, <1>6 DEF BillRead, read
<1>8. From(bill[o]) = time
  BY <1>4, <1>5, <1>7 DEF From, read
<1>9. SameCycle(thread[w].sub, sub)
  BY <1>2, <1>3 DEF SubRead
<1>10. sub.start < time /\ sub.start \in Nat
  BY <1>5, <1>9, WhatItIs DEF SameCycle, SubType
<1>11. Exists(o)
  BY <1>7 DEF Exists
<1>12. Follows(o) /\ Starts(o)
  BY <1>4 DEF RenewalInv, Chain
<1>13. bill[o].start = sub.end
  BY <1>8, <1>10, <1>11, <1>12 DEF Follows, Starts
<1> QED BY <1>4, <1>5, <1>7, <1>8, <1>9, <1>10, <1>11, <1>13

LEMMA FirstPaidIsIt ==
    ASSUME RenewalAssumption, RenewalInv, NEW w \in Threads, thread[w].pc = "expire",
           thread[w].fresh, ~(thread[w].sub.start >= thread[w].ev[2]), Successors(w) # {}
    PROVE  FirstPaid(w) \in Successors(w)
<1>1. PICK o : o \in Successors(w)
  OBVIOUS
<1>2. \A p \in Successors(w) : p = o
  <2> TAKE p \in Successors(w)
  <2>1. /\ o \in Bills /\ Exists(o) /\ bill[o].start = sub.end
        /\ p \in Bills /\ Exists(p) /\ bill[p].start = sub.end
    BY <1>1, SuccessorIsNext
  <2> QED BY <2>1 DEF RenewalInv, Chain, CycleBilledOnce, Exists
<1>3. o <= o
  BY <1>1, RenewalConstants DEF Successors
<1>4. \E q \in Successors(w) : \A p \in Successors(w) :
          \/ thread[w].bills[q].at < thread[w].bills[p].at
          \/ thread[w].bills[q].at = thread[w].bills[p].at /\ q <= p
  BY <1>1, <1>2, <1>3
<1> QED BY <1>4 DEF FirstPaid

LEMMA ActivatePaidKeeps ==
    ASSUME RenewalAssumption, RenewalInv, NEW w \in Threads, thread[w].pc = "expire",
           ~(thread[w].sub.start >= thread[w].ev[2]), Successors(w) # {}, ActivatePaid(w),
           UNCHANGED <<now, choices, faults>>
    PROVE  RenewalInv'
<1>1. PICK o, r, s :
          o = FirstPaid(w) /\ r = thread[w].bills[o] /\ s = Activated(thread[w].sub, o, r)
  OBVIOUS
<1>2. /\ thread[w].fresh /\ sub' = Written(w, s) /\ outdated' = Outdated(w)
      /\ event' = Ended(Synced(event, s), w, "succeeded")
      /\ bill' = [bill EXCEPT ![o].grant = "available"] /\ PutWallet(w, IdleThread)
  BY <1>1 DEF ActivatePaid, Become
<1>3. "expire" \in Types
  BY DEF Types
<1>4. /\ thread[w].ev \in DOMAIN event /\ thread[w].ev[2] \in Nat /\ thread[w].ev[2] <= now
      /\ thread[w].sub \in SubType /\ thread[w].bills \in [Bills -> BillType]
  BY <1>3, TaskKnows
<1>5. o \in Successors(w)
  BY <1>1, <1>2, FirstPaidIsIt
<1>6. /\ o \in Bills /\ Exists(o) /\ bill[o].st = "paid" /\ bill[o].start = sub.end
      /\ From(bill[o]) = From(r) /\ sub.start < From(r) /\ SameCycle(thread[w].sub, sub)
  BY <1>1, <1>2, <1>5, SuccessorIsNext
<1>7. r \in BillType
  BY <1>1, <1>4, <1>6
<1>8. /\ s \in SubType /\ Whole(s) /\ s.start = From(r) /\ s.end = From(r) + Length /\ s.bill = o
      /\ s.cancel = thread[w].sub.cancel /\ (s.status = "active" => ~s.cancel)
  <2>1. /\ s \in SubType /\ Whole(s) /\ s.start = From(r) /\ s.end = From(r) + Length /\ s.bill = o
        /\ s.cancel = thread[w].sub.cancel /\ (s.status = "active" => ~thread[w].sub.cancel)
    BY <1>1, <1>4, <1>6, <1>7, ActivatedIs
  <2> QED BY <2>1
<1>9. sub \in SubType /\ outdated \in BOOLEAN /\ bill \in [Bills -> BillType]
  BY WhatItIs
<1>10. /\ sub' \in SubType /\ sub'.start = s.start /\ sub'.end = s.end /\ sub'.bill = s.bill
       /\ sub = thread[w].sub => sub' = s
  BY <1>2, <1>4, <1>6, <1>8, <1>9, WrittenColumns DEF SameCycle
<1>11. outdated' \in BOOLEAN /\ (outdated' \/ sub' = s)
  BY <1>2, <1>9, <1>10 DEF Outdated
<1>12. BillsGo /\ NoneMade /\ bill'[o].st = "paid" /\ From(bill'[o]) = From(bill[o])
  <2> DEFINE row == [bill[o] EXCEPT !.grant = "available"]
  <2>1. bill[o] # NoBill
    BY <1>6 DEF NoBill
  <2>2. row \in BillType /\ row.st = bill[o].st /\ row.start = bill[o].start /\ row.at = bill[o].at
    BY <1>6, <1>9, <2>1 DEF BillType
  <2>3. bill' = [bill EXCEPT ![o] = row]
    BY <1>2
  <2> HIDE DEF row
  <2>4. /\ bill' \in [Bills -> BillType]
        /\ \A p \in Bills : /\ bill'[p].st = bill[p].st /\ bill'[p].start = bill[p].start
                            /\ bill'[p].at = bill[p].at
    BY <1>6, <1>9, <2>2, <2>3
  <2> QED BY <1>6, <2>4 DEF BillsGo, NoneMade, Exists, From
<1>13. EventsGo
  BY <1>2, <1>4, <1>8, <1>10, SyncedGo
<1>14. Chain' /\ Billed(sub.end)
  BY <1>6, <1>8, <1>10, <1>12, <1>13, ChainMoves
<1>15. Consistent'
  BY <1>8, <1>11 DEF Consistent
<1>16. Ends'
  BY <1>2, <1>4, <1>8, <1>11, <1>15, EndsSynced
<1>17. /\ thread' \in [Threads -> ThreadType]
       /\ \A v \in Threads : LeftAlone(v) \/ Reads(v)'
  BY <1>2, <1>14, WalletRested
<1>18. choices' \in Nat /\ faults' \in Nat
  BY WhatItIs
<1> QED BY <1>10, <1>11, <1>12, <1>13, <1>14, <1>16, <1>17, <1>18, Together

LEMMA ExpireCycleKeeps ==
    ASSUME RenewalAssumption, RenewalInv, NEW w \in Threads, ExpireCycle(w)
    PROVE  RenewalInv'
<1>1. thread[w].pc = "expire" /\ UNCHANGED <<now, choices, faults>> /\ "expire" \in Types
  BY DEF ExpireCycle, Types
<1>2. CASE Complete(w)
  BY <1>1, <1>2, CompleteKeeps
<1>3. CASE ~(thread[w].sub.start >= thread[w].ev[2]) /\ Successors(w) # {} /\ ActivatePaid(w)
  BY <1>1, <1>3, ActivatePaidKeeps
<1>4. CASE ExpireSubscription(w)
  BY <1>1, <1>4, ExpireSubscriptionKeeps
<1> QED BY <1>2, <1>3, <1>4 DEF ExpireCycle

------------------------------------------------------------------------------
(* The theorems.                                                           *)

LEMMA RenewalInitHolds ==
    ASSUME RenewalAssumption, RenewalInit
    PROVE  RenewalInv
<1> DEFINE none == [e \in {} |-> NewEvent]
<1>1. Rows(none) /\ DOMAIN none = {}
  BY DEF Rows
<1> HIDE DEF none
<1>2. FirstCycle \in SubType /\ Whole(FirstCycle)
  BY RenewalConstants DEF FirstCycle, SubType, Whole
<1>3. /\ now = 0 /\ sub = FirstCycle /\ bill = [o \in Bills |-> NoBill]
      /\ event = Synced(none, FirstCycle) /\ thread = [w \in Threads |-> IdleThread]
      /\ choices = 0 /\ faults = 0 /\ outdated = FALSE
  BY DEF RenewalInit, none
<1>4. /\ Rows(event) /\ Kept(none, event)
      /\ \A t \in Nat : <<"renewal", t>> \in DOMAIN event => t + Lead = sub.end
      /\ Waits(event, "expire", sub.end)
  <2>1. /\ Rows(event) /\ Kept(none, event)
        /\ \A t \in Nat : <<"renewal", t>> \in DOMAIN event
              => <<"renewal", t>> \in DOMAIN none \/ t + Lead = sub.end
        /\ sub.status = "active" /\ ~sub.cancel
              => Waits(event, "expire", sub.end) \/ Has(none, <<"expire", sub.end>>, {"succeeded"})
    BY <1>1, <1>2, <1>3, SyncedKeeps
  <2>2. sub.status = "active" /\ ~sub.cancel
    BY <1>3 DEF FirstCycle
  <2> QED BY <1>1, <2>1, <2>2 DEF Has
<1>5. \A e \in DOMAIN event : event[e].st # "succeeded"
  BY <1>1, <1>4 DEF Kept
<1>6. \A o \in Bills : bill[o] = NoBill /\ ~Exists(o)
  BY <1>3 DEF Exists, NoBill
<1>7. RenewalTypeOK
  BY <1>2, <1>3, <1>4, IdleTyped DEF RenewalTypeOK, Rows, BillType
<1>8. Chain
  <2>1. \A o \in Bills : Follows(o) /\ Starts(o) /\ MadeOnce(o)
    BY <1>3, <1>6, RenewalConstants DEF Follows, Starts, MadeOnce, FirstCycle
  <2>2. CycleBilledOnce
    BY <1>6 DEF CycleBilledOnce, Exists
  <2>3. \A t \in Nat : Timely(t)
    BY <1>4 DEF Timely
  <2> QED BY <1>2, <1>3, <2>1, <2>2, <2>3 DEF Chain
<1>9. \A w \in Threads : Reads(w)
  BY <1>3, IdleTyped DEF Reads, Working, SubRead, BillsRead, Reading, ReadsBills, Types
<1>10. Ends
  <2>1. \A t \in Nat : InTime("expire", t) /\ InTime("cancel", t)
    BY <1>5 DEF InTime, Has
  <2>2. Consistent
    BY <1>3 DEF Consistent, FirstCycle
  <2>3. EndIsScheduled
    BY <1>3, <1>4 DEF EndIsScheduled, Waits, FirstCycle
  <2> QED BY <2>1, <2>2, <2>3 DEF Ends
<1> QED BY <1>7, <1>8, <1>9, <1>10 DEF RenewalInv

\* Transactions that overlap, claims that are recovered while their worker is
\* alive, payments told again and users who change their minds leave the chain
\* of orders, what the transactions read of it, and the end in sight.
THEOREM RenewalInvariant == RenewalAssumption => (RenewalSpec => []RenewalInv)
<1> SUFFICES ASSUME RenewalAssumption PROVE RenewalSpec => []RenewalInv
  OBVIOUS
<1>1. RenewalInit => RenewalInv
  BY RenewalInitHolds
<1>2. RenewalInv /\ [RenewalNext]_renewalVars => RenewalInv'
  <2> SUFFICES ASSUME RenewalInv, [RenewalNext]_renewalVars PROVE RenewalInv'
    OBVIOUS
  <2>1. CASE Tick
    BY <2>1, TickKeeps
  <2>2. ASSUME NEW e \in DOMAIN event, Recover(e) \/ \E w \in Threads : Claim(w, e)
        PROVE  RenewalInv'
    BY <2>2, RecoverKeeps, ClaimKeeps
  <2>3. ASSUME NEW o \in Bills, Checkout(o) \/ PayBill(o) \/ \E w \in Threads : Notify(w, o)
        PROVE  RenewalInv'
    BY <2>3, TradeKeeps, NotifyKeeps
  <2>4. ASSUME NEW w \in Threads, Open(w) \/ RollBack(w) \/ Renew(w) \/ SettleBill(w)
        PROVE  RenewalInv'
    BY <2>4, OpenKeeps, RollBackKeeps, RenewKeeps, SettleBillKeeps
  <2>5. ASSUME NEW w \in Threads, ExpireCycle(w) \/ CancelEffective(w) \/ Decide(w)
        PROVE  RenewalInv'
    BY <2>5, ExpireCycleKeeps, CancelEffectiveKeeps, DecideKeeps
  <2>6. ASSUME NEW w \in Threads, Choose(w, "stop") \/ Choose(w, "resume")
        PROVE  RenewalInv'
    BY <2>6, ChooseKeeps
  <2>7. CASE UNCHANGED renewalVars
    <3>1. /\ UNCHANGED <<now, sub, bill, event, thread, choices, faults, outdated>>
      BY <2>7 DEF renewalVars
    <3>2. /\ BillsGo /\ NoneMade /\ EventsGo /\ EventsWait /\ choices' \in Nat /\ faults' \in Nat
      BY <3>1, OrdersStay, NoRowChanges, WhatItIs DEF SameCycle
    <3>3. thread' \in [Threads -> ThreadType] /\ \A v \in Threads : LeftAlone(v)
      BY <3>1, LeftAsItWas, WhatItIs
    <3> QED BY <3>1, <3>2, <3>3, QuietStep
  <2> QED BY <2>1, <2>2, <2>3, <2>4, <2>5, <2>6, <2>7 DEF RenewalNext
<1> QED BY <1>1, <1>2, PTL DEF RenewalSpec

\* The rows, and what transactions hold of them, are what the code's models
\* declare.
THEOREM RenewalTyped == RenewalAssumption => (RenewalSpec => []RenewalTypeOK)
<1>1. RenewalInv => RenewalTypeOK
  BY DEF RenewalInv
<1> QED BY <1>1, RenewalInvariant, PTL

\* A renewal is charged once: a cycle has one order, whichever workers run the
\* event that makes it, and whoever pays or cancels meanwhile.
THEOREM OrderedOnce == RenewalAssumption => (RenewalSpec => []CycleBilledOnce)
<1>1. RenewalInv => CycleBilledOnce
  BY DEF RenewalInv, Chain
<1> QED BY <1>1, RenewalInvariant, PTL

\* A cycle that is on has the event that ends it waiting or worked on, of the
\* kind the last decision asks for, while no writer used a stale subscription.
THEOREM EndInSight == RenewalAssumption => (RenewalSpec => []EndIsScheduled)
<1>1. RenewalInv => EndIsScheduled
  BY DEF RenewalInv, Ends
<1> QED BY <1>1, RenewalInvariant, PTL

\* A worker that still owns the event it renews by finds no order of the cycle
\* it is about to make one for: what the code does about an order it finds is
\* for orders that other paths make.
THEOREM RenewalMeetsNoOrder ==
    RenewalAssumption => (RenewalSpec =>
        [](\A w \in Threads : thread[w].pc = "renewal" /\ Mine(w)
                => \A o \in Bills : bill[o].st # "none" => bill[o].start # sub.end))
<1> SUFFICES ASSUME RenewalAssumption
             PROVE  RenewalSpec =>
                [](\A w \in Threads : thread[w].pc = "renewal" /\ Mine(w)
                      => \A o \in Bills : bill[o].st # "none" => bill[o].start # sub.end)
  OBVIOUS
<1>1. RenewalInv =>
        \A w \in Threads : thread[w].pc = "renewal" /\ Mine(w)
            => \A o \in Bills : bill[o].st # "none" => bill[o].start # sub.end
  <2> SUFFICES ASSUME RenewalInv, NEW w \in Threads, thread[w].pc = "renewal", Mine(w)
               PROVE  \A o \in Bills : bill[o].st # "none" => bill[o].start # sub.end
    OBVIOUS
  <2>1. /\ thread[w].ev \in DOMAIN event /\ thread[w].ev[1] = "renewal"
        /\ event[thread[w].ev].st = "processing"
    BY DEF RenewalInv, Reads, Working, Mine, Types
  <2>2. PICK t \in Nat : thread[w].ev = <<"renewal", t>>
    BY <2>1, WhatItIs DEF Rows
  <2>3. ~Billed(sub.end)
    BY <2>1, <2>2, NotOverNotBilled
  <2> QED BY <2>3 DEF Billed, Exists
<1> QED BY <1>1, RenewalInvariant, PTL

=============================================================================
