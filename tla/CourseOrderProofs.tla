-------------------------- MODULE CourseOrderProofs --------------------------
(***************************************************************************)
(* What CourseOrder promises of money, for any number of workers, orders,  *)
(* attempts, prices and crashes.  The argument is about the attempts that  *)
(* are alive at a provider: an order has one at most, and none when it is  *)
(* open for another.  A worker that closes them holds the lifecycle lock,  *)
(* and what it claimed is all there is.                                    *)
(***************************************************************************)
EXTENDS CourseOrder, FiniteSetTheorems, WellFoundedInduction, TLAPS

Statuses == {"none", "INIT", "TO_BE_PAID", "REPRICING", "SUCCESS", "REFUND", "TIMEOUT"}
Under == {"close", "cancel", "restore", "issue", "apply", "undo"}
Knowing == {"sync", "callback", "webhook", "refund"}
Places == {"idle", "new", "replace", "refresh"} \cup Under \cup Knowing
Remotes == {"open", "paid", "closed", "refunded"}

OrderType == [status : Statuses, price : Nat, channel : Channels \cup {"none"},
              coupon : BOOLEAN]
AttemptType == [of : Orders, channel : Channels, amount : Nat,
                snap : {"pending", "failed", "closed", "paid", "refunded"},
                remote : Remotes]
WorkerType == [pc : Places, op : {"none", "charge", "coupon"}, of : Orders \cup {0},
               channel : Channels \cup {"none"}, seen : Statuses \cup Remotes,
               claimed : SUBSET Attempts, left : SUBSET Attempts]

TypeOK ==
    /\ order \in [Orders -> OrderType]
    /\ att \in [Attempts -> AttemptType \cup {NoAttempt}]
    /\ expired \subseteq Orders
    /\ holder \in [Orders -> SUBSET Workers]
    /\ worker \in [Workers -> WorkerType]
    /\ crashes \in Nat
    /\ raced \subseteq Orders /\ overlooked \subseteq Orders /\ overtaken \subseteq Orders

Alive(a) == att[a].remote \in {"open", "paid"}
NoneAlive(o) == \A a \in AttemptsOf(o) : ~Alive(a)
StatusOf(w) == order[worker[w].of].status
At(w, places) == worker[w].pc \in places

\* What a worker remembers: the order it works for, under that order's lock
\* where it takes it, and an attempt whose payment or end it has seen.
Knows(w, a) ==
    /\ worker[w].left = {a} /\ att[a].of = worker[w].of
    /\ At(w, {"sync"}) =>
        /\ worker[w].seen = "paid" => Taken(a)
        /\ worker[w].seen = "closed" => att[a].remote = "closed"
    /\ At(w, {"callback"}) => Taken(a) /\ att[a].channel = "pingxx"
    /\ At(w, {"webhook"}) => Taken(a)
Remembers(w) ==
    /\ ~At(w, {"idle", "new"}) => worker[w].of \in Orders /\ Made(worker[w].of)
    /\ At(w, {"replace", "refresh"}) => worker[w].seen \in {"INIT", "TO_BE_PAID"}
    /\ At(w, Under) => holder[worker[w].of] = {w}
    /\ At(w, {"close", "cancel"}) => worker[w].claimed \subseteq AttemptsOf(worker[w].of)
    /\ worker[w].op = "charge" => worker[w].channel \in Channels
    /\ At(w, {"issue"}) => worker[w].op = "charge"
    /\ At(w, Knowing) => \E a \in Attempts : Knows(w, a)

\* An attempt belongs to an order that exists.
Belongs(a) == att[a] # NoAttempt => Made(att[a].of)

\* Orders whose payment their status does not tell.
Astray == overlooked \cup overtaken

\* The attempts of an order that is not astray.
OneAlive(o) == \A a, b \in AttemptsOf(o) : Alive(a) /\ Alive(b) => a = b
OpenHasNone(o) == order[o].status = "INIT" => NoneAlive(o)
AliveIsCurrent(o) ==
    order[o].status \in {"TO_BE_PAID", "REPRICING"} =>
        \A a \in AttemptsOf(o) : Alive(a) => Pending(a) /\ att[a].channel = order[o].channel
Charges(o) == o \notin Astray => OneAlive(o) /\ OpenHasNone(o) /\ AliveIsCurrent(o)

\* The holder of the lock knows what there is to close, and what is left of it.
AllIn(o, S) == \A a \in AttemptsOf(o) : Alive(a) => a \in S
Holds(w) ==
    /\ At(w, {"cancel", "issue", "apply", "undo"}) => StatusOf(w) # "TO_BE_PAID"
    /\ worker[w].of \notin Astray =>
        /\ At(w, {"close"}) /\ StatusOf(w) \in {"TO_BE_PAID", "REPRICING"} =>
                AllIn(worker[w].of, worker[w].claimed)
        /\ At(w, {"cancel"}) /\ StatusOf(w) = "REPRICING" =>
                AllIn(worker[w].of, worker[w].left)
        /\ At(w, {"apply", "undo"}) /\ StatusOf(w) = "REPRICING" => NoneAlive(worker[w].of)

PaidFor(o) == o \notin raced /\ order[o].status = "SUCCESS" /\ order[o].price > 0 =>
    \E a \in AttemptsOf(o) : Taken(a)

Inv ==
    /\ TypeOK
    /\ \A w \in Workers : Remembers(w) /\ Holds(w)
    /\ \A a \in Attempts : Belongs(a)
    /\ \A o \in Orders : Charges(o) /\ PaidFor(o)

LEMMA MaxOf ==
    ASSUME NEW S \in SUBSET Nat, NEW n \in Nat, \A x \in S : x <= n, S # {}
    PROVE  Max(S) \in S /\ \A x \in S : x <= Max(S)
<1> DEFINE T == {n - x : x \in S}
<1>1. T \subseteq Nat /\ T # {}
  <2>1. \A x \in S : n - x \in Nat
    OBVIOUS
  <2> QED BY <2>1
<1>2. PICK t \in T : \A y \in T : ~ (<<y, t>> \in OpToRel(<, Nat))
  <2> HIDE DEF T
  <2> QED BY <1>1, NatLessThanWellFounded, WFMin
<1>3. \A y \in T : t <= y
  <2>1. \A y \in T : y < t => <<y, t>> \in OpToRel(<, Nat)
    <3> HIDE DEF T
    <3> QED BY <1>1 DEF OpToRel
  <2> HIDE DEF T
  <2>2. \A y \in T : ~ (y < t)
    BY <1>2, <2>1, Zenon
  <2> QED BY <1>1, <2>2
<1>4. PICK m \in S : t = n - m
  OBVIOUS
<1>5. \A x \in S : m >= x
  BY <1>3, <1>4
<1>6. Max(S) \in S /\ \A x \in S : Max(S) >= x
  BY <1>5, Zenon DEF Max
<1> QED BY <1>6

LEMMA MaxOfOne == ASSUME NEW a \in Attempts, OrderAssumption PROVE Max({a}) = a
BY DEF Max, Attempts, OrderAssumption

\* The newest attempt of a channel is one of the order's on it.
LEMMA LatestIsOne ==
    ASSUME OrderAssumption, NEW o \in Orders, NEW ch, Latest(o, ch) # 0
    PROVE  /\ Latest(o, ch) \in AttemptsOf(o)
           /\ att[Latest(o, ch)].channel = ch
<1> DEFINE S == {0} \cup {a \in AttemptsOf(o) : att[a].channel = ch}
<1>1. S \in SUBSET Nat /\ \A x \in S : x <= MaxAttempts
  BY DEF AttemptsOf, Attempts, OrderAssumption
<1>2. Max(S) \in S
  <2> HIDE DEF S
  <2>1. MaxAttempts \in Nat
    BY DEF OrderAssumption
  <2>2. S # {}
    BY DEF S
  <2> QED BY <1>1, <2>1, <2>2, MaxOf
<1> QED BY <1>2 DEF Latest

LEMMA NothingTyped ==
    OrderAssumption => NoOrder \in OrderType /\ Idle \in WorkerType
BY DEF NoOrder, OrderType, Idle, WorkerType, Statuses, Places, Remotes

------------------------------------------------------------------------------
(* What a step may do, and why that keeps the invariant.                   *)

\* No step undoes an end or a payment, or revives an attempt.
Kept(a) ==
    /\ att'[a].of = att[a].of /\ att'[a].channel = att[a].channel
    /\ Taken(a) => Taken(a)'
    /\ att[a].remote = "closed" => att'[a].remote = "closed"
    /\ Alive(a)' => Alive(a)

\* The workers outside W are where they were, with the locks they hold.
OthersKept(W) == \A v \in Workers \ W :
    /\ worker'[v] = worker[v]
    /\ worker[v].of \in Orders /\ holder[worker[v].of] = {v} =>
            holder'[worker[v].of] = {v}

Open == {"INIT", "TO_BE_PAID", "REPRICING"}
SnapsKept(o) == \A a \in AttemptsOf(o) : Alive(a) /\ Pending(a) => Pending(a)'
SameChannel(o) == order'[o].channel = order[o].channel

\* An open order stays as it was, or the worker that holds its lock moves it.
Moves(W, o) ==
    /\ \E w \in W : worker[w].of = o /\ At(w, Under)
    /\ \/ o \in Astray' \/ NoneAlive(o)
       \/ /\ {order[o].status, order'[o].status} \subseteq {"TO_BE_PAID", "REPRICING"}
          /\ SameChannel(o) /\ SnapsKept(o)
OrderStep(W, o) ==
    /\ Made(o) => Made(o)'
    /\ \/ order'[o].status \notin Open
       \/ /\ order'[o].status = order[o].status /\ SameChannel(o)
          /\ o \in Astray' \/ SnapsKept(o)
       \/ ~Made(o)
       \/ Moves(W, o)
    /\ order'[o].status = "SUCCESS" /\ order'[o].price > 0 /\ o \notin raced' =>
        \/ order[o].status = "SUCCESS" /\ order[o].price > 0
        \/ \E a \in AttemptsOf(o) : Taken(a)'

AllKept == \A a \in Attempts : Kept(a)
Step(W) ==
    /\ TypeOK' /\ AllKept /\ OthersKept(W)
    /\ overlooked \subseteq overlooked' /\ overtaken \subseteq overtaken' /\ raced \subseteq raced'
    /\ \A o \in Orders : OrderStep(W, o)

LEMMA OrderIsNotZero == OrderAssumption => 0 \notin Orders
BY DEF OrderAssumption, Orders

LEMMA AttemptFacts ==
    ASSUME OrderAssumption, TypeOK, NEW a \in Attempts
    PROVE  /\ att[a].of \in Orders \cup {0}
           /\ att[a].of = 0 => att[a] = NoAttempt
           /\ att[a].of # 0 => att[a] \in AttemptType
           /\ att[a].of = 0 => ~Alive(a) /\ ~Taken(a) /\ att[a].remote = "none"
           /\ att[a].channel # "none" => att[a].of # 0
BY OrderIsNotZero DEF TypeOK, AttemptType, NoAttempt, Alive, Taken

LEMMA OthersRemember ==
    ASSUME OrderAssumption, Inv, NEW W \in SUBSET Workers, Step(W), NEW v \in Workers \ W
    PROVE  Remembers(v)'
<1>1. /\ worker'[v] = worker[v] /\ Remembers(v)
      /\ worker[v].of \in Orders /\ holder[worker[v].of] = {v} => holder'[worker[v].of] = {v}
  BY DEF Inv, Step, OthersKept
<1>2. \A o \in Orders : Made(o) => Made(o)'
  BY DEF Step, OrderStep
<1>3. ASSUME NEW a \in Attempts, Knows(v, a)
      PROVE  Knows(v, a)'
  BY <1>1, <1>3 DEF Knows, At, Step, AllKept, Kept
<1>4. ASSUME At(v, Knowing)'
      PROVE  \E a \in Attempts : Knows(v, a)'
  BY <1>1, <1>3, <1>4 DEF Remembers, At
<1>5. At(v, Under)' => holder'[worker'[v].of] = {v}
  BY <1>1 DEF Remembers, At, Under
<1>6. ~At(v, {"idle", "new"})' => worker'[v].of \in Orders /\ Made(worker[v].of)'
  BY <1>1, <1>2 DEF Remembers, At
<1>7. At(v, {"close", "cancel"})' => worker'[v].claimed \subseteq AttemptsOf(worker[v].of)'
  <2>1. \A o \in Orders : AttemptsOf(o)' = AttemptsOf(o)
    BY DEF Step, AllKept, Kept, AttemptsOf
  <2> QED BY <1>1, <2>1 DEF Remembers, At
<1> QED BY <1>1, <1>4, <1>5, <1>6, <1>7 DEF Remembers, At

LEMMA OthersHold ==
    ASSUME OrderAssumption, Inv, NEW W \in SUBSET Workers, Step(W), NEW v \in Workers \ W
    PROVE  Holds(v)'
<1>1. worker'[v] = worker[v] /\ Remembers(v) /\ Holds(v)
  BY DEF Inv, Step, OthersKept
<1> SUFFICES ASSUME At(v, {"close", "cancel", "issue", "apply", "undo"})
             PROVE  Holds(v)'
  BY <1>1 DEF Holds, At
<1>2. PICK o \in Orders : worker[v].of = o /\ Made(o) /\ holder[o] = {v}
  BY <1>1 DEF Remembers, At, Under
<1>3. ~Moves(W, o)
  <2> SUFFICES ASSUME NEW w \in W, worker[w].of = o, At(w, Under)
               PROVE  FALSE
    BY DEF Moves
  <2>1. holder[o] = {w}
    BY DEF Inv, Remembers
  <2> QED BY <1>2, <2>1
<1>4. order'[o].status \notin Open \/ order'[o].status = order[o].status
  BY <1>2, <1>3 DEF Step, OrderStep
<1>5. \A a \in AttemptsOf(o)' : Alive(a)' => a \in AttemptsOf(o) /\ Alive(a)
  BY DEF AttemptsOf, Step, AllKept, Kept
<1>6. o \notin Astray' => o \notin Astray
  BY DEF Step, Astray
<1>7. \A S : AllIn(o, S) => AllIn(o, S)'
  BY <1>5 DEF AllIn
<1>8. NoneAlive(o) => NoneAlive(o)'
  BY <1>5 DEF NoneAlive
<1> QED BY <1>1, <1>2, <1>4, <1>6, <1>7, <1>8 DEF Holds, At, StatusOf, Open

LEMMA OrdersKeep ==
    ASSUME OrderAssumption, Inv, NEW W \in SUBSET Workers, Step(W), NEW o \in Orders
    PROVE  Charges(o)' /\ PaidFor(o)'
<1>1. /\ Charges(o) /\ PaidFor(o) /\ OrderStep(W, o)
      /\ o \notin Astray' => o \notin Astray
      /\ o \notin raced' => o \notin raced
  BY DEF Inv, Step, Astray
<1>2. AttemptsOf(o)' = AttemptsOf(o)
  BY DEF Step, AllKept, Kept, AttemptsOf
<1>3. \A a \in AttemptsOf(o) :
        /\ Alive(a)' => Alive(a)
        /\ Taken(a) => Taken(a)'
        /\ att'[a].channel = att[a].channel
  BY DEF Step, AllKept, Kept, AttemptsOf
<1>4. PaidFor(o)'
  BY <1>1, <1>2, <1>3 DEF PaidFor, OrderStep
<1>5. ~Made(o) => AttemptsOf(o) = {}
  <2> SUFFICES ASSUME NEW a \in AttemptsOf(o), ~Made(o)
               PROVE  FALSE
    OBVIOUS
  <2>1. a \in Attempts /\ att[a].of = o
    BY DEF AttemptsOf
  <2>2. att[a] # NoAttempt
    BY <2>1, OrderIsNotZero DEF NoAttempt
  <2> QED BY <2>1, <2>2 DEF Inv, Belongs
<1>6. ASSUME o \notin Astray'
      PROVE  OneAlive(o)' /\ OpenHasNone(o)' /\ AliveIsCurrent(o)'
  <2>1. OneAlive(o) /\ OpenHasNone(o) /\ AliveIsCurrent(o) /\ o \notin Astray
    BY <1>1, <1>6 DEF Charges
  <2>2. OneAlive(o)'
    BY <1>2, <1>3, <2>1 DEF OneAlive
  <2>3. CASE NoneAlive(o)
    BY <1>2, <1>3, <2>2, <2>3 DEF OpenHasNone, AliveIsCurrent, NoneAlive
  <2>4. CASE order'[o].status \notin Open
    BY <2>2, <2>4 DEF OpenHasNone, AliveIsCurrent, Open
  <2>5. CASE /\ order'[o].status = order[o].status /\ SameChannel(o)
             /\ SnapsKept(o)
    BY <1>2, <1>3, <2>1, <2>2, <2>5
       DEF OpenHasNone, AliveIsCurrent, NoneAlive, SnapsKept, SameChannel
  <2>6. CASE /\ {order[o].status, order'[o].status} \subseteq {"TO_BE_PAID", "REPRICING"}
             /\ SameChannel(o) /\ SnapsKept(o)
    BY <1>2, <1>3, <2>1, <2>2, <2>6
       DEF OpenHasNone, AliveIsCurrent, NoneAlive, SnapsKept, SameChannel
  <2>7. ~Made(o) => NoneAlive(o)
    BY <1>5 DEF NoneAlive
  <2> QED BY <1>1, <1>6, <2>1, <2>3, <2>4, <2>5, <2>6, <2>7 DEF OrderStep, Moves
<1> QED BY <1>4, <1>6 DEF Charges

LEMMA StepKeeps ==
    ASSUME OrderAssumption, Inv, NEW W \in SUBSET Workers, Step(W),
           \A w \in W : Remembers(w)' /\ Holds(w)'
    PROVE  Inv'
<1>1. \A v \in Workers : Remembers(v)' /\ Holds(v)'
  BY OthersRemember, OthersHold
<1>2. ASSUME NEW a \in Attempts
      PROVE  Belongs(a)'
  <2>1. att'[a].of = att[a].of /\ TypeOK'
    BY DEF Step, AllKept, Kept
  <2>2. \A o \in Orders : Made(o) => Made(o)'
    BY DEF Step, OrderStep
  <2>3. att[a].of # 0 => Made(att[a].of) /\ att[a].of \in Orders
    BY AttemptFacts DEF Inv, Belongs, NoAttempt
  <2>4. att'[a].of = 0 => att'[a] = NoAttempt
    BY <2>1, OrderIsNotZero DEF TypeOK, AttemptType, NoAttempt
  <2> QED BY <2>1, <2>2, <2>3, <2>4 DEF Belongs
<1> QED BY <1>1, <1>2, OrdersKeep DEF Inv, Step

------------------------------------------------------------------------------
(* What the pieces of the actions do.                                      *)

LEMMA Moved ==
    ASSUME TypeOK, NEW w \in Workers, NEW r \in WorkerType, Put(w, r)
    PROVE  /\ worker' \in [Workers -> WorkerType]
           /\ worker'[w] = r
           /\ \A v \in Workers \ {w} : worker'[v] = worker[v]
BY DEF TypeOK, Put

LEMMA Goes ==
    ASSUME TypeOK, NEW w \in Workers, NEW p \in Places, GoTo(w, p)
    PROVE  /\ worker' \in [Workers -> WorkerType]
           /\ worker'[w] = [worker[w] EXCEPT !.pc = p]
           /\ \A v \in Workers \ {w} : worker'[v] = worker[v]
<1>1. [worker[w] EXCEPT !.pc = p] \in WorkerType
  BY DEF TypeOK, WorkerType
<1>2. worker' = [worker EXCEPT ![w] = [worker[w] EXCEPT !.pc = p]]
  BY Zenon DEF GoTo
<1> QED BY <1>1, <1>2 DEF TypeOK

LEMMA HolderSame ==
    ASSUME NEW W \in SUBSET Workers, \A v \in Workers \ W : worker'[v] = worker[v],
           holder' = holder
    PROVE  OthersKept(W)
BY DEF OthersKept

\* An idle worker, and one about to create an order, remembers nothing.
LEMMA Forgets ==
    ASSUME NEW w \in Workers, worker'[w].pc \in {"idle", "new"}, worker'[w].op = "none"
    PROVE  Remembers(w)' /\ Holds(w)'
BY DEF Remembers, Holds, At, Under, Knowing

LEMMA DoneIs ==
    ASSUME OrderAssumption, Inv, NEW w \in Workers, At(w, Under), Done(w)
    PROVE  /\ worker' \in [Workers -> WorkerType]
           /\ holder' \in [Orders -> SUBSET Workers]
           /\ OthersKept({w}) /\ Remembers(w)' /\ Holds(w)'
<1>1. /\ worker' \in [Workers -> WorkerType]
      /\ worker'[w] = Idle
      /\ \A v \in Workers \ {w} : worker'[v] = worker[v]
  BY Moved, NothingTyped DEF Inv, Done
<1>2. PICK o \in Orders : worker[w].of = o /\ holder[o] = {w}
  BY DEF Inv, Remembers, At, Under
<1>3. holder' = [holder EXCEPT ![o] = {}]
  BY <1>2 DEF Done
<1>4. holder' \in [Orders -> SUBSET Workers]
  BY <1>3 DEF Inv, TypeOK
<1>5. OthersKept({w})
  BY <1>1, <1>2, <1>3 DEF Inv, TypeOK, OthersKept
<1>6. Remembers(w)' /\ Holds(w)'
  BY <1>1, Forgets DEF Idle
<1> QED BY <1>1, <1>4, <1>5, <1>6

LEMMA OrderIs ==
    ASSUME TypeOK, NEW o \in Orders, NEW x \in OrderType, order' = [order EXCEPT ![o] = x]
    PROVE  /\ order' \in [Orders -> OrderType]
           /\ order'[o] = x
           /\ \A p \in Orders : p # o => order'[p] = order[p]
BY DEF TypeOK

LEMMA StatusIs ==
    ASSUME TypeOK, NEW o \in Orders, NEW st \in Statuses, SetStatus(o, st)
    PROVE  /\ order' \in [Orders -> OrderType]
           /\ order'[o].status = st /\ order'[o].price = order[o].price
           /\ SameChannel(o)
           /\ \A p \in Orders : p # o => order'[p] = order[p]
<1>1. [order[o] EXCEPT !.status = st] \in OrderType
  BY DEF TypeOK, OrderType
<1>2. order' = [order EXCEPT ![o] = [order[o] EXCEPT !.status = st]]
  BY Zenon DEF SetStatus
<1>3. order[o] \in OrderType
  BY DEF TypeOK
<1> QED BY <1>1, <1>2, <1>3, OrderIs DEF OrderType, SameChannel

\* An order that is given up, with its coupon.
LEMMA ClosedIs ==
    ASSUME TypeOK, NEW o \in Orders, NEW closed,
           closed = [order EXCEPT ![o].status = "TIMEOUT", ![o].coupon = FALSE]
    PROVE  /\ closed \in [Orders -> OrderType]
           /\ closed[o].status = "TIMEOUT"
           /\ \A q \in Orders : q # o => closed[q] = order[q]
<1> DEFINE x == [order[o] EXCEPT !.status = "TIMEOUT", !.coupon = FALSE]
<1>1. order \in [Orders -> OrderType]
  BY DEF TypeOK
<1>2. x \in OrderType /\ x.status = "TIMEOUT"
  BY <1>1 DEF OrderType, Statuses
<1>3. closed = [order EXCEPT ![o] = x]
  BY <1>1
<1> HIDE DEF x
<1> QED BY <1>1, <1>2, <1>3

LEMMA AttIs ==
    ASSUME TypeOK, NEW a \in Attempts, NEW x \in AttemptType, att' = [att EXCEPT ![a] = x]
    PROVE  /\ att' \in [Attempts -> AttemptType \cup {NoAttempt}]
           /\ att'[a] = x
           /\ \A b \in Attempts : b # a => att'[b] = att[b]
BY DEF TypeOK

LEMMA SnapIs ==
    ASSUME TypeOK, NEW a \in Attempts, att[a] \in AttemptType,
           NEW x \in {"pending", "failed", "closed", "paid", "refunded"},
           att' = [att EXCEPT ![a].snap = x]
    PROVE  /\ att' \in [Attempts -> AttemptType \cup {NoAttempt}]
           /\ AllKept /\ \A o \in Orders : o # att[a].of => SnapsKept(o)
           /\ att'[a] = [att[a] EXCEPT !.snap = x]
           /\ \A b \in Attempts : b # a => att'[b] = att[b]
<1>1. [att[a] EXCEPT !.snap = x] \in AttemptType
  BY DEF AttemptType
<1>2. att' = [att EXCEPT ![a] = [att[a] EXCEPT !.snap = x]]
  BY Zenon
<1>3. /\ att' \in [Attempts -> AttemptType \cup {NoAttempt}]
      /\ att'[a] = [att[a] EXCEPT !.snap = x]
      /\ \A b \in Attempts : b # a => att'[b] = att[b]
  BY <1>1, <1>2, AttIs
<1>4. AllKept
  BY <1>3 DEF AllKept, Kept, Taken, Alive, AttemptType
<1>5. \A o \in Orders : o # att[a].of => SnapsKept(o)
  BY <1>3 DEF SnapsKept, AttemptsOf, Pending
<1> QED BY <1>3, <1>4, <1>5

LEMMA RemoteIs ==
    ASSUME TypeOK, NEW a \in Attempts, att[a] \in AttemptType, NEW x \in Remotes,
           att' = [att EXCEPT ![a].remote = x],
           Taken(a) => x \in {"paid", "refunded"},
           att[a].remote = "closed" => x = "closed",
           x \in {"open", "paid"} => Alive(a)
    PROVE  /\ att' \in [Attempts -> AttemptType \cup {NoAttempt}]
           /\ AllKept /\ \A o \in Orders : SnapsKept(o)
           /\ att'[a] = [att[a] EXCEPT !.remote = x]
           /\ \A b \in Attempts : b # a => att'[b] = att[b]
<1>1. [att[a] EXCEPT !.remote = x] \in AttemptType
  BY DEF AttemptType
<1>2. att' = [att EXCEPT ![a] = [att[a] EXCEPT !.remote = x]]
  BY Zenon
<1>3. /\ att' \in [Attempts -> AttemptType \cup {NoAttempt}]
      /\ att'[a] = [att[a] EXCEPT !.remote = x]
      /\ \A b \in Attempts : b # a => att'[b] = att[b]
  BY <1>1, <1>2, AttIs
<1>4. AllKept
  BY <1>3 DEF AllKept, Kept, Taken, Alive, AttemptType
<1>5. \A o \in Orders : SnapsKept(o)
  BY <1>3 DEF SnapsKept, AttemptsOf, Pending, AttemptType
<1> QED BY <1>3, <1>4, <1>5

LEMMA AttSame ==
    ASSUME att' = att
    PROVE  AllKept /\ \A o \in Orders : SnapsKept(o)
BY DEF AllKept, Kept, Taken, Alive, SnapsKept, Pending, AttemptsOf

LEMMA OrderSame ==
    ASSUME NEW W, NEW o \in Orders, order'[o] = order[o], SnapsKept(o) \/ o \in Astray'
    PROVE  OrderStep(W, o)
BY DEF OrderStep, Made, SameChannel

------------------------------------------------------------------------------
(* init_buy_record, and the reads that begin something.                    *)

LEMMA NewestIsOne ==
    ASSUME OrderAssumption, Newest # 0
    PROVE  Newest \in Orders /\ Newest \in Reusable
<1> DEFINE S == {0} \cup Reusable
<1>1. S \in SUBSET Nat /\ (\A x \in S : x <= MaxOrders) /\ S # {} /\ MaxOrders \in Nat
  BY DEF Reusable, Orders, OrderAssumption
<1>2. Max(S) \in S
  <2> HIDE DEF S
  <2> QED BY <1>1, MaxOf
<1> QED BY <1>2 DEF Newest, Reusable

\* A step that only changes what a worker remembers.
LEMMA Begins ==
    ASSUME OrderAssumption, Inv, NEW w \in Workers, NEW r \in WorkerType, Put(w, r),
           UNCHANGED <<order, att, expired, holder, history>>,
           Remembers(w)', Holds(w)'
    PROVE  Inv'
<1>1. TypeOK' /\ OthersKept({w})
  BY Moved, HolderSame DEF Inv, TypeOK, history
<1>2. AllKept /\ \A o \in Orders : OrderStep({w}, o)
  BY AttSame, OrderSame
<1>3. Step({w})
  BY <1>1, <1>2 DEF Step, history
<1> QED BY <1>3, StepKeeps

LEMMA InitReadKeeps ==
    ASSUME OrderAssumption, Inv, NEW w \in Workers, InitRead(w)
    PROVE  Inv'
<1>1. UNCHANGED <<order, att, expired, holder, history>>
  BY DEF InitRead
<1>2. CASE Put(w, [Idle EXCEPT !.pc = "new"])
  <2>1. [Idle EXCEPT !.pc = "new"] \in WorkerType
    BY NothingTyped DEF WorkerType, Places
  <2>2. worker'[w].pc = "new" /\ worker'[w].op = "none"
    BY <1>2, <2>1, Moved DEF Inv, Idle
  <2> QED BY <1>1, <1>2, <2>1, <2>2, Forgets, Begins
<1>3. ASSUME Newest # 0, order[Newest].status \in {"INIT", "TO_BE_PAID"},
             NEW p \in {"replace", "refresh"},
             Put(w, [Idle EXCEPT !.pc = p, !.of = Newest, !.seen = order[Newest].status])
      PROVE  Inv'
  <2>1. PICK o \in Orders : o = Newest
    BY <1>3, NewestIsOne
  <2> DEFINE r == [Idle EXCEPT !.pc = p, !.of = o, !.seen = order[o].status]
  <2>2. r \in WorkerType
    <3>1. p \in Places /\ order[o].status \in Statuses \cup Remotes
      BY <1>3, <2>1 DEF Places, Statuses
    <3> QED BY <3>1, NothingTyped DEF WorkerType
  <2>3. worker'[w] = r
    BY <1>3, <2>1, <2>2, Moved DEF Inv
  <2>4. r.pc = p /\ r.op = "none" /\ r.of = o /\ r.seen = order[o].status
    BY DEF Idle
  <2>5. Made(o)' /\ order[o].status \in {"INIT", "TO_BE_PAID"}
    BY <1>1, <1>3, <2>1 DEF Made
  <2> HIDE DEF r
  <2>6. Remembers(w)'
    BY <2>3, <2>4, <2>5 DEF Remembers, At, Under, Knowing
  <2>7. Holds(w)'
    BY <2>3, <2>4 DEF Holds, At
  <2> QED BY <1>1, <1>3, <2>1, <2>2, <2>6, <2>7, Begins DEF r
<1> QED BY <1>2, <1>3 DEF InitRead

LEMMA SyncReadKeeps ==
    ASSUME OrderAssumption, Inv, NEW w \in Workers, NEW o \in Orders, SyncRead(w, o)
    PROVE  Inv'
<1>1. /\ UNCHANGED <<order, att, expired, holder, history>>
      /\ Made(o) /\ Latest(o, "native") # 0
  BY DEF SyncRead
<1>2. PICK a \in Attempts : a = Latest(o, "native") /\ att[a].of = o
  BY <1>1, LatestIsOne DEF AttemptsOf
<1> DEFINE r == [Idle EXCEPT !.pc = "sync", !.of = o, !.left = {a}, !.seen = att[a].remote]
<1>3. att[a] \in AttemptType
  BY <1>2, AttemptFacts, OrderIsNotZero DEF Inv
<1>4. r \in WorkerType
  BY <1>2, <1>3, NothingTyped DEF WorkerType, Places, Knowing, AttemptType
<1>5. Put(w, r) /\ worker'[w] = r
  BY <1>2, <1>4, Moved DEF Inv, SyncRead
<1>6. r.pc = "sync" /\ r.op = "none" /\ r.of = o /\ r.left = {a} /\ r.seen = att[a].remote
  BY DEF Idle
<1>7. Made(o)' /\ att' = att
  BY <1>1 DEF Made
<1> HIDE DEF r
<1>8. Knows(w, a)'
  BY <1>2, <1>5, <1>6, <1>7 DEF Knows, At, Taken
<1>9. Remembers(w)' /\ Holds(w)'
  BY <1>2, <1>5, <1>6, <1>7, <1>8 DEF Remembers, Holds, At, Under
<1> QED BY <1>1, <1>4, <1>5, <1>9, Begins

LEMMA PingxxReadKeeps ==
    ASSUME OrderAssumption, Inv, NEW w \in Workers, NEW a \in Attempts, PingxxRead(w, a)
    PROVE  Inv'
<1> DEFINE r == [Idle EXCEPT !.pc = "callback", !.of = att[a].of, !.left = {a}]
<1>1. /\ UNCHANGED <<order, att, expired, holder, history>> /\ Put(w, r)
      /\ att[a].channel = "pingxx" /\ att[a].remote = "paid" /\ CanComplete(a)
  BY DEF PingxxRead
<1>2. att[a].of \in Orders
  BY <1>1, AttemptFacts DEF Inv
<1>3. Made(att[a].of)
  BY <1>1 DEF CanComplete, Made
<1>4. r \in WorkerType
  BY <1>2, NothingTyped DEF WorkerType, Places, Knowing
<1>5. worker'[w] = r
  BY <1>1, <1>4, Moved DEF Inv
<1>6. r.pc = "callback" /\ r.op = "none" /\ r.of = att[a].of /\ r.left = {a}
  BY DEF Idle
<1>7. Made(att[a].of)' /\ att' = att
  BY <1>1, <1>3 DEF Made
<1> HIDE DEF r
<1>8. Knows(w, a)'
  BY <1>1, <1>5, <1>6, <1>7 DEF Knows, At, Taken
<1>9. Remembers(w)' /\ Holds(w)'
  BY <1>2, <1>5, <1>6, <1>7, <1>8 DEF Remembers, Holds, At, Under
<1> QED BY <1>1, <1>4, <1>9, Begins

LEMMA WebhookReadKeeps ==
    ASSUME OrderAssumption, Inv, NEW w \in Workers, NEW a \in Attempts, WebhookRead(w, a)
    PROVE  Inv'
<1> DEFINE r == [Idle EXCEPT !.pc = "webhook", !.of = att[a].of, !.left = {a}]
<1>1. /\ UNCHANGED <<order, att, expired, holder, history>> /\ Put(w, r)
      /\ Taken(a) /\ CanComplete(a)
  BY DEF WebhookRead
<1>2. att[a].of \in Orders
  BY <1>1, AttemptFacts DEF Inv
<1>3. Made(att[a].of)
  BY <1>1 DEF CanComplete, Made
<1>4. r \in WorkerType
  BY <1>2, NothingTyped DEF WorkerType, Places, Knowing
<1>5. worker'[w] = r
  BY <1>1, <1>4, Moved DEF Inv
<1>6. r.pc = "webhook" /\ r.op = "none" /\ r.of = att[a].of /\ r.left = {a}
  BY DEF Idle
<1>7. Made(att[a].of)' /\ att' = att
  BY <1>1, <1>3 DEF Made
<1> HIDE DEF r
<1>8. Knows(w, a)'
  BY <1>1, <1>5, <1>6, <1>7 DEF Knows, At, Taken
<1>9. Remembers(w)' /\ Holds(w)'
  BY <1>2, <1>5, <1>6, <1>7, <1>8 DEF Remembers, Holds, At, Under
<1> QED BY <1>1, <1>4, <1>9, Begins

LEMMA NewOrderTyped ==
    ASSUME OrderAssumption, NEW p \in Prices
    PROVE  /\ NewOrder(p) \in OrderType
           /\ NewOrder(p).status = "SUCCESS" => NewOrder(p).price = 0
           /\ NewOrder(p).status # "none"
BY DEF OrderAssumption, NewOrder, NoOrder, OrderType, Statuses

\* A worker is done without a lock, and the attempts are as they were.
LEMMA Leaves ==
    ASSUME OrderAssumption, Inv, NEW w \in Workers, Put(w, Idle),
           UNCHANGED <<att, expired, holder, crashes, overlooked, overtaken>>,
           raced \subseteq raced', raced' \subseteq Orders,
           order' \in [Orders -> OrderType], \A o \in Orders : OrderStep({w}, o)
    PROVE  Inv'
<1>1. TypeOK' /\ OthersKept({w}) /\ worker'[w] = Idle
  BY Moved, HolderSame, NothingTyped DEF Inv, TypeOK
<1>2. Step({w})
  BY <1>1, AttSame DEF Step
<1>3. Remembers(w)' /\ Holds(w)'
  BY <1>1, Forgets DEF Idle
<1> QED BY <1>2, <1>3, StepKeeps

LEMMA InitCreateKeeps ==
    ASSUME OrderAssumption, Inv, NEW w \in Workers, InitCreate(w)
    PROVE  Inv'
<1>1. /\ UNCHANGED <<att, expired, holder, crashes, overlooked, overtaken>> /\ raced' = raced
      /\ Put(w, Idle)
  BY DEF InitCreate, history
<1>2. CASE order' = order
  BY <1>1, <1>2, AttSame, OrderSame, Leaves DEF Inv, TypeOK
<1>3. ASSUME NEW o \in Orders, NEW p \in Prices, FirstFree(o),
             order' = [order EXCEPT ![o] = NewOrder(p)]
      PROVE  Inv'
  <2>1. /\ order' \in [Orders -> OrderType] /\ order'[o] = NewOrder(p)
        /\ \A q \in Orders : q # o => order'[q] = order[q]
    BY <1>3, NewOrderTyped, OrderIs DEF Inv
  <2>2. OrderStep({w}, o)
    BY <1>3, <2>1, NewOrderTyped DEF OrderStep, FirstFree, Made
  <2>3. \A q \in Orders : OrderStep({w}, q)
    BY <1>1, <2>1, <2>2, AttSame, OrderSame
  <2> QED BY <1>1, <2>1, <2>3, Leaves DEF Inv, TypeOK
<1> QED BY <1>2, <1>3 DEF InitCreate

LEMMA InitReplaceKeeps ==
    ASSUME OrderAssumption, Inv, NEW w \in Workers, InitReplace(w)
    PROVE  Inv'
<1>1. /\ UNCHANGED <<att, expired, holder, crashes, overlooked, overtaken>> /\ Put(w, Idle)
      /\ raced' = raced \cup Stale(w)
  BY DEF InitReplace
<1>2. PICK o \in Orders : worker[w].of = o /\ Made(o)
  BY DEF InitReplace, Inv, Remembers, At
<1>3. raced' \subseteq Orders /\ raced \subseteq raced'
  BY <1>1, <1>2 DEF Inv, TypeOK, Stale
<1> DEFINE closed == [order EXCEPT ![o].status = "TIMEOUT", ![o].coupon = FALSE]
<1>4. /\ closed \in [Orders -> OrderType]
      /\ closed[o].status = "TIMEOUT"
      /\ \A q \in Orders : q # o => closed[q] = order[q]
  BY ClosedIs DEF Inv
<1>5. \/ \E q \in Orders, p \in Prices :
            FirstFree(q) /\ order' = [closed EXCEPT ![q] = NewOrder(p)]
      \/ order' = closed
  BY <1>2 DEF InitReplace
<1> HIDE DEF closed
<1>6. CASE order' = closed
  <2>1. OrderStep({w}, o)
    BY <1>4, <1>6 DEF OrderStep, Made, Open
  <2>2. \A q \in Orders : OrderStep({w}, q)
    BY <1>1, <1>4, <1>6, <2>1, AttSame, OrderSame
  <2> QED BY <1>1, <1>3, <1>4, <1>6, <2>2, Leaves
<1>7. ASSUME NEW q \in Orders, NEW p \in Prices, FirstFree(q),
             order' = [closed EXCEPT ![q] = NewOrder(p)]
      PROVE  Inv'
  <2>1. q # o
    BY <1>2, <1>7 DEF FirstFree
  <2>2. /\ order' \in [Orders -> OrderType] /\ order'[q] = NewOrder(p)
        /\ order'[o].status = "TIMEOUT"
        /\ \A x \in Orders : x # q /\ x # o => order'[x] = order[x]
    BY <1>4, <1>7, <2>1, NewOrderTyped
  <2>3. OrderStep({w}, o)
    BY <2>2 DEF OrderStep, Made, Open
  <2>4. OrderStep({w}, q)
    BY <1>7, <2>2, NewOrderTyped DEF OrderStep, FirstFree, Made
  <2>5. \A x \in Orders : OrderStep({w}, x)
    BY <1>1, <2>2, <2>3, <2>4, AttSame, OrderSame
  <2> QED BY <1>1, <1>3, <2>2, <2>5, Leaves
<1> QED BY <1>5, <1>6, <1>7

LEMMA InitRefreshKeeps ==
    ASSUME OrderAssumption, Inv, NEW w \in Workers, InitRefresh(w)
    PROVE  Inv'
<1>1. /\ UNCHANGED <<att, expired, holder, crashes, overlooked, overtaken>> /\ Put(w, Idle)
      /\ raced' = raced \cup Stale(w)
  BY DEF InitRefresh
<1>2. PICK o \in Orders : worker[w].of = o /\ Made(o)
  BY DEF InitRefresh, Inv, Remembers, At
<1>3. worker[w].seen \in {"INIT", "TO_BE_PAID"}
  BY DEF InitRefresh, Inv, Remembers, At
<1>4. raced' \subseteq Orders /\ raced \subseteq raced'
  BY <1>1, <1>2 DEF Inv, TypeOK, Stale
<1>5. PICK p \in Prices :
        order' = [order EXCEPT ![o].price = p,
                               ![o].status = IF p = 0 THEN "SUCCESS" ELSE @]
  BY <1>2 DEF InitRefresh
<1>6. p \in Nat
  BY DEF OrderAssumption
<1>7. /\ order' \in [Orders -> OrderType]
      /\ order'[o].price = p /\ order'[o].channel = order[o].channel
      /\ order'[o].status = IF p = 0 THEN "SUCCESS" ELSE order[o].status
      /\ \A q \in Orders : q # o => order'[q] = order[q]
  <2> DEFINE x == [order[o] EXCEPT !.price = p,
                                   !.status = IF p = 0 THEN "SUCCESS" ELSE @]
  <2>1. TypeOK /\ order[o] \in OrderType
    BY DEF Inv, TypeOK
  <2>2. /\ x \in OrderType /\ x.price = p /\ x.channel = order[o].channel
        /\ x.status = IF p = 0 THEN "SUCCESS" ELSE order[o].status
    BY <1>6, <2>1 DEF OrderType, Statuses
  <2>3. order' = [order EXCEPT ![o] = x]
    BY <1>5, <2>1 DEF TypeOK
  <2> HIDE DEF x
  <2> QED BY <2>1, <2>2, <2>3, OrderIs
<1>8. order[o].status = "SUCCESS" => o \in raced'
  BY <1>1, <1>2, <1>3 DEF Stale
<1>9. OrderStep({w}, o)
  BY <1>1, <1>2, <1>7, <1>8, AttSame DEF OrderStep, Made, Open, SameChannel
<1>10. \A q \in Orders : OrderStep({w}, q)
  BY <1>1, <1>7, <1>9, AttSame, OrderSame
<1> QED BY <1>1, <1>4, <1>7, <1>10, Leaves

------------------------------------------------------------------------------
(* generate_charge and use_coupon_code.                                    *)

\* A worker takes a free lock.
LEMMA LockKeeps ==
    ASSUME OrderAssumption, Inv, NEW w \in Workers, NEW o \in Orders, Made(o),
           NEW op \in {"charge", "coupon"}, NEW ch \in Channels \cup {"none"},
           NEW p \in {"issue", "close"}, Lock(w, o, op, ch, p),
           p = "issue" => op = "charge" /\ order[o].status = "INIT",
           op = "charge" => ch \in Channels
    PROVE  Inv'
<1> DEFINE claimed == IF p = "close" THEN ToClose(o) ELSE {}
           r == [Idle EXCEPT !.pc = p, !.op = op, !.of = o, !.channel = ch, !.claimed = claimed]
<1>0. claimed \subseteq Attempts /\ claimed \subseteq AttemptsOf(o)
  BY DEF ToClose, AttemptsOf
<1>1. /\ Put(w, r) /\ holder[o] = {} /\ holder' = [holder EXCEPT ![o] = {w}]
      /\ UNCHANGED <<order, att, expired, crashes, raced, overlooked, overtaken>>
  BY DEF Lock, Free, history
<1> HIDE DEF claimed
<1>2. r \in WorkerType
  BY <1>0, NothingTyped DEF WorkerType, Places, Under
<1>3. /\ worker' \in [Workers -> WorkerType] /\ worker'[w] = r
      /\ \A v \in Workers \ {w} : worker'[v] = worker[v]
  BY <1>1, <1>2, Moved DEF Inv
<1>4. r.pc = p /\ r.of = o /\ r.op = op /\ r.channel = ch /\ r.claimed = claimed
  BY DEF Idle
<1> HIDE DEF r
<1>5. TypeOK' /\ holder'[o] = {w} /\ OthersKept({w})
  BY <1>1, <1>3 DEF Inv, TypeOK, OthersKept
<1>6. Step({w})
  BY <1>1, <1>5, AttSame, OrderSame DEF Step
<1>7. Made(o)' /\ order' = order
  BY <1>1 DEF Made
<1>8. Remembers(w)'
  <2>1. claimed \subseteq AttemptsOf(o)'
    BY <1>0, <1>1 DEF AttemptsOf
  <2> QED BY <1>3, <1>4, <1>5, <1>7, <2>1 DEF Remembers, At, Knowing
<1>9. Holds(w)'
  <2>1. CASE p = "issue"
    BY <1>3, <1>4, <1>7, <2>1 DEF Holds, At, StatusOf
  <2>2. CASE p = "close"
    <3>1. PICK S \in SUBSET Attempts : S = claimed
      BY <1>0
    <3>2. o \notin Astray /\ order[o].status \in {"TO_BE_PAID", "REPRICING"} => AllIn(o, S)
      <4>1. \A a \in AttemptsOf(o) : Pending(a) /\ att[a].channel = order[o].channel => a \in S
        BY <2>2, <3>1 DEF claimed, ToClose
      <4> QED BY <4>1 DEF Inv, Charges, AliveIsCurrent, AllIn
    <3>3. AllIn(o, S) => AllIn(o, S)'
      BY <1>1 DEF AllIn, Alive, AttemptsOf
    <3>4. o \notin Astray' => o \notin Astray
      BY <1>1 DEF Astray
    <3>5. worker'[w].claimed = S
      BY <1>3, <1>4, <3>1
    <3>6. AllIn(o, worker[w].claimed)' <=> AllIn(o, S)'
      BY <3>5 DEF AllIn
    <3> QED BY <1>3, <1>4, <1>7, <2>2, <3>2, <3>3, <3>4, <3>6 DEF Holds, At, StatusOf
  <2> QED BY <2>1, <2>2
<1> QED BY <1>6, <1>8, <1>9, StepKeeps

LEMMA ChargeKeeps ==
    ASSUME OrderAssumption, Inv, NEW w \in Workers, NEW o \in Orders, NEW ch \in Channels,
           Charge(w, o, ch)
    PROVE  Inv'
BY LockKeeps DEF Charge, Made

LEMMA CouponKeeps ==
    ASSUME OrderAssumption, Inv, NEW w \in Workers, NEW o \in Orders, Coupon(w, o)
    PROVE  Inv'
<1>1. Made(o)
  BY DEF Coupon, Made
<1> QED BY <1>1, LockKeeps DEF Coupon

\* The holder of an order's lock goes on, or gives up the lock.
LEMMA HolderGoes ==
    ASSUME OrderAssumption, Inv, NEW w \in Workers, At(w, Under), NEW r \in WorkerType,
           Put(w, r), r.pc \in Under, r.of = worker[w].of, holder' = holder,
           Made(worker[w].of) => Made(r.of)',
           r.op = worker[w].op, r.channel = worker[w].channel,
           r.pc = "issue" => r.op = "charge",
           r.pc \in {"close", "cancel"} => r.claimed \subseteq AttemptsOf(r.of)'
    PROVE  /\ worker' \in [Workers -> WorkerType] /\ worker'[w] = r
           /\ holder' \in [Orders -> SUBSET Workers]
           /\ OthersKept({w}) /\ Remembers(w)'
<1>1. /\ worker' \in [Workers -> WorkerType] /\ worker'[w] = r
      /\ OthersKept({w}) /\ holder' \in [Orders -> SUBSET Workers]
  BY Moved, HolderSame DEF Inv, TypeOK
<1>2. worker[w].of \in Orders /\ Made(worker[w].of) /\ holder[worker[w].of] = {w}
  BY DEF Inv, Remembers, At, Under
<1>3. worker[w].op = "charge" => worker[w].channel \in Channels
  BY DEF Inv, Remembers
<1>4. worker'[w].of \in Orders /\ holder'[worker'[w].of] = {w}
  BY <1>1, <1>2
<1>5. ~At(w, {"idle", "new", "replace", "refresh"})' /\ ~At(w, Knowing)'
  BY <1>1 DEF At, Under, Knowing
<1>6. Made(worker[w].of)'
  BY <1>1, <1>2 DEF Made
<1>7. At(w, {"close", "cancel"})' => worker'[w].claimed \subseteq AttemptsOf(worker[w].of)'
  BY <1>1 DEF At
<1>8. Remembers(w)'
  BY <1>1, <1>3, <1>4, <1>5, <1>6, <1>7 DEF Remembers, At
<1> QED BY <1>1, <1>8

\* Where the holder stands, for short.
LEMMA HolderFacts ==
    ASSUME OrderAssumption, Inv, NEW w \in Workers, At(w, Under)
    PROVE  /\ worker[w].of \in Orders /\ Made(worker[w].of)
           /\ holder[worker[w].of] = {w}
           /\ worker[w] \in WorkerType
           /\ Charges(worker[w].of)
BY DEF Inv, TypeOK, Remembers, At, Under

\* The claim of a charge counts an order that changed meanwhile as overtaken;
\* of another all that lives is claimed.
LEMMA CloseClaimKeeps ==
    ASSUME OrderAssumption, Inv, NEW w \in Workers, CloseClaim(w)
    PROVE  Inv'
<1>1. UNCHANGED <<att, expired, crashes, raced, overlooked>> /\ At(w, {"close"})
  BY DEF CloseClaim, At
<1>2. At(w, Under)
  BY <1>1 DEF At, Under
<1>3. PICK o \in Orders : worker[w].of = o /\ Made(o) /\ holder[o] = {w}
  BY <1>2, HolderFacts
<1>0. PICK claimed \in SUBSET Attempts : claimed = worker[w].claimed
  BY <1>2, HolderFacts DEF WorkerType
<1> DEFINE status == StatusRead(w)
           goOn == [worker[w] EXCEPT !.pc = AfterClose(w)]
           claim == [worker[w] EXCEPT !.pc = "cancel", !.left = claimed]
<1>4. /\ goOn \in WorkerType /\ goOn.pc = AfterClose(w) /\ goOn.of = o
      /\ goOn.op = worker[w].op /\ goOn.channel = worker[w].channel
      /\ AfterClose(w) \in {"issue", "apply"}
      /\ AfterClose(w) = "issue" => worker[w].op = "charge"
      /\ AfterClose(w) = "issue" => Unclaimed(w) = "INIT"
      /\ AfterClose(w) = "apply" => Unclaimed(w) = "REPRICING"
  BY <1>2, <1>3, HolderFacts DEF WorkerType, Places, Under, AfterClose, Unclaimed
<1>5. /\ claim \in WorkerType /\ claim.pc = "cancel" /\ claim.of = o
      /\ claim.left = claimed /\ claim.claimed = claimed
      /\ claim.op = worker[w].op /\ claim.channel = worker[w].channel
  BY <1>0, <1>2, <1>3, HolderFacts DEF WorkerType, Places, Under
<1>6. GoTo(w, AfterClose(w)) => Put(w, goOn)
  BY Zenon DEF GoTo, Put
<1>7. Unclaimed(w) \in Statuses /\ Unclaimed(w) \in {"INIT", "REPRICING"}
  BY DEF Unclaimed, Statuses
<1>8. AllKept /\ \A q \in Orders : SnapsKept(q)
  BY <1>1, AttSame
<1>9. /\ overtaken \subseteq overtaken' /\ overtaken' \subseteq Orders
      /\ o \in Astray => o \in Astray'
      /\ order[o].status = status \/ o \in Astray'
  BY <1>1, <1>3 DEF CloseClaim, Inv, TypeOK, Astray
<1>10. status \in {"TO_BE_PAID", "REPRICING"} => o \in Astray' \/ AllIn(o, claimed)
  <2>1. Holds(w)
    BY DEF Inv
  <2>2. order[o].status \in {"TO_BE_PAID", "REPRICING"} /\ o \notin Astray => AllIn(o, claimed)
    BY <1>0, <1>1, <1>3, <2>1 DEF Holds, StatusOf
  <2> QED BY <1>9, <2>2
<1>11. /\ claimed \subseteq AttemptsOf(o)'
       /\ AllIn(o, claimed) => AllIn(o, claimed)'
       /\ NoneAlive(o) => NoneAlive(o)'
  <2>1. claimed \subseteq AttemptsOf(o)
    BY <1>0, <1>1, <1>3 DEF Inv, Remembers, At
  <2>2. AttemptsOf(o)' = AttemptsOf(o) /\ \A a \in Attempts : Alive(a)' = Alive(a)
    BY <1>1 DEF AttemptsOf, Alive
  <2> QED BY <1>1, <2>1 DEF AllIn, NoneAlive, AttemptsOf, Alive
<1> HIDE DEF goOn, claim, status
<1>12. CASE status = "INIT" /\ GoTo(w, AfterClose(w)) /\ UNCHANGED <<order, holder>>
  <2>1. \A q \in Orders : OrderStep({w}, q)
    BY <1>8, <1>12, OrderSame
  <2>2. worker' \in [Workers -> WorkerType] /\ worker'[w] = goOn /\ OthersKept({w})
        /\ Remembers(w)'
    BY <1>2, <1>3, <1>4, <1>6, <1>12, HolderGoes DEF Under, Made
  <2>3. Step({w})
    BY <1>1, <1>8, <1>9, <1>12, <2>1, <2>2 DEF Step, Inv, TypeOK
  <2>4. worker[w].op # "charge"
    BY <1>12 DEF StatusRead, status
  <2>5. Holds(w)'
    <3>1. order[o].status = "INIT"
      BY <1>3, <1>12, <2>4 DEF StatusRead, status
    <3> QED BY <1>4, <1>12, <2>2, <3>1 DEF Holds, At, StatusOf
  <2> QED BY <2>2, <2>3, <2>5, StepKeeps
<1>13. CASE /\ status \in {"TO_BE_PAID", "REPRICING"} /\ claimed = {}
            /\ SetStatus(o, Unclaimed(w)) /\ GoTo(w, AfterClose(w)) /\ UNCHANGED holder
  <2>1. /\ order' \in [Orders -> OrderType]
        /\ order'[o].status = Unclaimed(w) /\ SameChannel(o)
        /\ \A q \in Orders : q # o => order'[q] = order[q]
    BY <1>7, <1>13, StatusIs DEF Inv
  <2>2. o \in Astray' \/ NoneAlive(o)
    BY <1>10, <1>13 DEF NoneAlive, AllIn
  <2>3. OrderStep({w}, o)
    BY <1>2, <1>3, <1>7, <2>1, <2>2 DEF OrderStep, Moves, Made
  <2>4. \A q \in Orders : OrderStep({w}, q)
    BY <1>8, <2>1, <2>3, OrderSame
  <2>5. Made(o)'
    BY <1>7, <2>1 DEF Made
  <2>6. worker' \in [Workers -> WorkerType] /\ worker'[w] = goOn /\ OthersKept({w})
        /\ Remembers(w)'
    BY <1>2, <1>3, <1>4, <1>6, <1>13, <2>5, HolderGoes DEF Under
  <2>7. Step({w})
    BY <1>1, <1>8, <1>9, <1>13, <2>1, <2>4, <2>6 DEF Step, Inv, TypeOK
  <2>8. Holds(w)'
    BY <1>4, <1>11, <2>1, <2>2, <2>6 DEF Holds, At, StatusOf
  <2> QED BY <2>6, <2>7, <2>8, StepKeeps
<1>14. CASE /\ status \in {"TO_BE_PAID", "REPRICING"}
            /\ SetStatus(o, "REPRICING") /\ Put(w, claim) /\ UNCHANGED holder
  <2>1. /\ order' \in [Orders -> OrderType]
        /\ order'[o].status = "REPRICING" /\ SameChannel(o)
        /\ \A q \in Orders : q # o => order'[q] = order[q]
    BY <1>14, StatusIs DEF Inv, Statuses
  <2>2. Moves({w}, o)
    BY <1>2, <1>3, <1>8, <1>9, <1>14, <2>1 DEF Moves
  <2>3. OrderStep({w}, o)
    BY <2>1, <2>2 DEF OrderStep, Made
  <2>4. \A q \in Orders : OrderStep({w}, q)
    BY <1>8, <2>1, <2>3, OrderSame
  <2>5. Made(o)'
    BY <2>1 DEF Made
  <2>6. worker' \in [Workers -> WorkerType] /\ worker'[w] = claim /\ OthersKept({w})
        /\ Remembers(w)'
    BY <1>2, <1>3, <1>5, <1>11, <1>14, <2>5, HolderGoes DEF Under
  <2>7. Step({w})
    BY <1>1, <1>8, <1>9, <1>14, <2>1, <2>4, <2>6 DEF Step, Inv, TypeOK
  <2>8. Holds(w)'
    <3>1. o \in Astray' \/ AllIn(o, claimed)'
      BY <1>10, <1>11, <1>14
    <3>2. AllIn(o, claimed)' <=> AllIn(o, worker[w].left)'
      BY <1>5, <2>6 DEF AllIn
    <3> QED BY <1>5, <2>1, <2>6, <3>1, <3>2 DEF Holds, At, StatusOf
  <2> QED BY <2>6, <2>7, <2>8, StepKeeps
<1>15. CASE Done(w) /\ UNCHANGED order
  <2>1. /\ worker' \in [Workers -> WorkerType] /\ holder' \in [Orders -> SUBSET Workers]
        /\ OthersKept({w}) /\ Remembers(w)' /\ Holds(w)'
    BY <1>2, <1>15, DoneIs
  <2>2. Step({w})
    BY <1>1, <1>8, <1>9, <1>15, <2>1, OrderSame DEF Step, Inv, TypeOK
  <2> QED BY <2>1, <2>2, StepKeeps
<1> QED BY <1>0, <1>3, <1>12, <1>13, <1>14, <1>15 DEF CloseClaim, claim, status

LEMMA CancelKeeps ==
    ASSUME OrderAssumption, Inv, NEW w \in Workers, Cancel(w)
    PROVE  Inv'
<1>1. /\ UNCHANGED <<order, expired, holder, crashes, raced, overlooked, overtaken>>
      /\ At(w, {"cancel"}) /\ worker[w].left # {}
  BY DEF Cancel, history, At
<1>2. At(w, Under)
  BY <1>1 DEF At, Under
<1>3. PICK o \in Orders : worker[w].of = o /\ Made(o) /\ holder[o] = {w}
  BY <1>2, HolderFacts
<1>4. worker[w] \in WorkerType
  BY <1>2, HolderFacts
<1>5. PICK a \in Attempts : a = Max(worker[w].left)
  <2>1. worker[w].left \subseteq 1 .. MaxAttempts /\ MaxAttempts \in Nat
    BY <1>4 DEF WorkerType, Attempts, OrderAssumption
  <2>2. Max(worker[w].left) \in worker[w].left
    <3>1. /\ worker[w].left \in SUBSET Nat /\ worker[w].left # {}
          /\ \A x \in worker[w].left : x <= MaxAttempts
      BY <1>1, <2>1
    <3> QED BY <2>1, <3>1, MaxOf
  <2> QED BY <2>1, <2>2 DEF Attempts
<1> DEFINE less == [worker[w] EXCEPT !.left = @ \ {a}]
           stop == [worker[w] EXCEPT !.pc = "restore"]
<1>6. /\ less \in WorkerType /\ less.pc = "cancel" /\ less.of = o
      /\ less.left = worker[w].left \ {a} /\ less.claimed = worker[w].claimed
      /\ less.op = worker[w].op /\ less.channel = worker[w].channel
      /\ stop.op = worker[w].op /\ stop.channel = worker[w].channel
      /\ stop \in WorkerType /\ stop.pc = "restore" /\ stop.of = o
  BY <1>1, <1>3, <1>4 DEF WorkerType, Places, Under, At
<1>7. GoTo(w, "restore") => Put(w, stop)
  BY Zenon DEF GoTo, Put
<1>8. AllKept /\ (\A q \in Orders : SnapsKept(q))
      /\ att' \in [Attempts -> AttemptType \cup {NoAttempt}]
  <2>1. CASE att' = att
    BY <2>1, AttSame DEF Inv, TypeOK
  <2>2. CASE att[a].remote \in {"open", "closed"} /\ att' = [att EXCEPT ![a].remote = "closed"]
    <3>1. att[a] \in AttemptType
      BY <2>2 DEF Inv, TypeOK, NoAttempt
    <3> QED BY <2>2, <3>1, RemoteIs DEF Inv, Remotes, Taken
  <2> QED BY <1>5, <2>1, <2>2 DEF Cancel
<1>9. Made(o)' /\ \A q \in Orders : OrderStep({w}, q)
  BY <1>1, <1>3, <1>8, OrderSame DEF Made
<1>10. worker[w].claimed \subseteq AttemptsOf(o)'
  <2>1. worker[w].claimed \subseteq AttemptsOf(o)
    BY <1>1, <1>3 DEF Inv, Remembers, At
  <2> QED BY <1>8, <2>1 DEF AttemptsOf, AllKept, Kept
<1> HIDE DEF less, stop
<1>11. CASE Put(w, stop)
  <2>1. Step({w}) /\ worker'[w] = stop /\ Remembers(w)'
    BY <1>1, <1>2, <1>3, <1>6, <1>8, <1>9, <1>11, HolderGoes DEF Step, Inv, TypeOK, Under
  <2>2. Holds(w)'
    BY <1>6, <2>1 DEF Holds, At
  <2> QED BY <2>1, <2>2, StepKeeps
<1>12. CASE Put(w, less) /\ att' = [att EXCEPT ![a].remote = "closed"]
  <2>1. Step({w}) /\ worker'[w] = less /\ Remembers(w)'
    BY <1>1, <1>2, <1>3, <1>6, <1>8, <1>9, <1>10, <1>12,
       HolderGoes DEF Step, Inv, TypeOK, Under
  <2>2. att'[a].remote = "closed" \/ att[a] = NoAttempt
    BY <1>12 DEF Inv, TypeOK, AttemptType
  <2>3. \A b \in AttemptsOf(o)' : Alive(b)' => b \in AttemptsOf(o) /\ Alive(b) /\ b # a
    <3>1. \A b \in AttemptsOf(o)' : Alive(b)' => b \in AttemptsOf(o) /\ Alive(b)
      BY <1>8 DEF AttemptsOf, AllKept, Kept
    <3>2. ~Alive(a)'
      BY <1>8, <2>2 DEF AllKept, Kept, Alive, NoAttempt
    <3> QED BY <3>1, <3>2
  <2>4. Holds(w)
    BY DEF Inv
  <2>5. Holds(w)'
    <3>1. order[o].status = "REPRICING" => o \in Astray \/ AllIn(o, worker[w].left)
      BY <1>1, <1>3, <2>4 DEF Holds, At, StatusOf
    <3>2. AllIn(o, worker[w].left) => AllIn(o, worker[w].left)'
      BY <1>6, <2>1, <2>3 DEF AllIn
    <3>3. Astray' = Astray /\ order' = order /\ order[o].status # "TO_BE_PAID"
      BY <1>1, <1>3, <2>4 DEF Astray, Holds, At, StatusOf
    <3> QED BY <1>6, <2>1, <3>1, <3>2, <3>3 DEF Holds, At, StatusOf
  <2> QED BY <2>1, <2>5, StepKeeps
<1> QED BY <1>5, <1>7, <1>11, <1>12 DEF Cancel, less

LEMMA RestoreKeeps ==
    ASSUME OrderAssumption, Inv, NEW w \in Workers, Restore(w)
    PROVE  Inv'
<1>1. UNCHANGED <<att, expired, crashes, raced, overlooked, overtaken>> /\ Done(w) /\ At(w, Under)
  BY DEF Restore, history, At, Under
<1>2. PICK o \in Orders : worker[w].of = o
  BY <1>1, HolderFacts
<1> DEFINE st == IF order[o].status = "REPRICING" THEN "TO_BE_PAID" ELSE order[o].status
<1>3. st \in Statuses /\ (order[o].status = "REPRICING" => st = "TO_BE_PAID")
      /\ (order[o].status # "REPRICING" => st = order[o].status)
  BY DEF Inv, TypeOK, OrderType, Statuses
<1>4. SetStatus(o, st)
  BY <1>2 DEF Restore
<1> HIDE DEF st
<1>5. /\ order' \in [Orders -> OrderType]
      /\ order'[o].status = st /\ order'[o].price = order[o].price /\ SameChannel(o)
      /\ \A q \in Orders : q # o => order'[q] = order[q]
  BY <1>3, <1>4, StatusIs DEF Inv
<1>6. AllKept /\ \A q \in Orders : SnapsKept(q)
  BY <1>1, AttSame
<1>7. OrderStep({w}, o)
  BY <1>1, <1>2, <1>3, <1>5, <1>6 DEF OrderStep, Moves, Made
<1>8. \A q \in Orders : OrderStep({w}, q)
  BY <1>5, <1>6, <1>7, OrderSame
<1>9. Step({w}) /\ Remembers(w)' /\ Holds(w)'
  BY <1>1, <1>5, <1>6, <1>8, DoneIs DEF Step, Inv, TypeOK
<1> QED BY <1>9, StepKeeps

\* Without a claimed attempt left to cancel none is alive.
LEMMA SettleKeeps ==
    ASSUME OrderAssumption, Inv, NEW w \in Workers, Settle(w)
    PROVE  Inv'
<1>1. /\ UNCHANGED <<expired, crashes, raced, overlooked, overtaken>>
      /\ At(w, {"cancel"}) /\ worker[w].left = {}
  BY DEF Settle, history, At
<1>2. At(w, Under)
  BY <1>1 DEF At, Under
<1>3. PICK o \in Orders : worker[w].of = o /\ Made(o) /\ holder[o] = {w}
  BY <1>2, HolderFacts
<1>4. o \in Astray' \/ order[o].status # "REPRICING" \/ NoneAlive(o)
  <2>1. Holds(w) /\ Astray' = Astray
    BY <1>1 DEF Inv, Astray
  <2> QED BY <1>1, <1>3, <2>1 DEF Holds, At, StatusOf, NoneAlive, AllIn
<1> DEFINE goOn == [worker[w] EXCEPT !.pc = AfterClose(w)]
           undo == [worker[w] EXCEPT !.pc = "undo"]
<1>5. /\ goOn \in WorkerType /\ goOn.pc = AfterClose(w) /\ goOn.of = o
      /\ goOn.op = worker[w].op /\ goOn.channel = worker[w].channel
      /\ AfterClose(w) \in {"issue", "apply"}
      /\ AfterClose(w) = "issue" => worker[w].op = "charge"
      /\ AfterClose(w) = "issue" => Unclaimed(w) = "INIT"
      /\ AfterClose(w) = "apply" => Unclaimed(w) = "REPRICING"
      /\ undo \in WorkerType /\ undo.pc = "undo" /\ undo.of = o
      /\ undo.op = worker[w].op /\ undo.channel = worker[w].channel
  BY <1>2, <1>3, HolderFacts DEF WorkerType, Places, Under, AfterClose, Unclaimed
<1>6. /\ GoTo(w, AfterClose(w)) => Put(w, goOn)
      /\ GoTo(w, "undo") => Put(w, undo)
  BY Zenon DEF GoTo, Put
<1>7. Unclaimed(w) \in Statuses /\ Unclaimed(w) \in {"INIT", "REPRICING"}
  BY DEF Unclaimed, Statuses
<1> HIDE DEF goOn, undo
<1>8. CASE /\ order[o].status = "REPRICING" /\ \A a \in worker[w].claimed : Pending(a)
           /\ att' = [a \in Attempts |-> IF a \in worker[w].claimed
                                         THEN [att[a] EXCEPT !.snap = "closed"] ELSE att[a]]
           /\ SetStatus(o, Unclaimed(w)) /\ GoTo(w, AfterClose(w)) /\ UNCHANGED holder
  <2>1. /\ order' \in [Orders -> OrderType]
        /\ order'[o].status = Unclaimed(w) /\ SameChannel(o)
        /\ \A q \in Orders : q # o => order'[q] = order[q]
    BY <1>7, <1>8, StatusIs DEF Inv
  <2>2. ASSUME NEW a \in Attempts
        PROVE  /\ att'[a] \in AttemptType \cup {NoAttempt}
               /\ Kept(a)
               /\ att'[a] = att[a] \/ (att'[a] = [att[a] EXCEPT !.snap = "closed"] /\ Pending(a))
    <3>1. att[a] \in AttemptType \cup {NoAttempt}
      BY DEF Inv, TypeOK
    <3>2. Pending(a) => att[a] \in AttemptType
      BY <3>1 DEF Pending, NoAttempt
    <3>3. CASE a \in worker[w].claimed
      <4>1. att'[a] = [att[a] EXCEPT !.snap = "closed"] /\ Pending(a)
        BY <1>8, <3>3
      <4> QED BY <3>2, <4>1 DEF AttemptType, Kept, Taken, Alive
    <3>4. CASE a \notin worker[w].claimed
      <4>1. att'[a] = att[a]
        BY <1>8, <3>4
      <4> QED BY <3>1, <4>1 DEF Kept, Taken, Alive
    <3> QED BY <3>3, <3>4
  <2>3. att' \in [Attempts -> AttemptType \cup {NoAttempt}]
    BY <1>8, <2>2
  <2>4. AllKept
    BY <2>2 DEF AllKept
  <2>5. o \in Astray' \/ NoneAlive(o)
    BY <1>4, <1>8
  <2>6. OrderStep({w}, o)
    BY <1>2, <1>3, <1>7, <2>1, <2>5 DEF OrderStep, Moves, Made
  <2>7. ASSUME NEW q \in Orders, q # o
        PROVE  OrderStep({w}, q)
    <3>1. worker[w].claimed \subseteq AttemptsOf(o)
      BY <1>1, <1>3 DEF Inv, Remembers, At
    <3>2. \A a \in AttemptsOf(q) : att'[a] = att[a]
      BY <1>8, <2>7, <3>1 DEF AttemptsOf
    <3>3. SnapsKept(q)
      BY <3>2 DEF SnapsKept, Pending
    <3> QED BY <2>1, <2>7, <3>3, OrderSame
  <2>8. Made(o)'
    BY <1>7, <2>1 DEF Made
  <2>9. Step({w}) /\ worker'[w] = goOn /\ Remembers(w)'
    BY <1>1, <1>2, <1>3, <1>5, <1>6, <1>8, <2>1, <2>3, <2>4, <2>6, <2>7, <2>8, HolderGoes
       DEF Step, Inv, TypeOK, Under
  <2>10. o \in Astray' \/ NoneAlive(o)'
    BY <1>1, <2>4, <2>5 DEF NoneAlive, AttemptsOf, AllKept, Kept
  <2>11. Holds(w)'
    BY <1>5, <2>1, <2>9, <2>10 DEF Holds, At, StatusOf
  <2> QED BY <2>9, <2>11, StepKeeps
<1>9. CASE Done(w) /\ UNCHANGED <<order, att>>
  <2>1. AllKept /\ \A q \in Orders : SnapsKept(q)
    BY <1>9, AttSame
  <2>2. /\ worker' \in [Workers -> WorkerType] /\ holder' \in [Orders -> SUBSET Workers]
        /\ OthersKept({w}) /\ Remembers(w)' /\ Holds(w)'
    BY <1>2, <1>9, DoneIs
  <2>3. TypeOK'
    BY <1>1, <1>9, <2>2 DEF Inv, TypeOK
  <2>4. \A q \in Orders : OrderStep({w}, q)
    BY <1>1, <1>9, <2>1, OrderSame
  <2>5. Step({w})
    BY <1>1, <2>1, <2>2, <2>3, <2>4 DEF Step
  <2> QED BY <2>2, <2>5, StepKeeps
<1>10. CASE GoTo(w, "undo") /\ UNCHANGED <<order, att, holder>>
  <2>1. AllKept /\ (\A q \in Orders : SnapsKept(q)) /\ Made(o)'
    BY <1>3, <1>10, AttSame DEF Made
  <2>2. Step({w}) /\ worker'[w] = undo /\ Remembers(w)'
    <3>1. /\ worker' \in [Workers -> WorkerType] /\ worker'[w] = undo
          /\ holder' \in [Orders -> SUBSET Workers] /\ OthersKept({w}) /\ Remembers(w)'
      BY <1>2, <1>3, <1>5, <1>6, <1>10, <2>1, HolderGoes DEF Under
    <3>2. TypeOK'
      BY <1>1, <1>10, <3>1 DEF Inv, TypeOK
    <3>3. \A q \in Orders : OrderStep({w}, q)
      BY <1>1, <1>10, <2>1, OrderSame
    <3> QED BY <1>1, <2>1, <3>1, <3>2, <3>3 DEF Step
  <2>3. o \in Astray' \/ order'[o].status # "REPRICING" \/ NoneAlive(o)'
    BY <1>1, <1>4, <1>10 DEF NoneAlive, AttemptsOf, Alive
  <2>4. order'[o].status # "TO_BE_PAID"
    BY <1>1, <1>3, <1>10 DEF Inv, Holds, At, StatusOf
  <2>5. Holds(w)'
    BY <1>5, <2>2, <2>3, <2>4 DEF Holds, At, StatusOf
  <2> QED BY <2>2, <2>5, StepKeeps
<1> QED BY <1>3, <1>8, <1>9, <1>10 DEF Settle

\* The holder of the lock ends, and moved its own order at most.
LEMMA Ends ==
    ASSUME OrderAssumption, Inv, NEW w \in Workers, At(w, Under), Done(w),
           UNCHANGED <<att, expired, crashes, raced, overlooked, overtaken>>,
           order' \in [Orders -> OrderType],
           \A q \in Orders : q # worker[w].of => order'[q] = order[q],
           OrderStep({w}, worker[w].of)
    PROVE  Inv'
<1>1. AllKept /\ \A q \in Orders : SnapsKept(q)
  BY AttSame
<1>2. \A q \in Orders : OrderStep({w}, q)
  BY <1>1, OrderSame
<1>3. Step({w}) /\ Remembers(w)' /\ Holds(w)'
  BY <1>1, <1>2, DoneIs DEF Step, Inv, TypeOK
<1> QED BY <1>3, StepKeeps

\* An attempt is made for an order that has none alive.
LEMMA IssueNewKeeps ==
    ASSUME OrderAssumption, Inv, NEW w \in Workers, At(w, Under), Done(w),
           UNCHANGED <<expired, crashes, raced, overlooked, overtaken>>,
           NEW o \in Orders, worker[w].of = o, order[o].status = "INIT",
           NEW a \in Attempts, att[a] = NoAttempt, NEW ch \in Channels,
           att' = [att EXCEPT ![a] = NewAttempt(o, ch)],
           order' = [order EXCEPT ![o].status = "TO_BE_PAID", ![o].channel = ch]
    PROVE  Inv'
<1>1. NewAttempt(o, ch) \in AttemptType
  BY DEF NewAttempt, AttemptType, Inv, TypeOK, OrderType, Remotes
<1>2. /\ att' \in [Attempts -> AttemptType \cup {NoAttempt}]
      /\ att'[a] = NewAttempt(o, ch)
      /\ \A b \in Attempts : b # a => att'[b] = att[b]
  BY <1>1, AttIs DEF Inv
<1>3. /\ order' \in [Orders -> OrderType]
      /\ order'[o].status = "TO_BE_PAID" /\ order'[o].channel = ch
      /\ \A q \in Orders : q # o => order'[q] = order[q]
  <2>1. order \in [Orders -> OrderType]
    BY DEF Inv, TypeOK
  <2>2. \A q \in Orders : q # o => order'[q] = order[q]
    BY <2>1
  <2>3. order'[o].status = "TO_BE_PAID" /\ order'[o].channel = ch
    BY <2>1 DEF OrderType
  <2>4. order'[o] \in OrderType
    <3> DEFINE x == [order[o] EXCEPT !.status = "TO_BE_PAID", !.channel = ch]
    <3>1. order[o] \in OrderType /\ "TO_BE_PAID" \in Statuses
      BY <2>1 DEF Statuses
    <3>2. x \in OrderType
      BY <3>1 DEF OrderType
    <3>3. order'[o] = x
      BY <2>1
    <3> QED BY <3>2, <3>3
  <2>5. order' \in [Orders -> OrderType]
    BY <2>1, <2>2, <2>4
  <2> QED BY <2>2, <2>3, <2>5
<1>4. /\ TypeOK' /\ OthersKept({w}) /\ Remembers(w)' /\ Holds(w)'
  BY <1>2, <1>3, DoneIs DEF Inv, TypeOK
<1>5. holder[o] = {w} /\ Charges(o)
  BY HolderFacts
<1>6. a \notin AttemptsOf(o)
  BY OrderIsNotZero DEF AttemptsOf, NoAttempt
<1>7. \A q \in Orders : Made(q) => Made(q)'
  BY <1>3 DEF Made
<1>8. ASSUME NEW v \in Workers, v # w
      PROVE  Remembers(v)' /\ Holds(v)'
  <2>1. /\ worker'[v] = worker[v] /\ Remembers(v) /\ Holds(v)
        /\ worker[v].of \in Orders /\ holder[worker[v].of] = {v} =>
                holder'[worker[v].of] = {v}
    BY <1>4, <1>8 DEF Inv, OthersKept
  <2>2. ASSUME NEW b \in Attempts, Knows(v, b), worker[v].of \in Orders
        PROVE  Knows(v, b)'
    <3>1. b # a
      BY <2>2, OrderIsNotZero DEF Knows, NoAttempt
    <3>2. att'[b] = att[b]
      BY <1>2, <3>1
    <3> QED BY <2>1, <2>2, <3>2 DEF Knows, At, Taken
  <2>3. At(v, Knowing)' => \E b \in Attempts : Knows(v, b)'
    BY <2>1, <2>2 DEF Remembers, At, Knowing
  <2>4. At(v, {"close", "cancel"})' => worker'[v].claimed \subseteq AttemptsOf(worker[v].of)'
    <3> SUFFICES ASSUME At(v, {"close", "cancel"}), NEW b \in worker[v].claimed
                 PROVE  b \in AttemptsOf(worker[v].of)'
      BY <2>1 DEF At
    <3>1. b \in AttemptsOf(worker[v].of) /\ worker[v].of \in Orders
      BY <2>1 DEF Remembers, At
    <3>2. b # a
      BY <3>1, OrderIsNotZero DEF AttemptsOf, NoAttempt
    <3> QED BY <1>2, <2>1, <3>1, <3>2 DEF AttemptsOf
  <2>5. At(v, Under)' => worker'[v].of \in Orders /\ holder'[worker'[v].of] = {v}
    BY <2>1 DEF Remembers, At, Under
  <2>6. Remembers(v)'
    BY <1>7, <2>1, <2>3, <2>4, <2>5 DEF Remembers, At
  <2>7. Holds(v)'
    <3> SUFFICES ASSUME At(v, {"close", "cancel", "issue", "apply", "undo"})
                 PROVE  Holds(v)'
      BY <2>1 DEF Holds, At
    <3>1. PICK p \in Orders : worker[v].of = p /\ holder[p] = {v}
      BY <2>1 DEF Remembers, At, Under
    <3>2. p # o
      BY <1>5, <1>8, <3>1
    <3>3. order'[p] = order[p]
      BY <1>3, <3>2
    <3>4. \A b \in AttemptsOf(p)' : b \in AttemptsOf(p) /\ att'[b] = att[b]
      BY <1>2, <3>2 DEF AttemptsOf, NewAttempt
    <3>5. /\ \A S : AllIn(p, S) => AllIn(p, S)'
          /\ NoneAlive(p) => NoneAlive(p)'
      BY <3>4 DEF AllIn, NoneAlive, Alive
    <3>6. Astray' = Astray
      BY DEF Astray
    <3> QED BY <2>1, <3>1, <3>3, <3>5, <3>6 DEF Holds, At, StatusOf
  <2> QED BY <2>6, <2>7
<1>9. ASSUME NEW b \in Attempts
      PROVE  Belongs(b)'
  <2>1. CASE b = a
    BY <1>2, <1>3, <2>1 DEF Belongs, Made, NewAttempt
  <2>2. CASE b # a
    <3>1. att'[b] = att[b] /\ Belongs(b) /\ (att[b] # NoAttempt => att[b].of \in Orders)
      BY <1>2, <2>2 DEF Inv, TypeOK, AttemptType
    <3> QED BY <1>7, <3>1 DEF Belongs
  <2> QED BY <2>1, <2>2
<1>10. ASSUME NEW q \in Orders, q # o
       PROVE  Charges(q)' /\ PaidFor(q)'
  <2>1. order'[q] = order[q] /\ Charges(q) /\ PaidFor(q)
    BY <1>3, <1>10 DEF Inv
  <2>2. AttemptsOf(q)' = AttemptsOf(q) /\ \A b \in AttemptsOf(q) : b # a /\ att'[b] = att[b]
    BY <1>2, <1>10, OrderIsNotZero DEF AttemptsOf, NewAttempt, NoAttempt
  <2>3. PaidFor(q)'
    BY <2>1, <2>2 DEF PaidFor, Taken
  <2>4. \A b \in AttemptsOf(q) :
            /\ Alive(b)' <=> Alive(b)
            /\ Pending(b)' <=> Pending(b)
            /\ att'[b].channel = att[b].channel
    BY <2>2 DEF Alive, Pending
  <2>5. OneAlive(q) => OneAlive(q)'
    BY <2>2, <2>4 DEF OneAlive
  <2>6. OpenHasNone(q) => OpenHasNone(q)'
    BY <2>1, <2>2, <2>4 DEF OpenHasNone, NoneAlive
  <2>7. AliveIsCurrent(q) => AliveIsCurrent(q)'
    BY <2>1, <2>2, <2>4 DEF AliveIsCurrent
  <2>8. Charges(q)'
    BY <2>1, <2>5, <2>6, <2>7 DEF Charges, Astray
  <2> QED BY <2>3, <2>8
<1>11. Charges(o)'
  <2> SUFFICES ASSUME o \notin Astray'
               PROVE  OneAlive(o)' /\ OpenHasNone(o)' /\ AliveIsCurrent(o)'
    BY DEF Charges
  <2>1. NoneAlive(o)
    BY <1>5 DEF Charges, OpenHasNone, Astray
  <2>2. \A b \in AttemptsOf(o)' : Alive(b)' => b = a
    BY <1>2, <2>1 DEF NoneAlive, AttemptsOf, Alive
  <2>3. Pending(a)' /\ att'[a].channel = order'[o].channel
    BY <1>2, <1>3 DEF Pending, NewAttempt
  <2> QED BY <1>3, <2>2, <2>3 DEF OneAlive, OpenHasNone, AliveIsCurrent
<1>12. PaidFor(o)'
  BY <1>3 DEF PaidFor
<1> QED BY <1>4, <1>8, <1>9, <1>10, <1>11, <1>12 DEF Inv

LEMMA IssueKeeps ==
    ASSUME OrderAssumption, Inv, NEW w \in Workers, Issue(w)
    PROVE  Inv'
<1>1. /\ UNCHANGED <<expired, crashes, raced, overlooked, overtaken>> /\ Done(w)
      /\ At(w, Under) /\ At(w, {"issue"})
  BY DEF Issue, history, At, Under
<1>2. PICK o \in Orders : worker[w].of = o /\ Made(o) /\ worker[w] \in WorkerType
  BY <1>1, HolderFacts
<1>3. order[o].status # "TO_BE_PAID"
  BY <1>1, <1>2 DEF Inv, Holds, At, StatusOf
<1>4. CASE UNCHANGED <<order, att>>
  <2>1. OrderStep({w}, o)
    BY <1>4, AttSame, OrderSame
  <2> QED BY <1>1, <1>2, <1>4, <2>1, Ends DEF Inv, TypeOK
<1>5. CASE /\ order[o].status = "INIT" /\ order[o].price = 0
           /\ SetStatus(o, "SUCCESS") /\ UNCHANGED att
  <2>1. /\ order' \in [Orders -> OrderType]
        /\ order'[o].status = "SUCCESS" /\ order'[o].price = 0
        /\ \A q \in Orders : q # o => order'[q] = order[q]
    BY <1>5, StatusIs DEF Inv, Statuses
  <2>2. OrderStep({w}, o)
    BY <2>1 DEF OrderStep, Made, Open
  <2> QED BY <1>1, <1>2, <1>5, <2>1, <2>2, Ends
<1>6. ASSUME order[o].status = "INIT", NEW a \in Attempts, att[a] = NoAttempt,
             att' = [att EXCEPT ![a] = NewAttempt(o, worker[w].channel)],
             order' = [order EXCEPT ![o].status = "TO_BE_PAID",
                                    ![o].channel = worker[w].channel]
      PROVE  Inv'
  <2>1. worker[w].channel \in Channels
    BY <1>1 DEF Inv, Remembers
  <2> QED BY <1>1, <1>2, <1>6, <2>1, IssueNewKeeps
<1> QED BY <1>2, <1>3, <1>4, <1>5, <1>6 DEF Issue

LEMMA ApplyKeeps ==
    ASSUME OrderAssumption, Inv, NEW w \in Workers, Apply(w)
    PROVE  Inv'
<1>1. /\ UNCHANGED <<att, expired, crashes, raced, overlooked, overtaken>>
      /\ At(w, Under) /\ At(w, {"apply"})
  BY DEF Apply, history, At, Under
<1>2. PICK o \in Orders : worker[w].of = o /\ Made(o) /\ holder[o] = {w} /\ Charges(o)
  BY <1>1, HolderFacts
<1>3. Holds(w) /\ AllKept /\ \A q \in Orders : SnapsKept(q)
  BY <1>1, AttSame DEF Inv
<1>4. ASSUME order[o].status \in {"INIT", "REPRICING"}, NEW p \in Prices \cup {0},
             order' = [order EXCEPT ![o].price = p, ![o].coupon = TRUE,
                                    ![o].status = IF p = 0 THEN "SUCCESS" ELSE "INIT"],
             Done(w)
      PROVE  Inv'
  <2>1. order \in [Orders -> OrderType] /\ p \in Nat
    BY DEF Inv, TypeOK, OrderAssumption
  <2>2. \A q \in Orders : q # o => order'[q] = order[q]
    BY <1>4, <2>1
  <2>3. /\ order'[o].price = p
        /\ p = 0 => order'[o].status = "SUCCESS"
        /\ p # 0 => order'[o].status = "INIT"
    BY <1>4, <2>1 DEF OrderType
  <2>4. order'[o] \in OrderType
    BY <1>4, <2>1 DEF OrderType, Statuses
  <2>5. order' \in [Orders -> OrderType]
    BY <1>4, <2>1, <2>2, <2>4
  <2>6. o \in Astray' \/ NoneAlive(o)
    BY <1>1, <1>2, <1>3, <1>4 DEF Charges, OpenHasNone, Holds, At, StatusOf, Astray
  <2>7. Moves({w}, o)
    BY <1>1, <1>2, <2>6 DEF Moves
  <2>8. Made(o)'
    BY <2>3 DEF Made
  <2>9. OrderStep({w}, o)
    BY <2>3, <2>7, <2>8 DEF OrderStep
  <2> QED BY <1>1, <1>2, <1>4, <2>2, <2>5, <2>9, Ends
<1>5. CASE GoTo(w, "undo") /\ UNCHANGED <<order, holder>>
  <2> DEFINE undo == [worker[w] EXCEPT !.pc = "undo"]
  <2>1. /\ undo \in WorkerType /\ undo.pc = "undo" /\ undo.of = o
        /\ undo.op = worker[w].op /\ undo.channel = worker[w].channel
    BY <1>1, <1>2, HolderFacts DEF WorkerType, Places, Under
  <2>2. Put(w, undo)
    BY <1>5, Zenon DEF GoTo, Put
  <2>3. Made(o)'
    BY <1>2, <1>5 DEF Made
  <2> HIDE DEF undo
  <2>4. Step({w}) /\ worker'[w] = undo /\ Remembers(w)'
    BY <1>1, <1>2, <1>3, <1>5, <2>1, <2>2, <2>3, HolderGoes, OrderSame
       DEF Step, Inv, TypeOK, Under
  <2>5. NoneAlive(o) => NoneAlive(o)'
    BY <1>1 DEF NoneAlive, AttemptsOf, Alive
  <2>6. Holds(w)'
    BY <1>1, <1>2, <1>3, <1>5, <2>1, <2>4, <2>5 DEF Holds, At, StatusOf, Astray
  <2> QED BY <2>4, <2>6, StepKeeps
<1> QED BY <1>2, <1>4, <1>5 DEF Apply

LEMMA UndoKeeps ==
    ASSUME OrderAssumption, Inv, NEW w \in Workers, Undo(w)
    PROVE  Inv'
<1>1. /\ UNCHANGED <<att, expired, crashes, raced, overlooked, overtaken>> /\ Done(w)
      /\ At(w, Under) /\ At(w, {"undo"})
  BY DEF Undo, history, At, Under
<1>2. PICK o \in Orders : worker[w].of = o /\ Made(o) /\ Charges(o)
  BY <1>1, HolderFacts
<1> DEFINE st == IF order[o].status = "REPRICING" THEN "INIT" ELSE order[o].status
<1>3. /\ st \in Statuses
      /\ order[o].status = "REPRICING" => st = "INIT"
      /\ order[o].status # "REPRICING" => st = order[o].status
  BY DEF Inv, TypeOK, OrderType, Statuses
<1>4. SetStatus(o, st)
  BY <1>2 DEF Undo
<1> HIDE DEF st
<1>5. /\ order' \in [Orders -> OrderType]
      /\ order'[o].status = st /\ order'[o].price = order[o].price /\ SameChannel(o)
      /\ \A q \in Orders : q # o => order'[q] = order[q]
  BY <1>3, <1>4, StatusIs DEF Inv
<1>6. order[o].status = "REPRICING" => o \in Astray' \/ NoneAlive(o)
  BY <1>1, <1>2 DEF Inv, Holds, At, StatusOf, Astray
<1>7. SnapsKept(o)
  BY <1>1, AttSame
<1>8. OrderStep({w}, o)
  BY <1>1, <1>2, <1>3, <1>5, <1>6, <1>7 DEF OrderStep, Moves, Made
<1> QED BY <1>1, <1>2, <1>5, <1>8, Ends

------------------------------------------------------------------------------
(* What is learned of payments.                                            *)

\* A step of a callback, of the learner, of a provider or of time.
LEMMA EnvKeeps ==
    ASSUME OrderAssumption, Inv, UNCHANGED <<worker, holder, crashes, raced, overtaken>>,
           overlooked \subseteq overlooked', overlooked' \subseteq Orders,
           expired' \subseteq Orders,
           order' \in [Orders -> OrderType],
           att' \in [Attempts -> AttemptType \cup {NoAttempt}],
           AllKept, \A o \in Orders : OrderStep({}, o)
    PROVE  Inv'
<1>1. TypeOK' /\ OthersKept({})
  BY DEF Inv, TypeOK, OthersKept
<1>2. Step({})
  BY <1>1 DEF Step
<1> QED BY <1>2, StepKeeps

\* A worker writes down what it learned, and is done.
LEMMA Learns ==
    ASSUME OrderAssumption, Inv, NEW w \in Workers, Put(w, Idle),
           UNCHANGED <<expired, holder, crashes, raced, overlooked>>,
           overtaken \subseteq overtaken', overtaken' \subseteq Orders,
           order' \in [Orders -> OrderType],
           att' \in [Attempts -> AttemptType \cup {NoAttempt}],
           AllKept, \A o \in Orders : OrderStep({w}, o)
    PROVE  Inv'
<1>1. TypeOK' /\ OthersKept({w}) /\ worker'[w] = Idle
  BY Moved, HolderSame, NothingTyped DEF Inv, TypeOK
<1>2. Step({w})
  BY <1>1 DEF Step
<1>3. Remembers(w)' /\ Holds(w)'
  BY <1>1, Forgets DEF Idle
<1> QED BY <1>2, <1>3, StepKeeps

LEMMA Completes ==
    ASSUME NEW W, NEW o \in Orders, order'[o].status = "SUCCESS",
           NEW a \in AttemptsOf(o), Taken(a), AllKept
    PROVE  OrderStep(W, o)
<1>1. Taken(a)'
  BY DEF AllKept, Kept, AttemptsOf
<1> QED BY <1>1 DEF OrderStep, Made, Open

\* A snapshot of an order's attempt is booked as paid, and the order completed.
LEMMA BookAndComplete ==
    ASSUME OrderAssumption, Inv, NEW W, NEW o \in Orders, NEW a \in AttemptsOf(o),
           Taken(a), Book(a), SetStatus(o, "SUCCESS")
    PROVE  /\ order' \in [Orders -> OrderType]
           /\ att' \in [Attempts -> AttemptType \cup {NoAttempt}]
           /\ AllKept /\ \A p \in Orders : OrderStep(W, p)
<1>1. a \in Attempts /\ att[a].of = o /\ att[a] \in AttemptType
  BY AttemptFacts, OrderIsNotZero DEF AttemptsOf, Inv
<1>2. /\ att' \in [Attempts -> AttemptType \cup {NoAttempt}]
      /\ AllKept /\ \A p \in Orders : p # o => SnapsKept(p)
  BY <1>1, SnapIs DEF Inv, Book
<1>3. /\ order' \in [Orders -> OrderType] /\ order'[o].status = "SUCCESS"
      /\ \A p \in Orders : p # o => order'[p] = order[p]
  BY StatusIs DEF Inv, Statuses
<1>4. OrderStep(W, o)
  BY <1>2, <1>3, Completes
<1> QED BY <1>2, <1>3, <1>4, OrderSame

\* Only the snapshot of an order's attempt changes.
LEMMA SnapOnly ==
    ASSUME OrderAssumption, Inv, NEW W, NEW o \in Orders, NEW a \in AttemptsOf(o),
           NEW x \in {"pending", "failed", "closed", "paid", "refunded"},
           att' = [att EXCEPT ![a].snap = x], order' = order,
           \/ ~Alive(a) \/ order[o].status \notin Open \/ o \in Astray'
           \/ x = "pending" \/ (x = "failed" /\ att[a].channel = "stripe")
    PROVE  /\ order' \in [Orders -> OrderType]
           /\ att' \in [Attempts -> AttemptType \cup {NoAttempt}]
           /\ AllKept /\ \A p \in Orders : OrderStep(W, p)
<1>1. a \in Attempts /\ att[a].of = o /\ att[a] \in AttemptType
  BY AttemptFacts, OrderIsNotZero DEF AttemptsOf, Inv
<1>2. /\ att' \in [Attempts -> AttemptType \cup {NoAttempt}]
      /\ AllKept /\ (\A p \in Orders : p # o => SnapsKept(p))
      /\ att'[a] = [att[a] EXCEPT !.snap = x]
      /\ \A b \in Attempts : b # a => att'[b] = att[b]
  BY <1>1, SnapIs DEF Inv
<1>3. ~Alive(a) \/ x = "pending" \/ (x = "failed" /\ att[a].channel = "stripe") =>
        SnapsKept(o)
  BY <1>1, <1>2 DEF SnapsKept, AttemptsOf, Pending, Alive, AttemptType
<1>4. OrderStep(W, o)
  BY <1>3 DEF OrderStep, Made, SameChannel
<1> QED BY <1>2, <1>4, OrderSame DEF Inv, TypeOK

LEMMA StripeEventKeeps ==
    ASSUME OrderAssumption, Inv, NEW a \in Attempts, StripeEvent(a)
    PROVE  Inv'
<1>1. /\ UNCHANGED <<expired, worker, holder, crashes, raced, overlooked, overtaken>>
      /\ att[a].channel = "stripe"
  BY DEF StripeEvent, history
<1>2. PICK o \in Orders : att[a].of = o /\ a \in AttemptsOf(o)
  BY <1>1, AttemptFacts DEF Inv, AttemptsOf
<1>3. \/ Taken(a) /\ Book(a) /\ SetStatus(o, "SUCCESS")
      \/ /\ order' = order
         /\ \E x \in {"pending", "failed", "closed", "paid", "refunded"} :
                /\ att' = [att EXCEPT ![a].snap = x]
                /\ x = "failed" \/ ~Alive(a)
  BY <1>2 DEF StripeEvent, Alive
<1>4. CASE Taken(a) /\ Book(a) /\ SetStatus(o, "SUCCESS")
  BY <1>1, <1>2, <1>4, BookAndComplete, EnvKeeps DEF Inv, TypeOK
<1>5. ASSUME order' = order, NEW x \in {"pending", "failed", "closed", "paid", "refunded"},
             att' = [att EXCEPT ![a].snap = x], x = "failed" \/ ~Alive(a)
      PROVE  Inv'
  BY <1>1, <1>2, <1>5, SnapOnly, EnvKeeps DEF Inv, TypeOK
<1> QED BY <1>3, <1>4, <1>5

LEMMA StripeSyncKeeps ==
    ASSUME OrderAssumption, Inv, NEW o \in Orders, StripeSync(o)
    PROVE  Inv'
<1>1. /\ UNCHANGED <<expired, worker, holder, crashes, raced, overlooked, overtaken>>
      /\ Latest(o, "stripe") # 0
  BY DEF StripeSync, history
<1>2. PICK a \in AttemptsOf(o) : a = Latest(o, "stripe")
  BY <1>1, LatestIsOne
<1>3. \/ Taken(a) /\ Book(a) /\ SetStatus(o, "SUCCESS")
      \/ /\ order' = order
         /\ \E x \in {"pending", "failed", "closed", "paid", "refunded"} :
                /\ att' = [att EXCEPT ![a].snap = x]
                /\ order[o].status \notin Open \/ x = "pending" \/ ~Alive(a)
  BY <1>2 DEF StripeSync, Book, Alive, Open
<1>4. CASE Taken(a) /\ Book(a) /\ SetStatus(o, "SUCCESS")
  BY <1>1, <1>4, BookAndComplete, EnvKeeps DEF Inv, TypeOK
<1>5. ASSUME order' = order, NEW x \in {"pending", "failed", "closed", "paid", "refunded"},
             att' = [att EXCEPT ![a].snap = x],
             order[o].status \notin Open \/ x = "pending" \/ ~Alive(a)
      PROVE  Inv'
  BY <1>1, <1>5, SnapOnly, EnvKeeps DEF Inv, TypeOK
<1> QED BY <1>3, <1>4, <1>5

\* The payment completes its order, or is overlooked.
LEMMA NativeEventKeeps ==
    ASSUME OrderAssumption, Inv, NEW a \in Attempts, NativeEvent(a)
    PROVE  Inv'
<1>1. /\ UNCHANGED <<expired, worker, holder, crashes, raced, overtaken>>
      /\ att[a].channel = "native" /\ Taken(a) /\ Book(a)
  BY DEF NativeEvent, Taken
<1>2. PICK o \in Orders : att[a].of = o /\ a \in AttemptsOf(o)
  BY <1>1, AttemptFacts DEF Inv, AttemptsOf
<1>3. CASE SetStatus(o, "SUCCESS") /\ UNCHANGED overlooked
  BY <1>1, <1>2, <1>3, BookAndComplete, EnvKeeps DEF Inv, TypeOK
<1>4. CASE order' = order /\ order[o].status = "SUCCESS" /\ overlooked' = overlooked
  <2>1. order[o].status \notin Open /\ att' = [att EXCEPT ![a].snap = "paid"]
    BY <1>1, <1>4 DEF Open, Book
  <2> QED BY <1>1, <1>2, <1>4, <2>1, SnapOnly, EnvKeeps DEF Inv, TypeOK
<1>5. CASE order' = order /\ overlooked' = overlooked \cup {o}
  <2>1. o \in Astray' /\ att' = [att EXCEPT ![a].snap = "paid"]
    BY <1>1, <1>5 DEF Book, Astray
  <2>2. /\ overlooked \subseteq overlooked' /\ overlooked' \subseteq Orders
        /\ expired' \subseteq Orders
    BY <1>1, <1>5 DEF Inv, TypeOK
  <2> QED BY <1>1, <1>2, <1>5, <2>1, <2>2, SnapOnly, EnvKeeps
<1> QED BY <1>2, <1>3, <1>4, <1>5 DEF NativeEvent

\* The attempt a worker has in hand.
LEMMA InHand ==
    ASSUME OrderAssumption, Inv, NEW w \in Workers, At(w, Knowing)
    PROVE  /\ worker[w].of \in Orders
           /\ \E a \in AttemptsOf(worker[w].of) :
                /\ Knows(w, a) /\ Max(worker[w].left) = a /\ att[a] \in AttemptType
<1>1. worker[w].of \in Orders /\ \E a \in Attempts : Knows(w, a)
  BY DEF Inv, Remembers, At, Knowing
<1>2. PICK a \in Attempts : Knows(w, a)
  BY <1>1
<1>3. a \in AttemptsOf(worker[w].of) /\ Max(worker[w].left) = a
  BY <1>2, MaxOfOne DEF Knows, AttemptsOf
<1>4. att[a] \in AttemptType
  BY <1>1, <1>2, AttemptFacts, OrderIsNotZero DEF Knows, Inv
<1> QED BY <1>1, <1>2, <1>3, <1>4

LEMMA SyncApplyKeeps ==
    ASSUME OrderAssumption, Inv, NEW w \in Workers, SyncApply(w)
    PROVE  Inv'
<1>1. /\ UNCHANGED <<expired, holder, crashes, raced, overlooked, overtaken>> /\ Put(w, Idle)
      /\ At(w, {"sync"}) /\ At(w, Knowing)
  BY DEF SyncApply, history, At, Knowing
<1>2. PICK o \in Orders : worker[w].of = o
  BY <1>1, InHand
<1>3. PICK a \in AttemptsOf(o) :
        Knows(w, a) /\ Max(worker[w].left) = a /\ att[a] \in AttemptType
  BY <1>1, <1>2, InHand
<1>4. CASE worker[w].seen = "paid" /\ Book(a) /\ SetStatus(o, "SUCCESS")
  <2>1. Taken(a)
    BY <1>1, <1>3, <1>4 DEF Knows
  <2> QED BY <1>1, <1>4, <2>1, BookAndComplete, Learns DEF Inv, TypeOK
<1>5. CASE /\ worker[w].seen = "closed" /\ UNCHANGED order
           /\ att' = [att EXCEPT ![a].snap = IF @ = "paid" THEN @ ELSE "closed"]
  <2>1. PICK x \in {"paid", "closed"} : x = IF att[a].snap = "paid" THEN att[a].snap ELSE "closed"
    OBVIOUS
  <2>2. att' = [att EXCEPT ![a].snap = x]
    BY <1>5, <2>1
  <2>3. ~Alive(a)
    BY <1>1, <1>3, <1>5 DEF Knows, Alive
  <2> QED BY <1>1, <1>5, <2>2, <2>3, SnapOnly, Learns DEF Inv, TypeOK
<1>6. CASE UNCHANGED <<order, att>>
  BY <1>1, <1>6, AttSame, OrderSame, Learns DEF Inv, TypeOK
<1> QED BY <1>2, <1>3, <1>4, <1>5, <1>6 DEF SyncApply

LEMMA PingxxWriteKeeps ==
    ASSUME OrderAssumption, Inv, NEW w \in Workers, PingxxWrite(w)
    PROVE  Inv'
<1>1. /\ UNCHANGED <<expired, holder, crashes, raced, overlooked, overtaken>> /\ Put(w, Idle)
      /\ At(w, {"callback"}) /\ At(w, Knowing)
  BY DEF PingxxWrite, history, At, Knowing
<1>2. PICK o \in Orders : worker[w].of = o
  BY <1>1, InHand
<1>3. PICK a \in AttemptsOf(o) : Knows(w, a) /\ Max(worker[w].left) = a
  BY <1>1, <1>2, InHand
<1>4. Taken(a) /\ Book(a) /\ SetStatus(o, "SUCCESS")
  BY <1>1, <1>2, <1>3 DEF Knows, PingxxWrite
<1> QED BY <1>1, <1>4, BookAndComplete, Learns DEF Inv, TypeOK

\* A bound webhook completes its order, overtaken if that was not to be paid.
LEMMA WebhookWriteKeeps ==
    ASSUME OrderAssumption, Inv, NEW w \in Workers, WebhookWrite(w)
    PROVE  Inv'
<1>1. /\ UNCHANGED <<expired, holder, crashes, raced, overlooked>> /\ Put(w, Idle)
      /\ At(w, {"webhook"}) /\ At(w, Knowing)
  BY DEF WebhookWrite, At, Knowing
<1>2. PICK o \in Orders : worker[w].of = o
  BY <1>1, InHand
<1>3. PICK a \in AttemptsOf(o) : Knows(w, a) /\ Max(worker[w].left) = a
  BY <1>1, <1>2, InHand
<1>4. overtaken \subseteq overtaken' /\ overtaken' \subseteq Orders
  BY <1>2 DEF WebhookWrite, Inv, TypeOK
<1>5. CASE Book(a) /\ SetStatus(o, "SUCCESS")
  <2>1. Taken(a)
    BY <1>1, <1>3 DEF Knows
  <2> QED BY <1>1, <1>4, <1>5, <2>1, BookAndComplete, Learns
<1>6. CASE UNCHANGED <<order, att>>
  BY <1>1, <1>4, <1>6, AttSame, OrderSame, Learns DEF Inv, TypeOK
<1> QED BY <1>2, <1>3, <1>5, <1>6 DEF WebhookWrite

LEMMA RefundAskKeeps ==
    ASSUME OrderAssumption, Inv, NEW w \in Workers, NEW o \in Orders, RefundAsk(w, o)
    PROVE  Inv'
<1>1. /\ UNCHANGED <<order, expired, holder, crashes, raced, overlooked, overtaken>>
      /\ Latest(o, "stripe") # 0 /\ Made(o)
  BY DEF RefundAsk, history
<1>2. PICK a \in Attempts : a = Latest(o, "stripe") /\ att[a].of = o
  BY <1>1, LatestIsOne DEF AttemptsOf
<1> DEFINE r == [Idle EXCEPT !.pc = "refund", !.of = o, !.left = {a}]
<1>3. att[a] \in AttemptType
  BY <1>2, AttemptFacts, OrderIsNotZero DEF Inv
<1>4. r \in WorkerType
  BY <1>2, NothingTyped DEF WorkerType, Places, Knowing
<1>5. /\ Put(w, r) /\ worker' \in [Workers -> WorkerType] /\ worker'[w] = r
      /\ \A v \in Workers \ {w} : worker'[v] = worker[v]
  BY <1>2, <1>4, Moved DEF Inv, RefundAsk
<1>6. r.pc = "refund" /\ r.op = "none" /\ r.of = o /\ r.left = {a}
  BY DEF Idle
<1> HIDE DEF r
<1>7. Taken(a) /\ att' = [att EXCEPT ![a].remote = "refunded"]
  BY <1>2 DEF RefundAsk
<1>8. /\ att' \in [Attempts -> AttemptType \cup {NoAttempt}]
      /\ AllKept /\ \A q \in Orders : SnapsKept(q)
  BY <1>3, <1>7, RemoteIs DEF Inv, Taken, Remotes
<1>9. Step({w})
  BY <1>1, <1>5, <1>8, HolderSame, OrderSame DEF Step, Inv, TypeOK
<1>10. att'[a].of = o /\ Made(o)'
  BY <1>1, <1>2, <1>8 DEF AllKept, Kept, Made
<1>11. Knows(w, a)'
  BY <1>5, <1>6, <1>10 DEF Knows, At
<1>12. Remembers(w)' /\ Holds(w)'
  BY <1>5, <1>6, <1>10, <1>11 DEF Remembers, Holds, At, Under
<1> QED BY <1>9, <1>12, StepKeeps

LEMMA RefundWriteKeeps ==
    ASSUME OrderAssumption, Inv, NEW w \in Workers, RefundWrite(w)
    PROVE  Inv'
<1>1. /\ UNCHANGED <<expired, holder, crashes, raced, overlooked, overtaken>> /\ Put(w, Idle)
      /\ At(w, Knowing)
  BY DEF RefundWrite, history, At, Knowing
<1>2. PICK o \in Orders : worker[w].of = o
  BY <1>1, InHand
<1>3. PICK a \in Attempts : Max(worker[w].left) = a /\ att[a].of = o /\ att[a] \in AttemptType
  BY <1>1, <1>2, InHand DEF AttemptsOf
<1>4. /\ att' \in [Attempts -> AttemptType \cup {NoAttempt}]
      /\ AllKept /\ \A p \in Orders : p # o => SnapsKept(p)
  BY <1>3, SnapIs DEF Inv, RefundWrite
<1>5. /\ order' \in [Orders -> OrderType] /\ order'[o].status = "REFUND"
      /\ \A p \in Orders : p # o => order'[p] = order[p]
  BY <1>2, StatusIs DEF Inv, RefundWrite, Statuses
<1>6. OrderStep({w}, o)
  BY <1>5 DEF OrderStep, Made, Open
<1> QED BY <1>1, <1>4, <1>5, <1>6, OrderSame, Learns DEF Inv, TypeOK

LEMMA StatusOnly ==
    ASSUME OrderAssumption, Inv, UNCHANGED <<att, expired, holder, worker, history>>,
           order' \in [Orders -> OrderType], NEW o \in Orders,
           \A p \in Orders : p # o => order'[p] = order[p], OrderStep({}, o)
    PROVE  Inv'
<1>1. AllKept /\ \A p \in Orders : OrderStep({}, p)
  BY AttSame, OrderSame
<1> QED BY <1>1, EnvKeeps DEF Inv, TypeOK, history

LEMMA RevokeKeeps ==
    ASSUME OrderAssumption, Inv, NEW o \in Orders, Revoke(o)
    PROVE  Inv'
<1>1. /\ order' \in [Orders -> OrderType] /\ order'[o].status = "REFUND"
      /\ \A p \in Orders : p # o => order'[p] = order[p]
  BY StatusIs DEF Inv, Revoke, Statuses
<1>2. OrderStep({}, o)
  BY <1>1 DEF OrderStep, Made, Open
<1> QED BY <1>1, <1>2, StatusOnly DEF Revoke

LEMMA ImportKeeps ==
    ASSUME OrderAssumption, Inv, NEW o \in Orders, Import(o)
    PROVE  Inv'
<1>1. order \in [Orders -> OrderType]
  BY DEF Inv, TypeOK
<1>2. /\ \A p \in Orders : p # o => order'[p] = order[p]
      /\ order'[o].status = "SUCCESS" /\ order'[o].price = 0
  BY <1>1 DEF Import, OrderType
<1>3. order'[o] \in OrderType
  BY <1>1 DEF Import, OrderType, Statuses
<1>4. order' \in [Orders -> OrderType]
  BY <1>1, <1>2, <1>3 DEF Import
<1>5. OrderStep({}, o)
  BY <1>2 DEF OrderStep, Made, Open
<1> QED BY <1>2, <1>4, <1>5, StatusOnly DEF Import

------------------------------------------------------------------------------
(* The learner, the providers, time and crashes.                           *)

LEMMA OpenEnds ==
    ASSUME OrderAssumption, Inv, NEW a \in Attempts, att[a].remote = "open",
           NEW x \in {"paid", "closed"}, att' = [att EXCEPT ![a].remote = x],
           UNCHANGED <<order, expired, holder, worker, history>>
    PROVE  Inv'
<1>1. att[a] \in AttemptType
  BY AttemptFacts DEF Inv
<1>2. /\ att' \in [Attempts -> AttemptType \cup {NoAttempt}]
      /\ AllKept /\ \A o \in Orders : SnapsKept(o)
  BY <1>1, RemoteIs DEF Inv, Taken, Alive, Remotes
<1> QED BY <1>2, OrderSame, EnvKeeps DEF Inv, TypeOK, history

LEMMA ExpireKeeps ==
    ASSUME OrderAssumption, Inv, NEW o \in Orders, Expire(o)
    PROVE  Inv'
BY AttSame, OrderSame, EnvKeeps DEF Expire, Inv, TypeOK, history

LEMMA CrashKeeps ==
    ASSUME OrderAssumption, Inv, NEW w \in Workers, Crash(w)
    PROVE  Inv'
<1>1. /\ UNCHANGED <<order, att, expired, raced, overlooked, overtaken>> /\ Put(w, Idle)
      /\ crashes' = crashes + 1 /\ holder' = [o \in Orders |-> holder[o] \ {w}]
  BY DEF Crash
<1>2. /\ worker' \in [Workers -> WorkerType] /\ worker'[w] = Idle
      /\ \A v \in Workers \ {w} : worker'[v] = worker[v]
  BY <1>1, Moved, NothingTyped DEF Inv
<1>3. TypeOK' /\ OthersKept({w})
  BY <1>1, <1>2 DEF Inv, TypeOK, OthersKept
<1>4. Step({w})
  BY <1>1, <1>3, AttSame, OrderSame DEF Step
<1>5. Remembers(w)' /\ Holds(w)'
  BY <1>2, Forgets DEF Idle
<1> QED BY <1>4, <1>5, StepKeeps

------------------------------------------------------------------------------
(* The invariant.                                                          *)

LEMMA InitHolds ==
    ASSUME OrderAssumption, Init
    PROVE  Inv
<1>1. TypeOK
  BY NothingTyped DEF Init, TypeOK
<1>2. \A w \in Workers : worker[w].pc = "idle" /\ worker[w].op = "none"
  BY DEF Init, Idle
<1>3. \A a \in Attempts : att[a] = NoAttempt
  BY DEF Init
<1>4. \A o \in Orders : order[o].status = "none" /\ AttemptsOf(o) = {}
  BY <1>3, OrderIsNotZero DEF Init, NoOrder, NoAttempt, AttemptsOf
<1>5. \A w \in Workers : Remembers(w) /\ Holds(w)
  BY <1>2 DEF Remembers, Holds, At, Under, Knowing
<1>6. \A o \in Orders : Charges(o) /\ PaidFor(o)
  BY <1>4 DEF Charges, OneAlive, OpenHasNone, AliveIsCurrent, PaidFor
<1> QED BY <1>1, <1>3, <1>5, <1>6 DEF Inv, Belongs

LEMMA StutterKeeps ==
    ASSUME OrderAssumption, Inv, UNCHANGED vars
    PROVE  Inv'
BY AttSame, OrderSame, EnvKeeps DEF Inv, TypeOK, vars

LEMMA NextKeeps ==
    ASSUME OrderAssumption, Inv, Next
    PROVE  Inv'
<1>1. ASSUME NEW w \in Workers, InitBuyRecord(w)
      PROVE  Inv'
  BY <1>1, InitReadKeeps, InitCreateKeeps, InitReplaceKeeps, InitRefreshKeeps
     DEF InitBuyRecord
<1>2. ASSUME NEW w \in Workers, Reprice(w)
      PROVE  Inv'
  BY <1>2, CloseClaimKeeps, CancelKeeps, RestoreKeeps, SettleKeeps, IssueKeeps,
     ApplyKeeps, UndoKeeps DEF Reprice
<1>3. ASSUME NEW w \in Workers, Learn(w)
      PROVE  Inv'
  BY <1>3, SyncApplyKeeps, PingxxWriteKeeps, RefundWriteKeeps, WebhookWriteKeeps,
     SyncReadKeeps, RefundAskKeeps, PingxxReadKeeps, WebhookReadKeeps DEF Learn
<1>4. ASSUME NEW a \in Attempts, Pay(a) \/ Lapse(a)
      PROVE  Inv'
  BY <1>4, OpenEnds DEF Pay, Lapse
<1> QED BY <1>1, <1>2, <1>3, <1>4, CrashKeeps, CouponKeeps, ChargeKeeps,
           StripeSyncKeeps, RevokeKeeps, ImportKeeps, ExpireKeeps, StripeEventKeeps,
           NativeEventKeeps DEF Next

\* At any time an order has one attempt alive at most, and none when it is
\* open for another, unless a payment of it was overlooked or the order was
\* claimed or completed on a status it no longer had; a worker that closes
\* attempts holds the order's lock, and none is alive when it is done; a
\* successful order with a price was paid for, unless init_buy_record raced.
THEOREM Invariant == OrderAssumption => (Spec => []Inv)
<1> SUFFICES ASSUME OrderAssumption
             PROVE  Spec => []Inv
  OBVIOUS
<1>1. Init => Inv
  BY InitHolds
<1>2. Inv /\ [Next]_vars => Inv'
  BY NextKeeps, StutterKeeps
<1> QED BY <1>1, <1>2, PTL DEF Spec

LEMMA AtMostOne ==
    ASSUME NEW S, \A x, y \in S : x = y
    PROVE  Cardinality(S) <= 1
<1>1. CASE S = {}
  BY <1>1, FS_EmptySet
<1>2. CASE S # {}
  <2>1. PICK x \in S : TRUE
    BY <1>2
  <2>2. S = {x}
    BY <2>1
  <2> QED BY <2>2, FS_Singleton
<1> QED BY <1>1, <1>2

\* A learner is charged once for an order: of its attempts one at most is paid,
\* whatever was repriced, cancelled, retried or interrupted, and none can be
\* paid any more when the order is open for another; but for an order whose
\* payment was booked on the snapshot alone, and one that was claimed or
\* completed on a status it no longer had.
THEOREM ChargesOnce == OrderAssumption => (Spec => []ChargedOnce)
<1> SUFFICES ASSUME OrderAssumption
             PROVE  Spec => []ChargedOnce
  OBVIOUS
<1>1. Inv => ChargedOnce
  <2> SUFFICES ASSUME Inv, NEW o \in Orders \ (overlooked \cup overtaken)
               PROVE  /\ Cardinality({a \in AttemptsOf(o) : att[a].remote = "paid"}) <= 1
                      /\ order[o].status = "INIT" =>
                            \A a \in AttemptsOf(o) : att[a].remote \in {"closed", "refunded"}
    BY DEF ChargedOnce
  <2>1. OneAlive(o) /\ OpenHasNone(o)
    BY DEF Inv, Charges, Astray
  <2>2. Cardinality({a \in AttemptsOf(o) : att[a].remote = "paid"}) <= 1
    BY <2>1, AtMostOne DEF OneAlive, Alive
  <2>3. ASSUME order[o].status = "INIT", NEW a \in AttemptsOf(o)
        PROVE  att[a].remote \in {"closed", "refunded"}
    <3>1. att[a] \in AttemptType
      BY AttemptFacts, OrderIsNotZero DEF AttemptsOf, Inv
    <3>2. ~Alive(a)
      BY <2>1, <2>3 DEF OpenHasNone, NoneAlive
    <3> QED BY <3>1, <3>2 DEF Alive, AttemptType, Remotes
  <2> QED BY <2>2, <2>3
<1> QED BY <1>1, Invariant, PTL

\* A course with a price is entered by a payment the provider took.
THEOREM PaymentBeforeEntry == OrderAssumption => (Spec => []NothingForFree)
<1> SUFFICES ASSUME OrderAssumption
             PROVE  Spec => []NothingForFree
  OBVIOUS
<1>1. Inv => NothingForFree
  BY DEF Inv, PaidFor, NothingForFree
<1> QED BY <1>1, Invariant, PTL

------------------------------------------------------------------------------
(* The ends of an order.                                                   *)

EndKept(o) ==
    /\ order[o].status = "SUCCESS" => order'[o].status \in {"SUCCESS", "REFUND"}
    /\ /\ order[o].status = "REFUND"
       /\ \A a \in AttemptsOf(o) : att[a].channel = "stripe"
       => order'[o].status = "REFUND"

\* One order changes at most.
LEMMA OneOrder ==
    ASSUME NEW o, \A p \in Orders : p # o => order'[p].status = order[p].status,
           o \in Orders \ (raced' \cup overtaken') => EndKept(o)
    PROVE  EndsKept
BY DEF EndsKept, EndKept

LEMMA SetsOpen ==
    ASSUME TypeOK, NEW o \in Orders, NEW st \in Statuses, SetStatus(o, st),
           order[o].status \notin {"SUCCESS", "REFUND"} \/ st = order[o].status
    PROVE  EndsKept
<1>1. order'[o].status = st /\ \A p \in Orders : p # o => order'[p] = order[p]
  BY StatusIs
<1> QED BY <1>1, OneOrder DEF EndKept

LEMMA SetsSuccess ==
    ASSUME TypeOK, NEW o \in Orders, SetStatus(o, "SUCCESS"),
           \/ order[o].status # "REFUND"
           \/ \E a \in AttemptsOf(o) : att[a].channel # "stripe"
    PROVE  EndsKept
<1>1. order'[o].status = "SUCCESS" /\ \A p \in Orders : p # o => order'[p] = order[p]
  BY StatusIs DEF Statuses
<1> QED BY <1>1, OneOrder DEF EndKept

LEMMA SetsRefund ==
    ASSUME TypeOK, NEW o \in Orders, SetStatus(o, "REFUND")
    PROVE  EndsKept
<1>1. order'[o].status = "REFUND" /\ \A p \in Orders : p # o => order'[p] = order[p]
  BY StatusIs DEF Statuses
<1> QED BY <1>1, OneOrder DEF EndKept

LEMMA OrdersSame == order' = order => EndsKept
BY DEF EndsKept

\* init_buy_record: what it overwrites after a change counts as raced.
LEMMA BuyRecordEnds ==
    ASSUME OrderAssumption, Inv, NEW w \in Workers, InitBuyRecord(w)
    PROVE  EndsKept
<1> USE DEF Inv, TypeOK
<1>1. CASE InitRead(w)
  BY <1>1, OrdersSame DEF InitRead
<1>2. CASE InitCreate(w)
  <2>1. ASSUME NEW o \in Orders, NEW p \in Prices, FirstFree(o),
               order' = [order EXCEPT ![o] = NewOrder(p)]
        PROVE  EndsKept
    <3>1. order[o].status = "none" /\ \A q \in Orders : q # o => order'[q] = order[q]
      BY <2>1 DEF FirstFree, Made
    <3> QED BY <3>1, OneOrder DEF EndKept
  <2> QED BY <1>2, <2>1, OrdersSame DEF InitCreate
<1>3. CASE InitReplace(w) \/ InitRefresh(w)
  <2>1. PICK o \in Orders : worker[w].of = o
    BY <1>3 DEF InitReplace, InitRefresh, Remembers, At
  <2>2. worker[w].seen \in {"INIT", "TO_BE_PAID"} /\ raced' = raced \cup Stale(w)
    BY <1>3 DEF InitReplace, InitRefresh, Remembers, At
  <2>3. o \notin raced' => EndKept(o)
    BY <2>1, <2>2 DEF Stale, EndKept
  <2>4. CASE InitRefresh(w)
    <3>1. \A q \in Orders : q # o => order'[q] = order[q]
      BY <2>1, <2>4 DEF InitRefresh
    <3> QED BY <2>3, <3>1, OneOrder
  <2>5. CASE InitReplace(w)
    <3> DEFINE closed == [order EXCEPT ![o].status = "TIMEOUT", ![o].coupon = FALSE]
    <3>1. closed \in [Orders -> OrderType] /\ \A q \in Orders : q # o => closed[q] = order[q]
      <4> HIDE DEF TypeOK
      <4> QED BY ClosedIs
    <3>2. \/ \E p \in Orders, price \in Prices :
                FirstFree(p) /\ order' = [closed EXCEPT ![p] = NewOrder(price)]
          \/ order' = closed
      BY <2>1, <2>5 DEF InitReplace
    <3> HIDE DEF closed
    <3>3. CASE order' = closed
      BY <2>3, <3>1, <3>3, OneOrder
    <3>4. ASSUME NEW p \in Orders, NEW price \in Prices, FirstFree(p),
                 order' = [closed EXCEPT ![p] = NewOrder(price)]
          PROVE  EndsKept
      <4>1. order[p].status = "none"
        BY <3>4 DEF FirstFree, Made
      <4>2. \A q \in Orders : q # o /\ q # p => order'[q] = order[q]
        BY <3>1, <3>4
      <4>3. \A q \in Orders \ raced' : EndKept(q)
        BY <2>3, <4>1, <4>2 DEF EndKept
      <4> QED BY <4>3 DEF EndsKept, EndKept
    <3> QED BY <3>2, <3>3, <3>4
  <2> QED BY <1>3, <2>4, <2>5
<1> QED BY <1>1, <1>2, <1>3 DEF InitBuyRecord

\* generate_charge and use_coupon_code move an open order only, or one overtaken.
LEMMA RepriceEnds ==
    ASSUME OrderAssumption, Inv, NEW w \in Workers, Reprice(w)
    PROVE  EndsKept
<1>1. CASE Cancel(w)
  BY <1>1, OrdersSame DEF Cancel
<1>2. CASE ~Cancel(w)
  <2>1. At(w, Under)
    BY <1>2 DEF Reprice, CloseClaim, Restore, Settle, Issue, Apply, Undo, At, Under
  <2>2. PICK o \in Orders : worker[w].of = o
    BY <2>1, HolderFacts
  <2>3. order[o].status \in Statuses /\ TypeOK
    BY DEF Inv, TypeOK, OrderType
  <2>4. Unclaimed(w) \in Statuses
    BY DEF Unclaimed, Statuses
  <2>5. CASE CloseClaim(w)
    <3>1. CASE UNCHANGED order
      BY <3>1, OrdersSame
    <3>2. PICK st \in Statuses : UNCHANGED order \/ SetStatus(o, st)
      BY <2>2, <2>4, <2>5 DEF CloseClaim, Statuses
    <3>3. CASE SetStatus(o, st) /\ order[o].status \notin {"SUCCESS", "REFUND"}
      BY <2>3, <3>3, SetsOpen
    <3>4. CASE SetStatus(o, st) /\ order[o].status # StatusRead(w)
      <4>1. o \in overtaken'
        BY <2>2, <2>5, <3>4 DEF CloseClaim
      <4>2. \A p \in Orders : p # o => order'[p] = order[p]
        BY <2>3, <3>4, StatusIs
      <4> QED BY <4>1, <4>2, OneOrder
    <3>5. StatusRead(w) \notin {"SUCCESS", "REFUND"} \/ UNCHANGED order
      BY <2>5 DEF CloseClaim
    <3> QED BY <3>1, <3>2, <3>3, <3>4, <3>5
  <2>6. CASE Restore(w)
    <3>1. PICK st \in Statuses : /\ SetStatus(o, st)
                                 /\ order[o].status = "REPRICING" \/ st = order[o].status
      BY <2>2, <2>3, <2>6 DEF Restore, Statuses
    <3> QED BY <2>3, <3>1, SetsOpen
  <2>7. CASE Undo(w)
    <3>1. PICK st \in Statuses : /\ SetStatus(o, st)
                                 /\ order[o].status = "REPRICING" \/ st = order[o].status
      BY <2>2, <2>3, <2>7 DEF Undo, Statuses
    <3> QED BY <2>3, <3>1, SetsOpen
  <2>8. CASE Settle(w)
    BY <2>2, <2>3, <2>4, <2>8, SetsOpen, OrdersSame DEF Settle
  <2>9. CASE Issue(w)
    <3>1. CASE UNCHANGED order
      BY <3>1, OrdersSame
    <3>2. CASE SetStatus(o, "SUCCESS") /\ order[o].status \in Open
      BY <2>3, <3>2, SetsOpen DEF Statuses, Open
    <3>3. CASE /\ order' = [order EXCEPT ![o].status = "TO_BE_PAID",
                                         ![o].channel = worker[w].channel]
               /\ order[o].status \in Open
      <4>1. \A p \in Orders : p # o => order'[p] = order[p]
        BY <3>3 DEF Inv, TypeOK
      <4> QED BY <3>3, <4>1, OneOrder DEF EndKept, Open
    <3> QED BY <2>2, <2>9, <3>1, <3>2, <3>3 DEF Issue, Open
  <2>10. CASE Apply(w)
    <3>1. CASE UNCHANGED order
      BY <3>1, OrdersSame
    <3>2. ASSUME order[o].status \in Open, NEW p,
                 order' = [order EXCEPT ![o].price = p, ![o].coupon = TRUE,
                                        ![o].status = IF p = 0 THEN "SUCCESS" ELSE "INIT"]
          PROVE  EndsKept
      <4>1. \A q \in Orders : q # o => order'[q] = order[q]
        BY <3>2 DEF Inv, TypeOK
      <4> QED BY <3>2, <4>1, OneOrder DEF EndKept, Open
    <3> QED BY <2>2, <2>10, <3>1, <3>2 DEF Apply, Open
  <2> QED BY <1>2, <2>5, <2>6, <2>7, <2>8, <2>9, <2>10 DEF Reprice
<1> QED BY <1>1, <1>2

\* A callback, or a sync, that completes a refunded order does it by an attempt
\* that is not Stripe's.
LEMMA LearnEnds ==
    ASSUME OrderAssumption, Inv, NEW w \in Workers, Learn(w)
    PROVE  EndsKept
<1>1. CASE UNCHANGED order
  BY <1>1, OrdersSame
<1>2. CASE SyncApply(w) \/ PingxxWrite(w) \/ RefundWrite(w)
  <2>1. At(w, Knowing)
    BY <1>2 DEF SyncApply, PingxxWrite, RefundWrite, At, Knowing
  <2>2. PICK o \in Orders : worker[w].of = o
    BY <2>1, InHand
  <2>3. PICK a \in AttemptsOf(o) : Knows(w, a) /\ Max(worker[w].left) = a /\ a # 0
    BY <2>1, <2>2, InHand DEF AttemptsOf, Attempts, OrderAssumption
  <2>4. CASE RefundWrite(w)
    BY <2>2, <2>4, SetsRefund DEF RefundWrite, Inv
  <2>5. CASE PingxxWrite(w)
    <3>1. att[a].channel = "pingxx" /\ SetStatus(o, "SUCCESS")
      BY <2>2, <2>3, <2>5 DEF PingxxWrite, Knows, At
    <3> QED BY <3>1, SetsSuccess DEF Inv
  <2>6. CASE SyncApply(w) /\ order' # order
    <3>1. a = Latest(o, "native") /\ SetStatus(o, "SUCCESS")
      BY <2>2, <2>3, <2>6 DEF SyncApply
    <3>2. att[a].channel = "native"
      BY <2>3, <3>1, LatestIsOne
    <3> QED BY <3>1, <3>2, SetsSuccess DEF Inv
  <2> QED BY <1>1, <1>2, <2>4, <2>5, <2>6
<1>3. CASE (\E o \in Orders : SyncRead(w, o) \/ RefundAsk(w, o))
           \/ (\E a \in Attempts : PingxxRead(w, a) \/ WebhookRead(w, a))
  BY <1>1, <1>3 DEF SyncRead, RefundAsk, PingxxRead, WebhookRead
<1>4. CASE WebhookWrite(w) /\ ~UNCHANGED order
  <2>1. At(w, Knowing)
    BY <1>4 DEF WebhookWrite, At, Knowing
  <2>2. PICK o \in Orders : worker[w].of = o
    BY <2>1, InHand
  <2>3. SetStatus(o, "SUCCESS")
    BY <1>4, <2>2 DEF WebhookWrite
  <2>4. CASE order[o].status # "REFUND"
    BY <2>3, <2>4, SetsSuccess DEF Inv
  <2>5. CASE order[o].status = "REFUND"
    <3>1. o \in overtaken'
      BY <1>4, <2>2, <2>5 DEF WebhookWrite
    <3>2. \A p \in Orders : p # o => order'[p] = order[p]
      BY <2>3, StatusIs DEF Inv, Statuses
    <3> QED BY <3>1, <3>2, OneOrder
  <2> QED BY <2>4, <2>5
<1> QED BY <1>1, <1>2, <1>3, <1>4 DEF Learn

LEMMA EventEnds ==
    ASSUME OrderAssumption, Inv, NEW a \in Attempts, StripeEvent(a) \/ NativeEvent(a)
    PROVE  EndsKept
<1>1. att[a].of \in Orders
  BY AttemptFacts DEF StripeEvent, NativeEvent, Inv
<1>2. CASE order' = order
  BY <1>2, OrdersSame
<1>3. CASE CanComplete(a) /\ SetStatus(att[a].of, "SUCCESS")
  BY <1>1, <1>3, SetsSuccess DEF CanComplete, Inv
<1> QED BY <1>2, <1>3 DEF StripeEvent, NativeEvent

LEMMA StripeSyncEnds ==
    ASSUME OrderAssumption, Inv, NEW o \in Orders, StripeSync(o)
    PROVE  EndsKept
<1>1. CASE order' = order
  BY <1>1, OrdersSame
<1>2. CASE order' # order
  <2>1. PICK a \in AttemptsOf(o) : a = Latest(o, "stripe")
    BY LatestIsOne DEF StripeSync
  <2>2. SetStatus(o, "SUCCESS") /\ CanComplete(a)
    BY <1>2, <2>1 DEF StripeSync
  <2>3. order[o].status # "REFUND"
    BY <2>1, <2>2 DEF CanComplete, AttemptsOf
  <2> QED BY <2>2, <2>3, SetsSuccess DEF Inv
<1> QED BY <1>1, <1>2

LEMMA ImportEnds ==
    ASSUME OrderAssumption, Inv, NEW o \in Orders, Import(o)
    PROVE  EndsKept
<1>1. /\ order'[o].status = "SUCCESS" /\ order[o].status # "REFUND"
      /\ \A p \in Orders : p # o => order'[p] = order[p]
  BY DEF Import, Inv, TypeOK, OrderType
<1> QED BY <1>1, OneOrder DEF EndKept

LEMMA EveryStepKeepsEnds ==
    ASSUME OrderAssumption, Inv, Next
    PROVE  EndsKept
<1>1. CASE UNCHANGED order
  BY <1>1, OrdersSame
<1>2. ASSUME NEW w \in Workers, Crash(w) \/ \E o \in Orders :
                Coupon(w, o) \/ \E ch \in Channels : Charge(w, o, ch)
      PROVE  EndsKept
  BY <1>1, <1>2 DEF Crash, Coupon, Charge, Lock
<1>3. ASSUME NEW o \in Orders, Revoke(o) \/ Expire(o)
      PROVE  EndsKept
  BY <1>1, <1>3, SetsRefund DEF Revoke, Expire, Inv
<1>4. ASSUME NEW a \in Attempts, Pay(a) \/ Lapse(a)
      PROVE  EndsKept
  BY <1>1, <1>4 DEF Pay, Lapse
<1> QED BY <1>2, <1>3, <1>4, BuyRecordEnds, RepriceEnds, LearnEnds, EventEnds,
           StripeSyncEnds, ImportEnds DEF Next

\* A completed order stays completed or is refunded, and the refund of one paid
\* through Stripe is the end, unless init_buy_record, the claim of a charge or a
\* bound webhook had read the order before.
THEOREM EndsAreFinal == OrderAssumption => (Spec => CompletedStays)
<1> SUFFICES ASSUME OrderAssumption
             PROVE  Spec => CompletedStays
  OBVIOUS
<1>1. Inv /\ [Next]_vars => [EndsKept]_vars
  BY EveryStepKeepsEnds
<1> QED BY <1>1, Invariant, PTL DEF Spec, CompletedStays
==============================================================================
