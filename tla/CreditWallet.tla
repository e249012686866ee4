---------------------------- MODULE CreditWallet ----------------------------
(***************************************************************************)
(* One creator's credits: the wallet row, its buckets and the ledger, and  *)
(* the transactions that move them.  From flaskr/service/billing:          *)
(* settlement.py (usage is charged), operation_credits.py (credits are     *)
(* reserved, then captured or released) and wallets.py (buckets expire).   *)
(*                                                                         *)
(* The database runs at REPEATABLE READ: the plain reads of a transaction  *)
(* come from a snapshot taken at its first one, while locking reads and    *)
(* the WHERE of an UPDATE see the current rows.  A transaction is          *)
(* therefore two steps, the one that takes its snapshot and the one that   *)
(* commits.  The Redis lock of a settlement is not modelled: it times out  *)
(* and the settlement goes on without it.                                  *)
(***************************************************************************)
EXTENDS Integers, FiniteSets, Functions, FiniteSetsExt

CONSTANTS
    Workers,        \* processes and threads that open transactions
    Buckets,        \* wallet_bucket_bids, granted before the model starts
    Usages,         \* usage_bids of billable usage records
    Operations,     \* operations that reserve credits
    Granted,        \* credits of each bucket
    Cost,           \* credits of a usage or an operation
    MaxVersion,     \* bound: versions up to which free usages are replayed
    Idle

ASSUME CreditAssumption ==
    /\ IsFiniteSet(Buckets)
    /\ Granted \in [Buckets -> Nat \ {0}]
    /\ Cost \in [Usages \cup Operations -> Nat]
    /\ \A o \in Operations : Cost[o] > 0
    /\ MaxVersion \in Nat

VARIABLES
    wallet,     \* CreditWallet
    bucket,     \* CreditWalletBucket
    ledger,     \* CreditLedgerEntry rows, unique in <<kind, of>>
    ended,      \* buckets whose effective_to has passed
    txn         \* what each worker is doing, with its snapshot

vars == <<wallet, bucket, ledger, ended, txn>>

Statuses == {"active", "exhausted", "expired"}
Subjects == Usages \cup Operations \cup Buckets
Entries ==
    [kind : {"consume", "hold", "capture", "release", "expire"},
     of : Subjects, takes : [Buckets -> Nat]]

Snapshot == [wallet |-> wallet, bucket |-> bucket, ledger |-> ledger, ended |-> ended]

Init ==
    /\ wallet = [available |-> SumFunction(Granted), reserved |-> 0,
                 consumed |-> 0, version |-> 0]
    /\ bucket = [b \in Buckets |-> [available |-> Granted[b], reserved |-> 0,
                                    consumed |-> 0, expired |-> 0, status |-> "active"]]
    /\ ledger = {}
    /\ ended = {}
    /\ txn = [w \in Workers |-> Idle]

------------------------------------------------------------------------------
(* Helpers.                                                                *)

Recorded(kind, of, rows) == \E e \in rows : e.kind = kind /\ e.of = of

NeverCollides(kind, of) == TRUE

\* The unique key on (creator_bid, idempotency_key) lets the row in.
KeyFree(kind, of) == ~Recorded(kind, of, ledger)

Row(kind, of, takes) == [kind |-> kind, of |-> of, takes |-> takes]

\* sync_credit_bucket_status.
Synced(row) ==
    [row EXCEPT !.status = IF @ = "expired" THEN @
                           ELSE IF row.available = 0 THEN "exhausted" ELSE "active"]

Total(rows, column) == SumFunction([b \in Buckets |-> rows[b][column]])

\* Available credits of the active buckets outside closed.
Consumable(rows, closed) ==
    SumFunction([b \in Buckets |->
        IF rows[b].status = "active" /\ b \notin closed THEN rows[b].available ELSE 0])

\* The ways to take amount from the active buckets outside closed.  The code
\* empties them one after the other in an order of its own; here any split.
Takes(rows, closed, amount) ==
    {take \in [Buckets -> 0 .. amount] :
        /\ SumFunction(take) = amount
        /\ \A b \in Buckets :
              take[b] > 0 => /\ rows[b].status = "active"
                             /\ b \notin closed
                             /\ take[b] <= rows[b].available}

VersionIgnored(w) == txn[w].view.wallet.version <= wallet.version

\* The WHERE of persist_credit_wallet_snapshot still matches; if not,
\* "credit_wallet_version_conflict" rolls the transaction back.
VersionHolds(w) == txn[w].view.wallet.version = wallet.version

\* The version the update writes.
Written(w) == txn[w].view.wallet.version + 1

Doing(w, op) == txn[w] # Idle /\ txn[w].op = op

Commit(w) == txn' = [txn EXCEPT ![w] = Idle]

\* The rows w sees through its snapshot.
View(w) == txn[w].view

------------------------------------------------------------------------------
(* Opening a transaction.                                                  *)

Begin(w, op, of) ==
    /\ txn[w] = Idle
    /\ txn' = [txn EXCEPT ![w] = [op |-> op, of |-> of, view |-> Snapshot]]
    /\ UNCHANGED <<wallet, bucket, ledger, ended>>

\* settle_bill_usage loads the usage before it takes its lock.
BeginSettle(w) == \E u \in Usages : Begin(w, "settle", u)

\* capture and release load the hold before they lock the creator's row.
BeginCapture(w) ==
    \E o \in Operations : Recorded("hold", o, ledger) /\ Begin(w, "capture", o)

BeginRelease(w) ==
    \E o \in Operations : Recorded("hold", o, ledger) /\ Begin(w, "release", o)

\* A scan loads the buckets that have ended.
BeginExpire(w) == Begin(w, "expire", Idle)

------------------------------------------------------------------------------
(* settle_bill_usage.                                                      *)

\* No metric charges anything: the wallet is written back as it was read.
SettleFree(w) ==
    /\ Doing(w, "settle")
    /\ ~Recorded("consume", txn[w].of, View(w).ledger)
    /\ Cost[txn[w].of] = 0
    /\ VersionHolds(w)
    /\ wallet.version < MaxVersion
    /\ wallet' = [wallet EXCEPT !.available = View(w).wallet.available,
                                !.reserved = View(w).wallet.reserved,
                                !.version = Written(w)]
    /\ Commit(w)
    /\ UNCHANGED <<bucket, ledger, ended>>

\* The buckets as w sees them once take is debited.
Debited(w, take) ==
    [b \in Buckets |->
        IF take[b] = 0 THEN View(w).bucket[b]
        ELSE Synced([View(w).bucket[b] EXCEPT !.available = @ - take[b],
                                              !.consumed = @ + take[b]])]

\* The debited columns are written in absolute values computed from the
\* snapshot, and the wallet is summed up again.
Charge(w, closed, take) ==
    LET debited == Debited(w, take) IN
    /\ bucket' = [b \in Buckets |->
           IF take[b] = 0 THEN bucket[b]
           ELSE [bucket[b] EXCEPT !.available = debited[b].available,
                                  !.consumed = debited[b].consumed,
                                  !.status = debited[b].status]]
    /\ wallet' = [available |-> Consumable(debited, closed),
                  reserved |-> Total(debited, "reserved"),
                  consumed |-> View(w).wallet.consumed + Cost[txn[w].of],
                  version |-> Written(w)]
    /\ ledger' = ledger \cup {Row("consume", txn[w].of, take)}

\* The buckets that were open when the usage was recorded are debited.
Settle(w) ==
    LET u == txn[w].of IN
    /\ Doing(w, "settle")
    /\ ~Recorded("consume", u, View(w).ledger)
    /\ Cost[u] > 0
    /\ VersionHolds(w)
    /\ KeyFree("consume", u)
    /\ \E closed \in SUBSET View(w).ended :
       \E take \in Takes(View(w).bucket, closed, Cost[u]) : Charge(w, closed, take)
    /\ Commit(w)
    /\ UNCHANGED ended

------------------------------------------------------------------------------
(* operation_credits.                                                      *)

\* Credits move between two columns of the buckets and of the wallet.
Move(take, from, to) ==
    bucket' = [b \in Buckets |->
        IF take[b] = 0 THEN bucket[b]
        ELSE Synced([bucket[b] EXCEPT ![from] = @ - take[b], ![to] = @ + take[b]])]

Post(amount, from, to) ==
    wallet' = [wallet EXCEPT ![from] = @ - amount, ![to] = @ + amount, !.version = @ + 1]

ReserveFromEnded(o) ==
    /\ KeyFree("hold", o)
    /\ \E take \in Takes(bucket, {}, Cost[o]) :
          /\ Move(take, "available", "reserved")
          /\ ledger' = ledger \cup {Row("hold", o, take)}
    /\ Post(Cost[o], "available", "reserved")
    /\ UNCHANGED <<ended, txn>>

\* The creator's row is locked before anything is read and the wallet and
\* its buckets are read under lock: one step.
Reserve(o) ==
    /\ KeyFree("hold", o)
    /\ \E take \in Takes(bucket, ended, Cost[o]) :
          /\ Move(take, "available", "reserved")
          /\ ledger' = ledger \cup {Row("hold", o, take)}
    /\ Post(Cost[o], "available", "reserved")
    /\ UNCHANGED <<ended, txn>>

\* The ledger shows neither a capture nor a release of the hold; it is read
\* through the snapshot, which is older than the lock on the creator's row.
HoldLooksOpen(w) ==
    /\ ~Recorded("capture", txn[w].of, View(w).ledger)
    /\ ~Recorded("release", txn[w].of, View(w).ledger)

\* The wallet and the held buckets are read under lock, hence current.
EndHold(w, kind, to) ==
    /\ HoldLooksOpen(w)
    /\ KeyFree(kind, txn[w].of)
    /\ \E hold \in ledger :
          /\ hold.kind = "hold" /\ hold.of = txn[w].of
          /\ Move(hold.takes, "reserved", to)
          /\ ledger' = ledger \cup {Row(kind, hold.of, hold.takes)}
    /\ Post(Cost[txn[w].of], "reserved", to)
    /\ Commit(w)
    /\ UNCHANGED ended

Capture(w) == Doing(w, "capture") /\ EndHold(w, "capture", "consumed")

Release(w) == Doing(w, "release") /\ EndHold(w, "release", "available")

------------------------------------------------------------------------------
(* Expiry.                                                                 *)

BucketEnds(b) ==
    /\ b \notin ended
    /\ ended' = ended \cup {b}
    /\ UNCHANGED <<wallet, bucket, ledger, txn>>

\* The ended buckets of the snapshot, less those whose expiry of this cycle
\* is in the ledger already: their savepoint is rolled back.
Expiring(w) ==
    {b \in View(w).ended :
        /\ View(w).bucket[b].status = "active"
        /\ View(w).bucket[b].available > 0
        /\ KeyFree("expire", b)}

\* _expire_bucket_available_credits_if_unchanged: the bucket is as read.
Unchanged(w, b) ==
    \A column \in {"available", "reserved", "expired", "status"} :
        bucket[b][column] = View(w).bucket[b][column]

\* The batch of _expire_credit_wallet_buckets_in_session.
Expire(w) ==
    LET expiring == Expiring(w)
        rows == View(w).bucket
    IN
    /\ Doing(w, "expire")
    /\ expiring # {}
    /\ VersionHolds(w)
    /\ \A b \in expiring : Unchanged(w, b)
    /\ bucket' = [b \in Buckets |->
           IF b \notin expiring THEN bucket[b]
           ELSE [bucket[b] EXCEPT
                    !.available = 0,
                    !.expired = rows[b].expired + rows[b].available,
                    !.status = IF rows[b].reserved > 0 THEN "exhausted" ELSE "expired"]]
    /\ wallet' = [wallet EXCEPT !.available = Consumable(bucket', View(w).ended),
                                !.reserved = Total(bucket', "reserved"),
                                !.version = @ + Cardinality(expiring)]
    /\ ledger' = ledger \cup
           {Row("expire", b, [c \in Buckets |-> IF c = b THEN rows[b].available ELSE 0]) :
               b \in expiring}
    /\ Commit(w)
    /\ UNCHANGED ended

------------------------------------------------------------------------------
\* Every other end leaves the rows alone: already settled, captured or
\* released, too few credits, nothing to expire, a version conflict, a
\* duplicate key, a deadlock victim, a lost worker.
EndWithoutEffect(w) ==
    /\ txn[w] # Idle
    /\ Commit(w)
    /\ UNCHANGED <<wallet, bucket, ledger, ended>>

Next ==
    \/ \E w \in Workers :
          \/ BeginSettle(w) \/ BeginCapture(w) \/ BeginRelease(w) \/ BeginExpire(w)
          \/ SettleFree(w) \/ Settle(w) \/ Capture(w) \/ Release(w) \/ Expire(w)
          \/ EndWithoutEffect(w)
    \/ \E o \in Operations : Reserve(o)
    \/ \E b \in Buckets : BucketEnds(b)

Spec == Init /\ [][Next]_vars

------------------------------------------------------------------------------
(* Properties.                                                             *)

BucketRows ==
    [available : Nat, reserved : Int, consumed : Nat, expired : Nat, status : Statuses]
WalletRows == [available : Int, reserved : Int, consumed : Nat, version : Nat]
Snapshots ==
    [wallet : WalletRows, bucket : [Buckets -> BucketRows], ledger : SUBSET Entries,
     ended : SUBSET Buckets]
Transactions ==
    [op : {"settle", "capture", "release", "expire"}, of : Subjects \cup {Idle},
     view : Snapshots]

\* Every variable stays in its range; no bucket is overdrawn.
TypeOK ==
    /\ wallet \in WalletRows
    /\ bucket \in [Buckets -> BucketRows]
    /\ ledger \in SUBSET Entries
    /\ ended \in SUBSET Buckets
    /\ txn \in [Workers -> Transactions \cup {Idle}]

\* Credits move between the columns of a bucket and none appears or is lost,
\* though settlements and expiries write absolute values from old snapshots.
CreditsConserved ==
    \A b \in Buckets :
        bucket[b].available + bucket[b].reserved + bucket[b].consumed + bucket[b].expired
            = Granted[b]

\* What the ledger says was taken from b by rows of the given kinds.
Logged(kinds, b) ==
    MapThenSumSet(LAMBDA e : e.takes[b], {e \in ledger : e.kind \in kinds})

\* The ledger accounts for every credit that left or is held in a bucket: a
\* usage replayed by two workers, or a hold captured twice, is charged once.
LedgerExplainsBuckets ==
    \A b \in Buckets :
        /\ bucket[b].consumed = Logged({"consume", "capture"}, b)
        /\ bucket[b].expired = Logged({"expire"}, b)
        /\ bucket[b].reserved = Logged({"hold"}, b) - Logged({"capture", "release"}, b)

\* The wallet row agrees with its buckets: reserved and consumed exactly,
\* available up to the credits of buckets that ended and have not expired.
WalletMatchesBuckets ==
    /\ wallet.reserved = Total(bucket, "reserved")
    /\ wallet.consumed = Total(bucket, "consumed")
    /\ wallet.available >= Consumable(bucket, ended)
    /\ wallet.available <= Total(bucket, "available")

\* Spent and expired credits never come back: no commit overwrites the
\* counters another transaction has moved on.
SpentStaysSpent ==
    [][\A b \in Buckets : /\ bucket'[b].consumed >= bucket[b].consumed
                          /\ bucket'[b].expired >= bucket[b].expired]_vars

\* What the tests of the reservations say: a captured hold is not released.
ReservationEndsOnce ==
    \A o \in Operations :
        ~(Recorded("capture", o, ledger) /\ Recorded("release", o, ledger))
==============================================================================
