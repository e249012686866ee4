------------------------- MODULE CreditWalletProofs -------------------------
(***************************************************************************)
(* Theorems about CreditWallet, in two layers.                             *)
(*                                                                         *)
(* The version of the wallet row protects the buckets: every transaction   *)
(* that changes a bucket advances it, so a transaction that finds the      *)
(* version of its snapshot also finds the rows of its snapshot             *)
(* (SnapshotCurrent), and the absolute values it writes are the increments *)
(* it means.  That much keeps every bucket sound.                          *)
(*                                                                         *)
(* On top of it the accounts: the wallet's columns are sums over the       *)
(* buckets and the ledger's rows add up to what left them.  A fold is      *)
(* characterised by an additive function on the subsets it sums over,      *)
(* whose existence and uniqueness are shown by a least counterexample.     *)
(***************************************************************************)
EXTENDS CreditWallet, FiniteSetTheorems, NaturalsInduction, WellFoundedInduction, TLAPS

\* The wallet row has its four columns, whatever the sums in them are.
WalletShaped ==
    /\ wallet = [available |-> wallet.available, reserved |-> wallet.reserved,
                 consumed |-> wallet.consumed, version |-> wallet.version]
    /\ wallet.version \in Nat

\* The bucket rows are typed; in particular no bucket is overdrawn.
BucketsTyped == bucket \in [Buckets -> BucketRows]

\* Ledger rows and the set of ended buckets are typed.
LedgerTyped == ledger \in SUBSET Entries /\ ended \in SUBSET Buckets

\* A snapshot is typed and no newer than the rows; one with the wallet's
\* version still shows the buckets as they are.
SnapshotCurrent ==
    /\ txn = [w \in Workers |-> txn[w]]
    /\ \A w \in Workers : txn[w] # Idle =>
          /\ txn[w].op = "settle" => txn[w].of \in Usages
          /\ txn[w].op \in {"capture", "release"} => txn[w].of \in Operations
          /\ View(w).bucket \in [Buckets -> BucketRows]
          /\ View(w).ended \in SUBSET Buckets
          /\ View(w).ended \subseteq ended
          /\ View(w).wallet.version \in Nat
          /\ View(w).wallet.version <= wallet.version
          /\ View(w).wallet.version = wallet.version =>
                View(w).bucket = bucket /\ View(w).wallet = wallet

\* The inductive invariant of the rows.
WalletInvariant ==
    /\ WalletShaped
    /\ BucketsTyped
    /\ LedgerTyped
    /\ SnapshotCurrent
    /\ CreditsConserved

\* A step that leaves the snapshots of others alone, and either leaves the
\* buckets and the version alone or advances the version, keeps every
\* snapshot current.
LEMMA SnapshotsSurvive ==
    ASSUME WalletShaped, SnapshotCurrent, wallet'.version \in Nat,
           \/ bucket' = bucket /\ wallet' = wallet
           \/ wallet'.version > wallet.version,
           ended \subseteq ended',
           \/ txn' = txn
           \/ \E w \in Workers : Commit(w)
    PROVE  SnapshotCurrent'
<1>1. txn' = [w \in Workers |-> txn'[w]]
  BY DEF SnapshotCurrent, Commit
<1>2. ASSUME NEW v \in Workers, txn'[v] # Idle
      PROVE  txn'[v] = txn[v] /\ txn[v] # Idle
  BY <1>2 DEF SnapshotCurrent, Commit
<1>3. ASSUME NEW v \in Workers, txn'[v] # Idle
      PROVE  /\ txn'[v].op = "settle" => txn'[v].of \in Usages
             /\ txn'[v].op \in {"capture", "release"} => txn'[v].of \in Operations
             /\ View(v)'.bucket \in [Buckets -> BucketRows]
             /\ View(v)'.ended \in SUBSET Buckets
             /\ View(v)'.ended \subseteq ended'
             /\ View(v)'.wallet.version \in Nat
             /\ View(v)'.wallet.version <= wallet'.version
             /\ View(v)'.wallet.version = wallet'.version =>
                   View(v)'.bucket = bucket' /\ View(v)'.wallet = wallet'
  <2>1. View(v)' = View(v)
    BY <1>2, <1>3 DEF View
  <2>2. /\ txn[v].op = "settle" => txn[v].of \in Usages
        /\ txn[v].op \in {"capture", "release"} => txn[v].of \in Operations
        /\ View(v).bucket \in [Buckets -> BucketRows]
        /\ View(v).ended \in SUBSET Buckets
        /\ View(v).ended \subseteq ended
        /\ View(v).wallet.version \in Nat
        /\ View(v).wallet.version <= wallet.version
        /\ View(v).wallet.version = wallet.version =>
              View(v).bucket = bucket /\ View(v).wallet = wallet
    BY <1>2, <1>3 DEF SnapshotCurrent
  <2>3. QED
    BY <1>2, <1>3, <2>1, <2>2 DEF WalletShaped
<1>4. QED
  BY <1>1, <1>3 DEF SnapshotCurrent

------------------------------------------------------------------------------
(* What one transaction does to one bucket.                                *)

\* A bucket row is typed and its columns add up to what was granted.
Sound(row, b) ==
    /\ row \in BucketRows
    /\ row.available + row.reserved + row.consumed + row.expired = Granted[b]

\* The buckets hold what was granted, seen one by one.
LEMMA SoundBuckets ==
    ASSUME BucketsTyped, CreditsConserved, NEW b \in Buckets
    PROVE  Sound(bucket[b], b)
BY DEF BucketsTyped, CreditsConserved, Sound

\* sync_credit_bucket_status touches no column but the status.
LEMMA SyncedKeeps ==
    ASSUME NEW row \in BucketRows
    PROVE  /\ Synced(row) \in BucketRows
           /\ Synced(row).available = row.available
           /\ Synced(row).reserved = row.reserved
           /\ Synced(row).consumed = row.consumed
           /\ Synced(row).expired = row.expired
BY DEF Synced, BucketRows, Statuses

\* Buckets rewritten one by one into sound rows are conserved.
LEMMA Rewritten ==
    ASSUME NEW f, bucket' = [b \in Buckets |-> f[b]],
           \A b \in Buckets : Sound(f[b], b)
    PROVE  BucketsTyped' /\ CreditsConserved'
<1>1. ASSUME NEW b \in Buckets
      PROVE  bucket'[b] = f[b] /\ Sound(f[b], b)
  OBVIOUS
<1>2. BucketsTyped'
  BY <1>1 DEF BucketsTyped, Sound
<1>3. CreditsConserved'
  BY <1>1 DEF CreditsConserved, Sound
<1>4. QED
  BY <1>2, <1>3

\* Credits that leave available for one of the other columns leave the row
\* sound.
LEMMA Debit ==
    ASSUME NEW b \in Buckets, NEW row, Sound(row, b), NEW n \in Nat, n <= row.available
    PROVE  /\ Sound([row EXCEPT !.available = @ - n, !.consumed = @ + n], b)
           /\ Sound([row EXCEPT !.available = @ - n, !.reserved = @ + n], b)
<1>1. row \in BucketRows
  BY DEF Sound
<1>2. /\ row.available - n \in Nat
      /\ row.consumed + n \in Nat
      /\ row.reserved + n \in Int
  BY <1>1 DEF BucketRows
<1>3. /\ [row EXCEPT !.available = @ - n, !.consumed = @ + n] \in BucketRows
      /\ [row EXCEPT !.available = @ - n, !.reserved = @ + n] \in BucketRows
  BY <1>1, <1>2 DEF BucketRows
<1>4. /\ (row.available - n) + row.reserved + (row.consumed + n) + row.expired = Granted[b]
      /\ (row.available - n) + (row.reserved + n) + row.consumed + row.expired = Granted[b]
  BY <1>1 DEF Sound, BucketRows
<1>5. QED
  BY <1>1, <1>3, <1>4 DEF Sound, BucketRows

\* Credits that leave reserved for one of the other columns leave it sound.
LEMMA Unhold ==
    ASSUME NEW b \in Buckets, NEW row, Sound(row, b), NEW n \in Nat
    PROVE  /\ Sound([row EXCEPT !.reserved = @ - n, !.consumed = @ + n], b)
           /\ Sound([row EXCEPT !.available = @ + n, !.reserved = @ - n], b)
<1>1. row \in BucketRows
  BY DEF Sound
<1>2. /\ row.available + n \in Nat
      /\ row.consumed + n \in Nat
      /\ row.reserved - n \in Int
  BY <1>1 DEF BucketRows
<1>3. /\ [row EXCEPT !.reserved = @ - n, !.consumed = @ + n] \in BucketRows
      /\ [row EXCEPT !.available = @ + n, !.reserved = @ - n] \in BucketRows
  BY <1>1, <1>2 DEF BucketRows
<1>4. /\ row.available + (row.reserved - n) + (row.consumed + n) + row.expired = Granted[b]
      /\ (row.available + n) + (row.reserved - n) + row.consumed + row.expired = Granted[b]
  BY <1>1 DEF Sound, BucketRows
<1>5. QED
  BY <1>1, <1>3, <1>4 DEF Sound, BucketRows

\* Synced leaves a sound row sound.
LEMMA SoundSynced ==
    ASSUME NEW b \in Buckets, NEW row, Sound(row, b)
    PROVE  Sound(Synced(row), b)
BY SyncedKeeps DEF Sound

\* Every way to take an amount takes from each bucket what it has.
LEMMA TakesBounded ==
    ASSUME NEW rows, NEW closed, NEW amount \in Nat, NEW take \in Takes(rows, closed, amount),
           NEW b \in Buckets, rows[b].available \in Nat
    PROVE  take[b] \in Nat /\ take[b] <= rows[b].available
BY DEF Takes

\* A wallet row keeps its shape under an update of some columns.
LEMMA ShapeKept ==
    ASSUME WalletShaped, NEW a, NEW r, NEW n \in Nat,
           wallet' = [wallet EXCEPT !.available = a, !.reserved = r, !.version = n]
    PROVE  WalletShaped' /\ wallet'.version = n
BY DEF WalletShaped

\* Spent and expired credits of every bucket stay.
Onward ==
    \A b \in Buckets : /\ bucket'[b].consumed >= bucket[b].consumed
                       /\ bucket'[b].expired >= bucket[b].expired

------------------------------------------------------------------------------
(* The invariant, one transaction at a time.                               *)

\* A settlement that commits found the version of its snapshot, hence its
\* buckets: the absolute values it writes are debits of the current rows.
LEMMA SettleKeeps ==
    ASSUME WalletInvariant, NEW w \in Workers, Settle(w)
    PROVE  WalletInvariant' /\ Onward
<1> DEFINE u == txn[w].of
<1>1. /\ View(w).bucket = bucket
      /\ wallet.version \in Nat
      /\ Written(w) = wallet.version + 1
      /\ Cost[u] \in Nat
      /\ u \in Subjects
  <2>1. txn[w] # Idle /\ txn[w].op = "settle" /\ View(w).wallet.version = wallet.version
    BY DEF Settle, Doing, VersionHolds, View
  <2>2. View(w).bucket = bucket /\ wallet.version \in Nat /\ u \in Usages
    BY <2>1 DEF WalletInvariant, SnapshotCurrent, WalletShaped
  <2>3. QED
    BY <2>1, <2>2, CreditAssumption DEF Written, View, Subjects
<1>2. PICK closed, take : take \in Takes(bucket, closed, Cost[u]) /\ Charge(w, closed, take)
  BY <1>1 DEF Settle
<1> DEFINE moved(b) == [bucket[b] EXCEPT !.available = @ - take[b],
                                         !.consumed = @ + take[b]]
           after(b) == IF take[b] = 0 THEN bucket[b]
                       ELSE [bucket[b] EXCEPT !.available = Synced(moved(b)).available,
                                              !.consumed = Synced(moved(b)).consumed,
                                              !.status = Synced(moved(b)).status]
<1>3. bucket' = [b \in Buckets |-> after(b)]
  BY <1>1, <1>2 DEF Charge, Debited
<1>4. ASSUME NEW b \in Buckets
      PROVE  /\ Sound(after(b), b)
             /\ after(b).consumed >= bucket[b].consumed
             /\ after(b).expired >= bucket[b].expired
  <2>1. Sound(bucket[b], b)
    BY SoundBuckets DEF WalletInvariant
  <2>2. bucket[b] \in BucketRows
    BY <2>1 DEF Sound
  <2>3. take[b] \in Nat /\ take[b] <= bucket[b].available
    BY <1>1, <1>2, <2>2, TakesBounded DEF BucketRows
  <2>4. Sound(moved(b), b)
    BY <2>1, <2>3, Debit
  <2>5. /\ Sound(Synced(moved(b)), b)
        /\ Synced(moved(b)).reserved = bucket[b].reserved
        /\ Synced(moved(b)).expired = bucket[b].expired
        /\ Synced(moved(b)).consumed = bucket[b].consumed + take[b]
    BY <2>2, <2>4, SoundSynced, SyncedKeeps DEF Sound, BucketRows
  <2>6. CASE take[b] = 0
    BY <2>1, <2>2, <2>6 DEF BucketRows
  <2>7. CASE take[b] # 0
    <3>1. after(b) = [bucket[b] EXCEPT !.available = Synced(moved(b)).available,
                                       !.consumed = Synced(moved(b)).consumed,
                                       !.status = Synced(moved(b)).status]
      BY <2>7
    <3>2. after(b) = Synced(moved(b))
      BY <2>2, <2>5, <3>1 DEF Sound, BucketRows
    <3>3. QED
      BY <2>2, <2>3, <2>5, <3>2 DEF BucketRows
  <2>8. QED
    BY <2>6, <2>7
<1> HIDE DEF after
<1>5. BucketsTyped' /\ CreditsConserved'
  BY <1>3, <1>4, Rewritten
<1>6. Onward
  BY <1>3, <1>4 DEF Onward
<1>7. WalletShaped' /\ wallet'.version = wallet.version + 1
  <2>1. PICK a, r, c : wallet' = [available |-> a, reserved |-> r, consumed |-> c,
                                  version |-> wallet.version + 1]
    BY <1>1, <1>2 DEF Charge
  <2>2. QED
    BY <1>1, <2>1 DEF WalletShaped
<1>8. LedgerTyped'
  <2>1. take \in [Buckets -> Nat]
    BY <1>1, <1>2 DEF Takes
  <2>2. Row("consume", u, take) \in Entries
    BY <1>1, <2>1 DEF Row, Entries
  <2>3. QED
    BY <1>2, <2>2 DEF Settle, Charge, WalletInvariant, LedgerTyped
<1>9. SnapshotCurrent'
  BY <1>1, <1>7, SnapshotsSurvive DEF WalletInvariant, Settle
<1>10. QED
  BY <1>5, <1>6, <1>7, <1>8, <1>9 DEF WalletInvariant

\* Columns named by a string are the columns of the record.
LEMMA Columns ==
    ASSUME NEW row \in BucketRows, NEW n \in Nat
    PROVE  /\ [row EXCEPT !["available"] = @ - n, !["reserved"] = @ + n]
                = [row EXCEPT !.available = @ - n, !.reserved = @ + n]
           /\ [row EXCEPT !["reserved"] = @ - n, !["consumed"] = @ + n]
                = [row EXCEPT !.reserved = @ - n, !.consumed = @ + n]
           /\ [row EXCEPT !["reserved"] = @ - n, !["available"] = @ + n]
                = [row EXCEPT !.available = @ + n, !.reserved = @ - n]
BY DEF BucketRows

\* A move reserves what a bucket has, or ends a hold.
LEMMA MoveKeeps ==
    ASSUME BucketsTyped, CreditsConserved, NEW take \in [Buckets -> Nat], NEW from, NEW to,
           Move(take, from, to),
           \/ /\ from = "available" /\ to = "reserved"
              /\ \A b \in Buckets : take[b] <= bucket[b].available
           \/ from = "reserved" /\ to = "consumed"
           \/ from = "reserved" /\ to = "available"
    PROVE  BucketsTyped' /\ CreditsConserved' /\ Onward
<1> DEFINE moved(b) == [bucket[b] EXCEPT ![from] = @ - take[b], ![to] = @ + take[b]]
           after(b) == IF take[b] = 0 THEN bucket[b] ELSE Synced(moved(b))
<1>1. bucket' = [b \in Buckets |-> after(b)]
  BY DEF Move
<1>2. ASSUME NEW b \in Buckets
      PROVE  /\ Sound(after(b), b)
             /\ after(b).consumed >= bucket[b].consumed
             /\ after(b).expired >= bucket[b].expired
  <2>1. Sound(bucket[b], b) /\ bucket[b] \in BucketRows /\ take[b] \in Nat
    BY SoundBuckets DEF Sound
  <2>2. /\ Sound(moved(b), b)
        /\ moved(b).consumed >= bucket[b].consumed
        /\ moved(b).expired >= bucket[b].expired
    <3>1. CASE /\ from = "available" /\ to = "reserved"
               /\ take[b] <= bucket[b].available
      <4>1. moved(b) = [bucket[b] EXCEPT !.available = @ - take[b], !.reserved = @ + take[b]]
        BY <2>1, <3>1, Columns
      <4>2. Sound(moved(b), b)
        BY <2>1, <3>1, <4>1, Debit
      <4>3. QED
        BY <2>1, <4>1, <4>2 DEF BucketRows
    <3>2. CASE from = "reserved" /\ to = "consumed"
      <4>1. moved(b) = [bucket[b] EXCEPT !.reserved = @ - take[b], !.consumed = @ + take[b]]
        BY <2>1, <3>2, Columns
      <4>2. Sound(moved(b), b)
        BY <2>1, <4>1, Unhold
      <4>3. QED
        BY <2>1, <4>1, <4>2 DEF BucketRows
    <3>3. CASE from = "reserved" /\ to = "available"
      <4>1. moved(b) = [bucket[b] EXCEPT !.available = @ + take[b], !.reserved = @ - take[b]]
        BY <2>1, <3>3, Columns
      <4>2. Sound(moved(b), b)
        BY <2>1, <4>1, Unhold
      <4>3. QED
        BY <2>1, <4>1, <4>2 DEF BucketRows
    <3>4. QED
      BY <3>1, <3>2, <3>3
  <2> HIDE DEF moved
  <2>3. /\ Sound(Synced(moved(b)), b)
        /\ Synced(moved(b)).consumed = moved(b).consumed
        /\ Synced(moved(b)).expired = moved(b).expired
    BY <2>2, SoundSynced, SyncedKeeps DEF Sound
  <2>4. CASE take[b] = 0
    BY <2>1, <2>4 DEF BucketRows
  <2>5. CASE take[b] # 0
    BY <2>2, <2>3, <2>5
  <2>6. QED
    BY <2>4, <2>5
<1> HIDE DEF after
<1>3. BucketsTyped' /\ CreditsConserved'
  BY <1>1, <1>2, Rewritten
<1>4. Onward
  BY <1>1, <1>2 DEF Onward
<1>5. QED
  BY <1>3, <1>4

\* Its posting advances the version.
LEMMA PostKeeps ==
    ASSUME WalletShaped, NEW amount, NEW from \in {"available", "reserved"},
           NEW to \in {"available", "reserved", "consumed"}, Post(amount, from, to)
    PROVE  WalletShaped' /\ wallet'.version = wallet.version + 1
<1>1. PICK a, r, c : wallet' = [available |-> a, reserved |-> r, consumed |-> c,
                                version |-> wallet.version + 1]
  <2>1. wallet' = [wallet EXCEPT ![from] = @ - amount, ![to] = @ + amount, !.version = @ + 1]
    BY DEF Post
  <2>2. wallet' = [available |-> wallet'.available, reserved |-> wallet'.reserved,
                   consumed |-> wallet'.consumed, version |-> wallet'.version]
    BY <2>1 DEF WalletShaped
  <2>3. wallet'.version = wallet.version + 1
    BY <2>1 DEF WalletShaped
  <2>4. QED
    BY <2>2, <2>3
<1>2. QED
  BY <1>1 DEF WalletShaped

\* Reserving reads and moves current rows, and leaves every snapshot older.
LEMMA ReserveKeeps ==
    ASSUME WalletInvariant, NEW o \in Operations, Reserve(o)
    PROVE  WalletInvariant' /\ Onward
<1>1. PICK take \in Takes(bucket, ended, Cost[o]) :
          Move(take, "available", "reserved") /\ ledger' = ledger \cup {Row("hold", o, take)}
  BY DEF Reserve
<1>2. take \in [Buckets -> Nat] /\ \A b \in Buckets : take[b] <= bucket[b].available
  <2>1. Cost[o] \in Nat /\ \A b \in Buckets : bucket[b].available \in Nat
    BY CreditAssumption DEF WalletInvariant, BucketsTyped, BucketRows
  <2>2. take \in [Buckets -> Nat]
    BY <2>1, <1>1 DEF Takes
  <2>3. QED
    BY <2>1, <2>2, <1>1, TakesBounded
<1>3. BucketsTyped' /\ CreditsConserved' /\ Onward
  BY <1>1, <1>2, MoveKeeps DEF WalletInvariant
<1>4. WalletShaped' /\ wallet'.version = wallet.version + 1
  BY PostKeeps DEF WalletInvariant, Reserve
<1>5. LedgerTyped'
  BY <1>1, <1>2 DEF Reserve, Row, Entries, Subjects, WalletInvariant, LedgerTyped
<1>6. SnapshotCurrent'
  BY <1>4, SnapshotsSurvive DEF WalletInvariant, WalletShaped, Reserve
<1>7. QED
  BY <1>3, <1>4, <1>5, <1>6 DEF WalletInvariant

\* A capture and a release read the wallet and the buckets under lock, so
\* their moves are of current rows whatever their snapshots show.
LEMMA EndHoldKeeps ==
    ASSUME WalletInvariant, NEW w \in Workers, NEW kind \in {"capture", "release"},
           NEW to \in {"consumed", "available"}, EndHold(w, kind, to)
    PROVE  WalletInvariant' /\ Onward
<1>1. PICK hold \in ledger :
          Move(hold.takes, "reserved", to) /\ ledger' = ledger \cup {Row(kind, hold.of, hold.takes)}
  BY DEF EndHold
<1>2. hold \in Entries
  BY <1>1 DEF WalletInvariant, LedgerTyped
<1>3. hold.takes \in [Buckets -> Nat] /\ Row(kind, hold.of, hold.takes) \in Entries
  BY <1>2 DEF Row, Entries
<1>4. BucketsTyped' /\ CreditsConserved' /\ Onward
  BY <1>1, <1>3, MoveKeeps DEF WalletInvariant
<1>5. WalletShaped' /\ wallet'.version = wallet.version + 1
  BY PostKeeps DEF WalletInvariant, EndHold
<1>6. LedgerTyped'
  BY <1>1, <1>3 DEF EndHold, WalletInvariant, LedgerTyped
<1>7. SnapshotCurrent'
  BY <1>5, SnapshotsSurvive DEF WalletInvariant, WalletShaped, EndHold
<1>8. QED
  BY <1>4, <1>5, <1>6, <1>7 DEF WalletInvariant

\* An expiry, too, writes what the current rows hold.
LEMMA ExpireKeeps ==
    ASSUME WalletInvariant, NEW w \in Workers, Expire(w)
    PROVE  WalletInvariant' /\ Onward
<1>1. /\ txn[w] # Idle
      /\ View(w).bucket = bucket
      /\ View(w).ended \in SUBSET Buckets
      /\ wallet.version \in Nat
  <2>1. txn[w] # Idle /\ View(w).wallet.version = wallet.version
    BY DEF Expire, Doing, VersionHolds, View
  <2>2. QED
    BY <2>1 DEF WalletInvariant, SnapshotCurrent, WalletShaped
<1>2. Expiring(w) \in SUBSET Buckets /\ Expiring(w) # {}
  BY <1>1 DEF Expire, Expiring
<1>3. Cardinality(Expiring(w)) \in Nat /\ Cardinality(Expiring(w)) > 0
  <2>1. IsFiniteSet(Expiring(w))
    BY <1>2, CreditAssumption, FS_Subset
  <2>2. Cardinality(Expiring(w)) \in Nat /\ Cardinality(Expiring(w)) # 0
    BY <1>2, <2>1, FS_CardinalityType, FS_EmptySet
  <2>3. QED
    BY <2>2
<1> DEFINE gone(b) == [bucket[b] EXCEPT
                          !.available = 0,
                          !.expired = bucket[b].expired + bucket[b].available,
                          !.status = IF bucket[b].reserved > 0 THEN "exhausted" ELSE "expired"]
           after(b) == IF b \notin Expiring(w) THEN bucket[b] ELSE gone(b)
<1>4. bucket' = [b \in Buckets |-> after(b)]
  BY <1>1 DEF Expire
<1>5. ASSUME NEW b \in Buckets
      PROVE  /\ Sound(after(b), b)
             /\ after(b).consumed >= bucket[b].consumed
             /\ after(b).expired >= bucket[b].expired
  <2>1. Sound(bucket[b], b) /\ bucket[b] \in BucketRows
    BY SoundBuckets DEF WalletInvariant, Sound
  <2>2. gone(b) \in BucketRows
    <3>1. bucket[b].expired + bucket[b].available \in Nat
      BY <2>1 DEF BucketRows
    <3>2. (IF bucket[b].reserved > 0 THEN "exhausted" ELSE "expired") \in Statuses
      BY DEF Statuses
    <3>3. QED
      BY <2>1, <3>1, <3>2 DEF BucketRows
  <2>3. 0 + bucket[b].reserved + bucket[b].consumed
            + (bucket[b].expired + bucket[b].available) = Granted[b]
    BY <2>1 DEF Sound, BucketRows
  <2>4. Sound(gone(b), b) /\ gone(b).consumed >= bucket[b].consumed
            /\ gone(b).expired >= bucket[b].expired
    BY <2>1, <2>2, <2>3 DEF Sound, BucketRows
  <2>5. QED
    BY <2>1, <2>4 DEF BucketRows
<1> HIDE DEF after
<1>6. BucketsTyped' /\ CreditsConserved'
  BY <1>4, <1>5, Rewritten
<1>7. Onward
  BY <1>4, <1>5 DEF Onward
<1>8. WalletShaped' /\ wallet'.version = wallet.version + Cardinality(Expiring(w))
  <2>1. PICK a, r : wallet' = [wallet EXCEPT !.available = a, !.reserved = r,
                                  !.version = wallet.version + Cardinality(Expiring(w))]
    BY DEF Expire
  <2>2. WalletShaped /\ wallet.version + Cardinality(Expiring(w)) \in Nat
    BY <1>1, <1>3 DEF WalletInvariant
  <2>3. QED
    BY <2>1, <2>2, ShapeKept
<1>9. LedgerTyped'
  <2>1. ASSUME NEW b \in Expiring(w)
        PROVE  Row("expire", b, [c \in Buckets |-> IF c = b THEN View(w).bucket[b].available ELSE 0])
                   \in Entries
    <3>1. b \in Buckets /\ View(w).bucket[b].available \in Nat
      BY <1>1, <1>2 DEF WalletInvariant, BucketsTyped, BucketRows
    <3>2. QED
      BY <3>1 DEF Row, Entries, Subjects
  <2>2. QED
    BY <2>1 DEF Expire, WalletInvariant, LedgerTyped
<1>10. SnapshotCurrent'
  <2>1. wallet'.version \in Nat /\ wallet'.version > wallet.version
    BY <1>1, <1>3, <1>8
  <2>2. QED
    BY <2>1, SnapshotsSurvive DEF WalletInvariant, Expire
<1>11. QED
  BY <1>6, <1>7, <1>8, <1>9, <1>10 DEF WalletInvariant

\* Steps that touch no bucket.
LEMMA QuietKeeps ==
    ASSUME WalletInvariant, NEW w \in Workers,
           SettleFree(w) \/ EndWithoutEffect(w)
    PROVE  WalletInvariant' /\ Onward
<1>1. BucketsTyped' /\ CreditsConserved' /\ LedgerTyped' /\ Onward
  BY DEF WalletInvariant, SettleFree, EndWithoutEffect, BucketsTyped, CreditsConserved,
         LedgerTyped, Onward, BucketRows
<1>2. WalletShaped' /\ (wallet' = wallet \/ wallet'.version > wallet.version)
  <2>1. CASE SettleFree(w)
    <3>1. Written(w) = wallet.version + 1
      BY <2>1 DEF SettleFree, VersionHolds, Written
    <3>2. PICK a, r : wallet' = [wallet EXCEPT !.available = a, !.reserved = r,
                                    !.version = wallet.version + 1]
      BY <2>1, <3>1 DEF SettleFree
    <3>3. WalletShaped /\ wallet.version + 1 \in Nat
      BY DEF WalletInvariant, WalletShaped
    <3>4. WalletShaped' /\ wallet'.version = wallet.version + 1
      BY <3>2, <3>3, ShapeKept
    <3>5. QED
      BY <3>3, <3>4 DEF WalletShaped
  <2>2. CASE EndWithoutEffect(w)
    BY <2>2 DEF EndWithoutEffect, WalletInvariant, WalletShaped
  <2>3. QED
    BY <2>1, <2>2
<1>3. SnapshotCurrent'
  <2>1. bucket' = bucket /\ Commit(w)
    BY DEF SettleFree, EndWithoutEffect
  <2>2. ended' = ended
    BY DEF SettleFree, EndWithoutEffect
  <2>3. QED
    BY <1>2, <2>1, <2>2, SnapshotsSurvive DEF WalletInvariant, WalletShaped
<1>4. QED
  BY <1>1, <1>2, <1>3 DEF WalletInvariant

\* A snapshot taken now shows the current rows.
LEMMA BeginKeeps ==
    ASSUME WalletInvariant, NEW w \in Workers, NEW op, NEW of, Begin(w, op, of),
           op = "settle" => of \in Usages,
           op \in {"capture", "release"} => of \in Operations
    PROVE  WalletInvariant' /\ Onward
<1>1. /\ BucketsTyped' /\ CreditsConserved' /\ LedgerTyped' /\ WalletShaped'
      /\ Onward
  BY DEF WalletInvariant, Begin, BucketsTyped, CreditsConserved, LedgerTyped, WalletShaped,
         Onward, BucketRows
<1>2. SnapshotCurrent'
  <2>1. txn' = [v \in Workers |-> txn'[v]]
    BY DEF WalletInvariant, SnapshotCurrent, Begin
  <2>2. ASSUME NEW v \in Workers, txn'[v] # Idle
        PROVE  /\ txn'[v].op = "settle" => txn'[v].of \in Usages
               /\ txn'[v].op \in {"capture", "release"} => txn'[v].of \in Operations
               /\ View(v)'.bucket \in [Buckets -> BucketRows]
               /\ View(v)'.ended \in SUBSET Buckets
               /\ View(v)'.ended \subseteq ended'
               /\ View(v)'.wallet.version \in Nat
               /\ View(v)'.wallet.version <= wallet'.version
               /\ View(v)'.wallet.version = wallet'.version =>
                     View(v)'.bucket = bucket' /\ View(v)'.wallet = wallet'
    <3>1. CASE v = w
      <4>1. txn'[v] = [op |-> op, of |-> of, view |-> Snapshot]
        BY <3>1 DEF Begin, WalletInvariant, SnapshotCurrent
      <4>2. View(v)'.bucket = bucket /\ View(v)'.ended = ended /\ View(v)'.wallet = wallet
        BY <4>1 DEF View, Snapshot
      <4>3. QED
        BY <4>1, <4>2 DEF WalletInvariant, BucketsTyped, LedgerTyped, WalletShaped, Begin
    <3>2. CASE v # w
      <4>1. txn'[v] = txn[v]
        BY <3>2 DEF Begin, WalletInvariant, SnapshotCurrent
      <4>2. QED
        BY <2>2, <4>1 DEF View, WalletInvariant, SnapshotCurrent, Begin
    <3>3. QED
      BY <3>1, <3>2
  <2>3. QED
    BY <2>1, <2>2 DEF SnapshotCurrent
<1>3. QED
  BY <1>1, <1>2 DEF WalletInvariant

\* The end of a bucket's period changes no row.
LEMMA BucketEndsKeeps ==
    ASSUME WalletInvariant, NEW b \in Buckets, BucketEnds(b)
    PROVE  WalletInvariant' /\ Onward
<1>1. /\ BucketsTyped' /\ CreditsConserved' /\ LedgerTyped' /\ WalletShaped'
      /\ Onward
  BY DEF WalletInvariant, BucketEnds, BucketsTyped, CreditsConserved, LedgerTyped,
         WalletShaped, Onward, BucketRows
<1>2. SnapshotCurrent'
  BY SnapshotsSurvive DEF WalletInvariant, WalletShaped, BucketEnds
<1>3. QED
  BY <1>1, <1>2 DEF WalletInvariant

------------------------------------------------------------------------------
(* The theorems.                                                           *)

\* A freshly granted wallet satisfies the invariant.
LEMMA InvariantInit == Init => WalletInvariant
<1> SUFFICES ASSUME Init PROVE WalletInvariant
  OBVIOUS
<1>1. WalletShaped
  BY DEF Init, WalletShaped
<1>2. BucketsTyped /\ CreditsConserved
  BY CreditAssumption DEF Init, BucketsTyped, BucketRows, Statuses, CreditsConserved
<1>3. LedgerTyped /\ SnapshotCurrent
  BY DEF Init, LedgerTyped, SnapshotCurrent
<1>4. QED
  BY <1>1, <1>2, <1>3 DEF WalletInvariant

\* Every step of every worker keeps it.
LEMMA InvariantStep ==
    WalletInvariant /\ [Next]_vars => WalletInvariant' /\ (Onward \/ UNCHANGED vars)
<1> SUFFICES ASSUME WalletInvariant, [Next]_vars
             PROVE  WalletInvariant' /\ (Onward \/ UNCHANGED vars)
  OBVIOUS
<1>1. ASSUME NEW w \in Workers, BeginSettle(w)
      PROVE  WalletInvariant' /\ Onward
  BY <1>1, BeginKeeps DEF BeginSettle
<1>2. ASSUME NEW w \in Workers, BeginCapture(w) \/ BeginRelease(w) \/ BeginExpire(w)
      PROVE  WalletInvariant' /\ Onward
  BY <1>2, BeginKeeps DEF BeginCapture, BeginRelease, BeginExpire
<1>3. ASSUME NEW w \in Workers, Capture(w) \/ Release(w)
      PROVE  WalletInvariant' /\ Onward
  BY <1>3, EndHoldKeeps DEF Capture, Release
<1>4. CASE UNCHANGED vars
  BY <1>4 DEF vars, WalletInvariant, WalletShaped, BucketsTyped, LedgerTyped,
              SnapshotCurrent, View, CreditsConserved
<1>5. QED
  BY <1>1, <1>2, <1>3, <1>4, SettleKeeps, QuietKeeps, ExpireKeeps, ReserveKeeps,
     BucketEndsKeeps DEF Next

\* The inductive invariant holds in every reachable state: the rows are sound
\* and a snapshot whose version is still the wallet's shows current buckets.
THEOREM Invariant == Spec => []WalletInvariant
BY InvariantInit, InvariantStep, PTL DEF Spec

\* Whatever transactions run side by side, every granted credit is in exactly
\* one column of its bucket.
THEOREM CreditsAreConserved == Spec => []CreditsConserved
<1>1. WalletInvariant => CreditsConserved
  BY DEF WalletInvariant
<1>2. QED
  BY <1>1, Invariant, PTL

\* No bucket is overdrawn, consumed or expired into the negative.
THEOREM NoBucketOverdrawn == Spec => []BucketsTyped
<1>1. WalletInvariant => BucketsTyped
  BY DEF WalletInvariant
<1>2. QED
  BY <1>1, Invariant, PTL

\* No transaction writes a stale counter over the spent or expired credits of
\* another.
THEOREM SpentCreditsStaySpent == Spec => SpentStaysSpent
<1>1. WalletInvariant /\ [Next]_vars =>
          [\A b \in Buckets : /\ bucket'[b].consumed >= bucket[b].consumed
                              /\ bucket'[b].expired >= bucket[b].expired]_vars
  BY InvariantStep DEF Onward
<1>2. QED
  BY <1>1, Invariant, PTL DEF Spec, SpentStaysSpent

------------------------------------------------------------------------------
(* Sums.  What a fold adds up to is said by a function of the subsets that *)
(* may take out any element; there is one for every finite set, only one,  *)
(* and the folds of the model compute it.                                  *)

\* g[S] is the sum of f over S, for every subset S of B.
Additive(g, f, B) ==
    /\ g \in [SUBSET B -> Int]
    /\ g[{}] = 0
    /\ \A S \in SUBSET B : \A x \in S : g[S] = f[x] + g[S \ {x}]

\* Induction over the subsets of a finite set: a property some of them lack is
\* lacked by one that has it without any of its elements.
LEMMA MinimalSubset ==
    ASSUME NEW B, IsFiniteSet(B), NEW X \in SUBSET (SUBSET B), X # {}
    PROVE  \E S \in X : \A x \in S : S \ {x} \notin X
<1> DEFINE N == {Cardinality(S) : S \in X}
<1>1. \A S \in X : IsFiniteSet(S) /\ Cardinality(S) \in Nat
  BY FS_Subset, FS_CardinalityType
<1>2. N \subseteq Nat /\ N # {}
  BY <1>1
<1>3. PICK n \in N : \A m \in N : <<m, n>> \notin OpToRel(<, Nat)
  <2> HIDE DEF N
  <2> QED BY <1>2, NatLessThanWellFounded, WFMin, Zenon
<1>4. PICK S \in X : Cardinality(S) = n
  OBVIOUS
<1>5. ASSUME NEW x \in S, S \ {x} \in X
      PROVE  FALSE
  <2>1. Cardinality(S \ {x}) = Cardinality(S) - 1
    BY <1>1, FS_RemoveElement
  <2>2. Cardinality(S \ {x}) \in Nat /\ Cardinality(S) \in Nat /\ Cardinality(S \ {x}) \in N
    BY <1>1, <1>5
  <2>3. Cardinality(S \ {x}) < n
    BY <2>1, <2>2, <1>4
  <2> HIDE DEF N
  <2>4. <<Cardinality(S \ {x}), n>> \in OpToRel(<, Nat)
    BY <2>2, <2>3, <1>2 DEF OpToRel
  <2> QED BY <2>2, <2>4, <1>3
<1> QED BY <1>5

\* One element more.
Extended(g, f, S, y) ==
    [s \in SUBSET S |-> IF y \in s THEN f[y] + g[s \ {y}] ELSE g[s]]

\* It stays a sum.
LEMMA ExtendedAdditive ==
    ASSUME NEW f, NEW S, NEW y \in S, NEW g, Additive(g, f, S \ {y}),
           \A x \in S : f[x] \in Int
    PROVE  Additive(Extended(g, f, S, y), f, S)
<1> DEFINE h == Extended(g, f, S, y)
<1>1. \A s \in SUBSET S : s \ {y} \in SUBSET (S \ {y}) /\ (y \notin s => s \in SUBSET (S \ {y}))
  OBVIOUS
<1>2. \A s \in SUBSET S : h[s] = IF y \in s THEN f[y] + g[s \ {y}] ELSE g[s]
  BY DEF Extended
<1>3. \A s \in SUBSET (S \ {y}) : g[s] \in Int
  BY DEF Additive
<1>4. h \in [SUBSET S -> Int]
  <2>1. \A s \in SUBSET S : (IF y \in s THEN f[y] + g[s \ {y}] ELSE g[s]) \in Int
    BY <1>1, <1>3
  <2> QED BY <2>1 DEF Extended
<1>5. h[{}] = 0
  BY <1>2 DEF Additive
<1>6. ASSUME NEW s \in SUBSET S, NEW x \in s
      PROVE  h[s] = f[x] + h[s \ {x}]
  <2>1. CASE x = y
    BY <2>1, <1>2
  <2>2. CASE x # y /\ y \in s
    <3>1. h[s] = f[y] + g[s \ {y}] /\ h[s \ {x}] = f[y] + g[(s \ {x}) \ {y}]
      BY <2>2, <1>2
    <3>2. g[s \ {y}] = f[x] + g[(s \ {y}) \ {x}]
      BY <2>2, <1>1 DEF Additive
    <3>3. (s \ {y}) \ {x} = (s \ {x}) \ {y}
      OBVIOUS
    <3>4. f[x] \in Int /\ f[y] \in Int /\ g[(s \ {x}) \ {y}] \in Int
      BY <1>1, <1>3
    <3>5. PICK a \in Int, b \in Int, c \in Int :
            a = f[x] /\ b = f[y] /\ c = g[(s \ {x}) \ {y}]
      BY <3>4
    <3>6. h[s] = b + (a + c) /\ h[s \ {x}] = b + c
      BY <3>1, <3>2, <3>3, <3>5
    <3>7. b + (a + c) = a + (b + c)
      BY <3>5
    <3> HIDE DEF h
    <3> QED BY <3>5, <3>6, <3>7
  <2>3. CASE y \notin s
    <3>1. h[s] = g[s] /\ h[s \ {x}] = g[s \ {x}]
      BY <2>3, <1>2
    <3> QED BY <3>1, <2>3, <1>1 DEF Additive
  <2> QED BY <2>1, <2>2, <2>3
<1> QED BY <1>4, <1>5, <1>6 DEF Additive

\* There is a sum over every finite set.
LEMMA SumExists ==
    ASSUME NEW B, IsFiniteSet(B), NEW f, \A x \in B : f[x] \in Int
    PROVE  \E g : Additive(g, f, B)
<1> DEFINE X == {S \in SUBSET B : ~\E g : Additive(g, f, S)}
<1> SUFFICES ASSUME X # {}
             PROVE  FALSE
  OBVIOUS
<1>1. PICK S \in X : \A x \in S : S \ {x} \notin X
  <2>1. X \in SUBSET (SUBSET B)
    OBVIOUS
  <2> HIDE DEF X
  <2> QED BY <2>1, MinimalSubset
<1>2. CASE S = {}
  <2>1. Additive([s \in SUBSET {} |-> 0], f, {})
    BY DEF Additive
  <2> QED BY <2>1, <1>2
<1>3. CASE S # {}
  <2>1. PICK y \in S : TRUE
    BY <1>3
  <2>2. PICK g : Additive(g, f, S \ {y})
    BY <1>1
  <2>3. Additive(Extended(g, f, S, y), f, S)
    BY <2>2, ExtendedAdditive
  <2> QED BY <2>3
<1> QED BY <1>2, <1>3

\* There is only one.
LEMMA SumUnique ==
    ASSUME NEW B, IsFiniteSet(B), NEW f, NEW g, NEW h, Additive(g, f, B), Additive(h, f, B)
    PROVE  \A S \in SUBSET B : g[S] = h[S]
<1> DEFINE X == {S \in SUBSET B : g[S] # h[S]}
<1> SUFFICES ASSUME X # {}
             PROVE  FALSE
  OBVIOUS
<1>1. PICK S \in X : \A x \in S : S \ {x} \notin X
  <2>1. X \in SUBSET (SUBSET B)
    OBVIOUS
  <2> HIDE DEF X
  <2> QED BY <2>1, MinimalSubset
<1>2. CASE S = {}
  BY <1>2 DEF Additive
<1>3. CASE S # {}
  <2>1. PICK y \in S : TRUE
    BY <1>3
  <2>2. g[S \ {y}] = h[S \ {y}]
    BY <1>1
  <2> QED BY <2>1, <2>2 DEF Additive
<1> QED BY <1>2, <1>3

\* The fold takes its elements in an order of its own.
Unfolded(g, f, B) ==
    [s \in SUBSET B |->
        IF s = {} THEN 0
        ELSE f[CHOOSE x \in s : TRUE] + g[s \ {CHOOSE x \in s : TRUE}]]

\* Whatever that order is, it computes the sum.
LEMMA FoldIs ==
    ASSUME NEW B, IsFiniteSet(B), NEW f, NEW g, Additive(g, f, B)
    PROVE  (CHOOSE h : h = Unfolded(h, f, B))[B] = g[B]
<1>1. g = Unfolded(g, f, B)
  <2>1. \A s \in SUBSET B : s # {} => (CHOOSE x \in s : TRUE) \in s
    OBVIOUS
  <2>2. \A s \in SUBSET B : g[s] = Unfolded(g, f, B)[s]
    BY <2>1 DEF Additive, Unfolded
  <2>3. g = [s \in SUBSET B |-> g[s]] /\ Unfolded(g, f, B) = [s \in SUBSET B |-> Unfolded(g, f, B)[s]]
    BY DEF Additive, Unfolded
  <2> QED BY <2>2, <2>3
<1> DEFINE h == CHOOSE h : h = Unfolded(h, f, B)
<1>2. h = Unfolded(h, f, B)
  BY <1>1, Zenon
<1> HIDE DEF h
<1> DEFINE X == {S \in SUBSET B : g[S] # h[S]}
<1>3. X = {}
  <2> SUFFICES ASSUME X # {}
               PROVE  FALSE
    OBVIOUS
  <2>1. PICK S \in X : \A x \in S : S \ {x} \notin X
    <3>1. X \in SUBSET (SUBSET B)
      OBVIOUS
    <3> HIDE DEF X
    <3> QED BY <3>1, MinimalSubset
  <2>2. h[S] = IF S = {} THEN 0
               ELSE f[CHOOSE x \in S : TRUE] + h[S \ {CHOOSE x \in S : TRUE}]
    <3>1. S \in SUBSET B
      OBVIOUS
    <3>2. Unfolded(h, f, B)[S] = IF S = {} THEN 0
               ELSE f[CHOOSE x \in S : TRUE] + h[S \ {CHOOSE x \in S : TRUE}]
      BY <3>1 DEF Unfolded
    <3> QED BY <3>2, <1>2
  <2>3. CASE S = {}
    BY <2>2, <2>3 DEF Additive
  <2>4. CASE S # {}
    <3>1. PICK y \in S : y = CHOOSE x \in S : TRUE
      BY <2>4
    <3>2. g[S \ {y}] = h[S \ {y}]
      BY <2>1
    <3>3. h[S] = f[y] + h[S \ {y}]
      BY <2>2, <2>4, <3>1
    <3> QED BY <3>2, <3>3 DEF Additive
  <2> QED BY <2>3, <2>4
<1>4. B \in SUBSET B
  OBVIOUS
<1> QED BY <1>3, <1>4 DEF h

\* SumFunction is the sum over the domain.
LEMMA SumIs ==
    ASSUME NEW B, IsFiniteSet(B), NEW f, DOMAIN f = B, NEW g, Additive(g, f, B)
    PROVE  SumFunction(f) = g[B]
<1>1. SumFunction(f) = (CHOOSE h : h = Unfolded(h, f, B))[B]
  BY Zenon DEF SumFunction, SumFunctionOnSet, FoldFunctionOnSet, MapThenFoldSet, Unfolded
<1> QED BY <1>1, FoldIs

\* Sums over the buckets.
LEMMA BucketSum ==
    ASSUME NEW f, f \in [Buckets -> Int]
    PROVE  /\ SumFunction(f) \in Int
           /\ \E g : Additive(g, f, Buckets) /\ SumFunction(f) = g[Buckets]
<1>1. PICK g : Additive(g, f, Buckets)
  BY CreditAssumption, SumExists
<1>2. SumFunction(f) = g[Buckets]
  BY <1>1, CreditAssumption, SumIs
<1> QED BY <1>1, <1>2 DEF Additive

\* Sums add up pointwise.
LEMMA SumPlus ==
    ASSUME NEW f \in [Buckets -> Int], NEW g \in [Buckets -> Int], NEW h \in [Buckets -> Int],
           \A b \in Buckets : h[b] = f[b] + g[b]
    PROVE  SumFunction(h) = SumFunction(f) + SumFunction(g)
<1>1. PICK F : Additive(F, f, Buckets) /\ SumFunction(f) = F[Buckets]
  BY BucketSum
<1>2. PICK G : Additive(G, g, Buckets) /\ SumFunction(g) = G[Buckets]
  BY BucketSum
<1>0. \A S \in SUBSET Buckets : F[S] \in Int /\ G[S] \in Int
  BY <1>1, <1>2 DEF Additive
<1> DEFINE H == [S \in SUBSET Buckets |-> F[S] + G[S]]
<1>3. \A S \in SUBSET Buckets : H[S] = F[S] + G[S] /\ F[S] \in Int /\ G[S] \in Int
  BY <1>0
<1>4. Additive(H, h, Buckets)
  <2>1. H \in [SUBSET Buckets -> Int]
    <3>1. \A S \in SUBSET Buckets : F[S] + G[S] \in Int
      BY <1>0
    <3> QED BY <3>1
  <2>2. H[{}] = 0
    BY <1>1, <1>2, <1>3 DEF Additive
  <2>3. ASSUME NEW S \in SUBSET Buckets, NEW x \in S
        PROVE  H[S] = h[x] + H[S \ {x}]
    <3>1. F[S] = f[x] + F[S \ {x}] /\ G[S] = g[x] + G[S \ {x}]
      BY <1>1, <1>2 DEF Additive
    <3>2. PICK a \in Int, b \in Int, c \in Int, d \in Int :
            a = f[x] /\ b = g[x] /\ c = F[S \ {x}] /\ d = G[S \ {x}]
      BY <1>3
    <3>3. H[S] = (a + c) + (b + d)
      BY <3>1, <3>2, <1>3
    <3>4. h[x] = a + b /\ H[S \ {x}] = c + d
      BY <3>2, <1>3
    <3> HIDE DEF H
    <3> QED BY <3>2, <3>3, <3>4
  <2> HIDE DEF H
  <2> QED BY <2>1, <2>2, <2>3 DEF Additive
<1>5. SumFunction(h) = H[Buckets]
  <2> HIDE DEF H
  <2> QED BY <1>4, CreditAssumption, SumIs
<1> QED BY <1>1, <1>2, <1>3, <1>5

\* A sum of naturals is not negative.
LEMMA SumOfNaturals ==
    ASSUME NEW f \in [Buckets -> Nat]
    PROVE  SumFunction(f) >= 0
<1>1. PICK g : Additive(g, f, Buckets) /\ SumFunction(f) = g[Buckets]
  BY BucketSum
<1> DEFINE X == {S \in SUBSET Buckets : ~(g[S] >= 0)}
<1>2. X = {}
  <2> SUFFICES ASSUME X # {}
               PROVE  FALSE
    OBVIOUS
  <2>1. PICK S \in X : \A x \in S : S \ {x} \notin X
    <3>1. X \in SUBSET (SUBSET Buckets)
      OBVIOUS
    <3> HIDE DEF X
    <3> QED BY <3>1, CreditAssumption, MinimalSubset
  <2>2. CASE S = {}
    BY <2>2, <1>1 DEF Additive
  <2>3. CASE S # {}
    <3>1. PICK y \in S : TRUE
      BY <2>3
    <3>2. g[S \ {y}] >= 0 /\ g[S \ {y}] \in Int
      BY <2>1, <1>1 DEF Additive
    <3>3. g[S] = f[y] + g[S \ {y}]
      BY <1>1 DEF Additive
    <3>4. PICK a \in Nat, c \in Int : a = f[y] /\ c = g[S \ {y}]
      BY <3>2
    <3>5. g[S] >= 0
      BY <3>2, <3>3, <3>4
    <3> QED BY <3>5
  <2> QED BY <2>2, <2>3
<1> QED BY <1>1, <1>2

\* Sums grow with their terms.
LEMMA SumAtMost ==
    ASSUME NEW f \in [Buckets -> Int], NEW g \in [Buckets -> Int],
           \A b \in Buckets : f[b] <= g[b]
    PROVE  SumFunction(f) <= SumFunction(g)
<1> DEFINE d == [b \in Buckets |-> g[b] - f[b]]
<1>1. \A b \in Buckets : d[b] \in Nat /\ d[b] \in Int /\ g[b] = f[b] + d[b]
  OBVIOUS
<1>2. d \in [Buckets -> Nat] /\ d \in [Buckets -> Int]
  BY <1>1
<1> HIDE DEF d
<1>3. SumFunction(g) = SumFunction(f) + SumFunction(d)
  BY <1>1, <1>2, SumPlus
<1>4. SumFunction(d) >= 0
  BY <1>2, SumOfNaturals
<1>5. PICK m \in Int, n \in Int : m = SumFunction(f) /\ n = SumFunction(d)
  BY <1>2, BucketSum
<1> QED BY <1>3, <1>4, <1>5

\* A sum of zeros is zero.
LEMMA SumOfNothing ==
    ASSUME NEW f \in [Buckets -> Int], \A b \in Buckets : f[b] = 0
    PROVE  SumFunction(f) = 0
<1>1. Additive([S \in SUBSET Buckets |-> 0], f, Buckets)
  BY DEF Additive
<1> QED BY <1>1, CreditAssumption, SumIs

\* Sums over the ledger.
Amount(S, b) == MapThenSumSet(LAMBDA e : e.takes[b], S)
\* What a row takes from b, as a function of the row.
Taking(b) == [e \in Entries |-> e.takes[b]]

\* Amount is the sum over the rows.
LEMMA AmountIs ==
    ASSUME NEW S \in SUBSET Entries, IsFiniteSet(S), NEW b \in Buckets
    PROVE  \E g : Additive(g, Taking(b), S) /\ Amount(S, b) = g[S]
<1> DEFINE f == Taking(b)
<1>1. \A e \in S : f[e] = e.takes[b] /\ f[e] \in Int
  BY DEF Taking, Entries
<1>2. PICK g : Additive(g, f, S)
  BY <1>1, SumExists
<1> DEFINE Unfold(h) == [s \in SUBSET S |->
        IF s = {} THEN 0
        ELSE (CHOOSE x \in s : TRUE).takes[b] + h[s \ {CHOOSE x \in s : TRUE}]]
<1>3. Amount(S, b) = (CHOOSE h : h = Unfold(h))[S]
  BY Zenon DEF Amount, MapThenSumSet, MapThenFoldSet
<1>4. ASSUME NEW h
      PROVE  Unfold(h) = Unfolded(h, f, S)
  <2>1. \A s \in SUBSET S : s # {} =>
          (CHOOSE x \in s : TRUE).takes[b] = f[CHOOSE x \in s : TRUE]
    <3> SUFFICES ASSUME NEW s \in SUBSET S, s # {}
                 PROVE  (CHOOSE x \in s : TRUE).takes[b] = f[CHOOSE x \in s : TRUE]
      OBVIOUS
    <3>1. (CHOOSE x \in s : TRUE) \in S
      OBVIOUS
    <3> HIDE DEF f
    <3> QED BY <3>1, <1>1
  <2> HIDE DEF f
  <2>2. \A s \in SUBSET S :
          (IF s = {} THEN 0
           ELSE (CHOOSE x \in s : TRUE).takes[b] + h[s \ {CHOOSE x \in s : TRUE}])
          = IF s = {} THEN 0 ELSE f[CHOOSE x \in s : TRUE] + h[s \ {CHOOSE x \in s : TRUE}]
    <3> SUFFICES ASSUME NEW s \in SUBSET S
                 PROVE  (IF s = {} THEN 0
                         ELSE (CHOOSE x \in s : TRUE).takes[b] + h[s \ {CHOOSE x \in s : TRUE}])
                        = IF s = {} THEN 0
                          ELSE f[CHOOSE x \in s : TRUE] + h[s \ {CHOOSE x \in s : TRUE}]
      OBVIOUS
    <3>1. CASE s = {}
      BY <3>1, Zenon
    <3>2. CASE s # {}
      <4>1. (CHOOSE x \in s : TRUE).takes[b] = f[CHOOSE x \in s : TRUE]
        BY <2>1, <3>2
      <4> QED BY <3>2, <4>1, Zenon
    <3> QED BY <3>1, <3>2
  <2> QED BY <2>2, Zenon DEF Unfolded
<1>5. (CHOOSE h : h = Unfold(h)) = CHOOSE h : h = Unfolded(h, f, S)
  <2> HIDE DEF Unfold, f
  <2> QED BY <1>4, Zenon
<1> HIDE DEF Unfold
<1>6. (CHOOSE h : h = Unfolded(h, f, S))[S] = g[S]
  BY <1>2, FoldIs
<1> QED BY <1>2, <1>3, <1>5, <1>6

\* Below a subset the sums are the same.
LEMMA AdditiveBelow ==
    ASSUME NEW g, NEW f, NEW B, Additive(g, f, B), NEW S \in SUBSET B
    PROVE  Additive([s \in SUBSET S |-> g[s]], f, S)
<1>1. \A s \in SUBSET S : s \in SUBSET B /\ g[s] \in Int
  BY DEF Additive
<1> QED BY <1>1 DEF Additive

\* A fresh row adds what it takes.
LEMMA AmountAdd ==
    ASSUME NEW S \in SUBSET Entries, IsFiniteSet(S), NEW e \in Entries, e \notin S,
           NEW b \in Buckets
    PROVE  Amount(S \cup {e}, b) = Amount(S, b) + e.takes[b]
<1> DEFINE T == S \cup {e}
<1>1. T \in SUBSET Entries /\ IsFiniteSet(T) /\ T \ {e} = S
  BY FS_AddElement
<1>2. PICK g : Additive(g, Taking(b), T) /\ Amount(T, b) = g[T]
  BY <1>1, AmountIs
<1>3. PICK h : Additive(h, Taking(b), S) /\ Amount(S, b) = h[S]
  BY AmountIs
<1>4. Additive([s \in SUBSET S |-> g[s]], Taking(b), S)
  BY <1>2, AdditiveBelow
<1>5. g[S] = h[S]
  <2>1. [s \in SUBSET S |-> g[s]][S] = h[S]
    BY <1>3, <1>4, SumUnique
  <2> QED BY <2>1
<1>6. g[T] = Taking(b)[e] + g[T \ {e}]
  BY <1>2 DEF Additive
<1>7. Taking(b)[e] = e.takes[b] /\ e.takes[b] \in Int
  BY DEF Taking, Entries
<1>8. h[S] \in Int
  BY <1>3 DEF Additive
<1> HIDE DEF T
<1>9. PICK m \in Int, n \in Int : m = h[S] /\ n = e.takes[b]
  BY <1>7, <1>8
<1>10. Amount(T, b) = n + m
  BY <1>1, <1>2, <1>5, <1>6, <1>7, <1>9
<1>11. Amount(T, b) = m + n
  BY <1>9, <1>10
<1> QED BY <1>3, <1>9, <1>11 DEF T

\* Rows that take nothing from a bucket add nothing.
LEMMA AmountIdle ==
    ASSUME NEW S \in SUBSET Entries, IsFiniteSet(S), NEW N \in SUBSET Entries, IsFiniteSet(N),
           NEW b \in Buckets, \A e \in N : e.takes[b] = 0, N \cap S = {}
    PROVE  Amount(S \cup N, b) = Amount(S, b)
<1> DEFINE X == {T \in SUBSET N : Amount(S \cup T, b) # Amount(S, b)}
<1>1. X = {}
  <2> SUFFICES ASSUME X # {}
               PROVE  FALSE
    OBVIOUS
  <2>1. PICK T \in X : \A x \in T : T \ {x} \notin X
    <3>1. X \in SUBSET (SUBSET N)
      OBVIOUS
    <3> HIDE DEF X
    <3> QED BY <3>1, MinimalSubset
  <2>2. CASE T = {}
    <3>1. S \cup T = S
      BY <2>2
    <3> QED BY <3>1
  <2>3. CASE T # {}
    <3>1. PICK y \in T : TRUE
      BY <2>3
    <3> DEFINE R == S \cup (T \ {y})
    <3>2. Amount(R, b) = Amount(S, b)
      BY <2>1
    <3>3. R \in SUBSET Entries /\ y \in Entries /\ y \notin R /\ R \cup {y} = S \cup T
      OBVIOUS
    <3>4. IsFiniteSet(R)
      <4>1. IsFiniteSet(T \ {y})
        BY FS_Subset
      <4> QED BY <4>1, FS_Union
    <3>5. y.takes[b] = 0
      OBVIOUS
    <3> HIDE DEF R
    <3>6. Amount(R \cup {y}, b) = Amount(R, b) + y.takes[b]
      BY <3>3, <3>4, AmountAdd
    <3>7. Amount(R, b) \in Int
      <4>1. PICK g : Additive(g, Taking(b), R) /\ Amount(R, b) = g[R]
        BY <3>3, <3>4, AmountIs
      <4> QED BY <4>1 DEF Additive
    <3>8. PICK n \in Int : n = Amount(R, b)
      BY <3>7
    <3>9. Amount(R \cup {y}, b) = n + 0
      BY <3>5, <3>6, <3>8, Zenon
    <3>10. Amount(S \cup T, b) = Amount(S, b)
      <4>1. Amount(S \cup T, b) = Amount(R \cup {y}, b)
        BY <3>3, Zenon
      <4>2. n + 0 = n
        BY <3>8
      <4> QED BY <3>2, <3>8, <3>9, <4>1, <4>2, Zenon
    <3> QED BY <3>10
  <2> QED BY <2>2, <2>3
<1>2. N \in SUBSET N
  OBVIOUS
<1> QED BY <1>1, <1>2

------------------------------------------------------------------------------
(* Totals of the columns, before and after a transaction.                  *)

\* The columns of a bucket that hold credits.
Columns4 == {"available", "reserved", "consumed", "expired"}

\* What a bucket contributes to Consumable.
Open(rows, closed, b) ==
    IF rows[b].status = "active" /\ b \notin closed THEN rows[b].available ELSE 0

\* The total of a column is an integer.
LEMMA ColumnTyped ==
    ASSUME NEW rows \in [Buckets -> BucketRows], NEW column \in Columns4
    PROVE  /\ [b \in Buckets |-> rows[b][column]] \in [Buckets -> Int]
           /\ Total(rows, column) \in Int
<1>1. ASSUME NEW b \in Buckets
      PROVE  rows[b][column] \in Int
  <2>1. rows[b] \in BucketRows
    OBVIOUS
  <2>2. /\ rows[b]["available"] \in Int
        /\ rows[b]["reserved"] \in Int
        /\ rows[b]["consumed"] \in Int
        /\ rows[b]["expired"] \in Int
    BY <2>1 DEF BucketRows
  <2> QED BY <2>2 DEF Columns4
<1>2. [b \in Buckets |-> rows[b][column]] \in [Buckets -> Int]
  BY <1>1
<1> QED BY <1>2, BucketSum DEF Total

\* A column that gains take gains its sum in total.
LEMMA TotalMoves ==
    ASSUME NEW rows \in [Buckets -> BucketRows], NEW rows2 \in [Buckets -> BucketRows],
           NEW column \in Columns4, NEW take \in [Buckets -> Nat],
           \A b \in Buckets : rows2[b][column] = rows[b][column] + take[b]
    PROVE  Total(rows2, column) = Total(rows, column) + SumFunction(take)
<1> DEFINE f == [b \in Buckets |-> rows[b][column]]
           h == [b \in Buckets |-> rows2[b][column]]
<1>1. f \in [Buckets -> Int] /\ h \in [Buckets -> Int] /\ take \in [Buckets -> Int]
  BY ColumnTyped
<1>2. \A b \in Buckets : h[b] = f[b] + take[b]
  OBVIOUS
<1>3. Total(rows, column) = SumFunction(f) /\ Total(rows2, column) = SumFunction(h)
  BY Zenon DEF Total
<1> HIDE DEF f, h
<1> QED BY <1>1, <1>2, <1>3, SumPlus

\* A column nobody touches keeps its total.
LEMMA TotalStays ==
    ASSUME NEW rows, NEW rows2, NEW column,
           \A b \in Buckets : rows2[b][column] = rows[b][column]
    PROVE  Total(rows2, column) = Total(rows, column)
<1>1. [b \in Buckets |-> rows2[b][column]] = [b \in Buckets |-> rows[b][column]]
  OBVIOUS
<1> QED BY <1>1, Zenon DEF Total

\* Consumable is the sum of what the buckets contribute.
LEMMA OpenTyped ==
    ASSUME NEW rows \in [Buckets -> BucketRows], NEW closed
    PROVE  /\ [b \in Buckets |-> Open(rows, closed, b)] \in [Buckets -> Nat]
           /\ Consumable(rows, closed) = SumFunction([b \in Buckets |-> Open(rows, closed, b)])
           /\ Consumable(rows, closed) \in Int
<1>1. \A b \in Buckets : rows[b].available \in Nat
  BY DEF BucketRows
<1>2. [b \in Buckets |-> Open(rows, closed, b)] \in [Buckets -> Nat]
  BY <1>1 DEF Open
<1>3. Consumable(rows, closed) = SumFunction([b \in Buckets |-> Open(rows, closed, b)])
  BY Zenon DEF Consumable, Open
<1>4. [b \in Buckets |-> Open(rows, closed, b)] \in [Buckets -> Int]
  BY <1>2
<1> QED BY <1>2, <1>3, <1>4, BucketSum

\* Closing buckets takes consumable credits away; no more is consumable than
\* available.
LEMMA ConsumableBounds ==
    ASSUME NEW rows \in [Buckets -> BucketRows], NEW closed, NEW ends, closed \subseteq ends
    PROVE  /\ Consumable(rows, ends) <= Consumable(rows, closed)
           /\ Consumable(rows, closed) <= Total(rows, "available")
<1> DEFINE f == [b \in Buckets |-> Open(rows, ends, b)]
           g == [b \in Buckets |-> Open(rows, closed, b)]
           h == [b \in Buckets |-> rows[b]["available"]]
<1>1. /\ f \in [Buckets -> Int] /\ g \in [Buckets -> Int]
      /\ Consumable(rows, ends) = SumFunction(f)
      /\ Consumable(rows, closed) = SumFunction(g)
  <2>1. f \in [Buckets -> Nat] /\ g \in [Buckets -> Nat]
    BY OpenTyped
  <2> QED BY <2>1, OpenTyped
<1>2. h \in [Buckets -> Int] /\ Total(rows, "available") = SumFunction(h)
  BY ColumnTyped DEF Columns4, Total
<1>3. \A b \in Buckets : f[b] <= g[b] /\ g[b] <= h[b]
  BY DEF Open, BucketRows
<1> HIDE DEF f, g, h
<1> QED BY <1>1, <1>2, <1>3, SumAtMost

\* Credits given back make at most as many consumable.
LEMMA ConsumableMoves ==
    ASSUME NEW rows \in [Buckets -> BucketRows], NEW rows2 \in [Buckets -> BucketRows],
           NEW closed, NEW take \in [Buckets -> Nat],
           \A b \in Buckets : Open(rows2, closed, b) <= Open(rows, closed, b) + take[b]
    PROVE  Consumable(rows2, closed) <= Consumable(rows, closed) + SumFunction(take)
<1> DEFINE f == [b \in Buckets |-> Open(rows, closed, b)]
           g == [b \in Buckets |-> Open(rows2, closed, b)]
           h == [b \in Buckets |-> Open(rows, closed, b) + take[b]]
<1>1. /\ f \in [Buckets -> Nat] /\ g \in [Buckets -> Nat]
      /\ Consumable(rows, closed) = SumFunction(f)
      /\ Consumable(rows2, closed) = SumFunction(g)
  BY OpenTyped
<1>2. \A b \in Buckets : f[b] \in Nat /\ take[b] \in Nat /\ h[b] = f[b] + take[b] /\ g[b] <= h[b]
  BY <1>1
<1>3. f \in [Buckets -> Int] /\ g \in [Buckets -> Int] /\ take \in [Buckets -> Int]
      /\ h \in [Buckets -> Int]
  BY <1>1, <1>2
<1> HIDE DEF f, g, h
<1>4. SumFunction(h) = SumFunction(f) + SumFunction(take)
  BY <1>2, <1>3, SumPlus
<1>5. SumFunction(g) <= SumFunction(h)
  BY <1>2, <1>3, SumAtMost
<1> QED BY <1>1, <1>4, <1>5

\* Credits taken from open buckets are no longer consumable.
LEMMA ConsumableDrops ==
    ASSUME NEW rows \in [Buckets -> BucketRows], NEW rows2 \in [Buckets -> BucketRows],
           NEW closed, NEW take \in [Buckets -> Nat],
           \A b \in Buckets : Open(rows2, closed, b) + take[b] <= Open(rows, closed, b)
    PROVE  Consumable(rows2, closed) + SumFunction(take) <= Consumable(rows, closed)
<1> DEFINE f == [b \in Buckets |-> Open(rows, closed, b)]
           g == [b \in Buckets |-> Open(rows2, closed, b)]
           h == [b \in Buckets |-> Open(rows2, closed, b) + take[b]]
<1>1. /\ f \in [Buckets -> Nat] /\ g \in [Buckets -> Nat]
      /\ Consumable(rows, closed) = SumFunction(f)
      /\ Consumable(rows2, closed) = SumFunction(g)
  BY OpenTyped
<1>2. \A b \in Buckets : g[b] \in Nat /\ take[b] \in Nat /\ h[b] = g[b] + take[b] /\ h[b] <= f[b]
  BY <1>1
<1>3. f \in [Buckets -> Int] /\ g \in [Buckets -> Int] /\ take \in [Buckets -> Int]
      /\ h \in [Buckets -> Int]
  BY <1>1, <1>2
<1> HIDE DEF f, g, h
<1>4. SumFunction(h) = SumFunction(g) + SumFunction(take)
  BY <1>2, <1>3, SumPlus
<1>5. SumFunction(h) <= SumFunction(f)
  BY <1>2, <1>3, SumAtMost
<1> QED BY <1>1, <1>4, <1>5

------------------------------------------------------------------------------
(* One row, before and after credits move in it.                           *)

\* An exhausted bucket has nothing available.
Emptied(row) == row.status = "exhausted" => row.available = 0

\* Credits that leave available.
Taken(row, to, n) ==
    IF n = 0 THEN row ELSE Synced([row EXCEPT !.available = @ - n, ![to] = @ + n])

\* They arrive in the other column, and no bucket opens.
LEMMA TakenShows ==
    ASSUME NEW row \in BucketRows, NEW n \in Nat, n <= row.available, Emptied(row),
           NEW to \in {"reserved", "consumed"}, NEW row2, row2 = Taken(row, to, n)
    PROVE  /\ row2["available"] + n = row["available"]
           /\ row2["reserved"] = row["reserved"] + (IF to = "reserved" THEN n ELSE 0)
           /\ row2["consumed"] = row["consumed"] + (IF to = "consumed" THEN n ELSE 0)
           /\ row2["expired"] = row["expired"]
           /\ Emptied(row2)
           /\ row2.status = "active" => row.status = "active"
<1> DEFINE mid == [row EXCEPT !.available = @ - n, ![to] = @ + n]
<1>1. CASE n = 0
  BY <1>1 DEF BucketRows, Taken
<1>2. CASE n # 0
  <2>1. mid \in BucketRows
    <3>1. row.available - n \in Nat /\ row.reserved + n \in Int /\ row.consumed + n \in Nat
      BY DEF BucketRows
    <3>2. CASE to = "reserved"
      BY <3>1, <3>2 DEF BucketRows
    <3>3. CASE to = "consumed"
      BY <3>1, <3>3 DEF BucketRows
    <3> QED BY <3>2, <3>3
  <2>2. /\ mid.available = row.available - n
        /\ mid.reserved = row.reserved + (IF to = "reserved" THEN n ELSE 0)
        /\ mid.consumed = row.consumed + (IF to = "consumed" THEN n ELSE 0)
        /\ mid.expired = row.expired
        /\ mid.status = row.status
    BY DEF BucketRows
  <2> HIDE DEF mid
  <2>3. row2 = Synced(mid)
    BY <1>2 DEF mid, Taken
  <2>4. /\ row2.available = mid.available
        /\ row2.reserved = mid.reserved
        /\ row2.consumed = mid.consumed
        /\ row2.expired = mid.expired
    BY <2>1, <2>3, SyncedKeeps
  <2>5. row2.status = IF row.status = "expired" THEN "expired"
                      ELSE IF mid.available = 0 THEN "exhausted" ELSE "active"
    BY <2>1, <2>2, <2>3 DEF Synced, BucketRows
  <2>6. row.available \in Nat /\ row.available # 0 /\ row.status \in Statuses
    BY <1>2 DEF BucketRows
  <2>7. Emptied(row2) /\ (row2.status = "active" => row.status = "active")
    BY <2>4, <2>5, <2>6 DEF Emptied, Statuses
  <2> QED BY <2>2, <2>4, <2>6, <2>7
<1> QED BY <1>1, <1>2

\* Credits that leave reserved.
Unheld(row, to, n) ==
    IF n = 0 THEN row ELSE Synced([row EXCEPT !["reserved"] = @ - n, ![to] = @ + n])

\* They arrive in the other column; a bucket that opens had nothing before.
LEMMA UnheldShows ==
    ASSUME NEW row \in BucketRows, NEW n \in Nat, Emptied(row),
           NEW to \in {"available", "consumed"}, NEW row2, row2 = Unheld(row, to, n)
    PROVE  /\ row2["available"] = row["available"] + (IF to = "available" THEN n ELSE 0)
           /\ row2["reserved"] + n = row["reserved"]
           /\ row2["consumed"] = row["consumed"] + (IF to = "consumed" THEN n ELSE 0)
           /\ row2["expired"] = row["expired"]
           /\ Emptied(row2)
           /\ row2.status = "active" => row.status = "active" \/ row.available = 0
<1> DEFINE mid == [row EXCEPT !["reserved"] = @ - n, ![to] = @ + n]
<1>1. CASE n = 0
  BY <1>1 DEF BucketRows, Unheld
<1>2. CASE n # 0
  <2>1. mid \in BucketRows
    BY DEF BucketRows
  <2>2. /\ mid.available = row.available + (IF to = "available" THEN n ELSE 0)
        /\ mid.reserved = row.reserved - n
        /\ mid.consumed = row.consumed + (IF to = "consumed" THEN n ELSE 0)
        /\ mid.expired = row.expired
        /\ mid.status = row.status
    BY DEF BucketRows
  <2> HIDE DEF mid
  <2>3. row2 = Synced(mid)
    BY <1>2 DEF mid, Unheld
  <2>4. /\ row2.available = mid.available
        /\ row2.reserved = mid.reserved
        /\ row2.consumed = mid.consumed
        /\ row2.expired = mid.expired
    BY <2>1, <2>3, SyncedKeeps
  <2>5. row2.status = IF row.status = "expired" THEN "expired"
                      ELSE IF mid.available = 0 THEN "exhausted" ELSE "active"
    BY <2>1, <2>2, <2>3 DEF Synced, BucketRows
  <2>6. row.reserved \in Int /\ row.status \in Statuses
    BY DEF BucketRows
  <2>7. Emptied(row2) /\ (row2.status = "active" => row.status = "active" \/ row.available = 0)
    BY <2>4, <2>5, <2>6 DEF Emptied, Statuses
  <2>8. row2.reserved + n = row.reserved
    BY <2>2, <2>4, <2>6
  <2> QED BY <2>2, <2>4, <2>7, <2>8
<1> QED BY <1>1, <1>2

------------------------------------------------------------------------------
(* What the ledger says, before and after rows come in.                    *)

\* The rows of the given kinds.
OfKinds(kinds, rows) == {e \in rows : e.kind \in kinds}

\* LedgerExplainsBuckets, of given buckets and ledger rows.
Explains(rows, entries) ==
    \A b \in Buckets :
        /\ rows[b].consumed = Amount(OfKinds({"consume", "capture"}, entries), b)
        /\ rows[b].expired = Amount(OfKinds({"expire"}, entries), b)
        /\ rows[b].reserved = Amount(OfKinds({"hold"}, entries), b)
                              - Amount(OfKinds({"capture", "release"}, entries), b)

\* It is LedgerExplainsBuckets, now and after a step.
LEMMA ExplainsIs ==
    /\ LedgerExplainsBuckets <=> Explains(bucket, ledger)
    /\ LedgerExplainsBuckets' <=> Explains(bucket', ledger')
<1>1. ASSUME NEW kinds, NEW b
      PROVE  /\ Logged(kinds, b) = Amount(OfKinds(kinds, ledger), b)
             /\ Logged(kinds, b)' = Amount(OfKinds(kinds, ledger'), b)
  <2>1. Logged(kinds, b) = Amount(OfKinds(kinds, ledger), b)
    BY Zenon DEF Logged, Amount, OfKinds
  <2>2. Logged(kinds, b)' = Amount(OfKinds(kinds, ledger'), b)
    BY Zenon DEF Logged, Amount, OfKinds, MapThenSumSet, MapThenFoldSet
  <2> QED BY <2>1, <2>2
<1>2. LedgerExplainsBuckets <=> Explains(bucket, ledger)
  BY <1>1 DEF LedgerExplainsBuckets, Explains
<1>3. LedgerExplainsBuckets' <=> Explains(bucket', ledger')
  BY <1>1 DEF LedgerExplainsBuckets, Explains
<1> QED BY <1>2, <1>3

\* Sums over the ledger are integers.
LEMMA AmountTyped ==
    ASSUME NEW S \in SUBSET Entries, IsFiniteSet(S), NEW b \in Buckets
    PROVE  Amount(S, b) \in Int
<1>1. PICK g : Additive(g, Taking(b), S) /\ Amount(S, b) = g[S]
  BY AmountIs
<1> QED BY <1>1 DEF Additive

\* What a row adds to the sums over the given kinds.
Adds(e, kinds, b) == IF e.kind \in kinds THEN e.takes[b] ELSE 0

\* A fresh row adds what it takes to the sums over its kind, and to no other.
LEMMA AmountPosted ==
    ASSUME NEW rows \in SUBSET Entries, IsFiniteSet(rows), NEW e \in Entries, e \notin rows,
           NEW kinds, NEW b \in Buckets
    PROVE  Amount(OfKinds(kinds, rows \cup {e}), b)
                = Amount(OfKinds(kinds, rows), b) + Adds(e, kinds, b)
<1> DEFINE S == OfKinds(kinds, rows)
<1>1. S \in SUBSET Entries /\ S \subseteq rows /\ e \notin S
  BY DEF OfKinds
<1>2. IsFiniteSet(S)
  BY <1>1, FS_Subset
<1>3. Amount(S, b) \in Int
  BY <1>1, <1>2, AmountTyped
<1>4. CASE e.kind \in kinds
  <2>1. OfKinds(kinds, rows \cup {e}) = S \cup {e}
    BY <1>4 DEF OfKinds
  <2> HIDE DEF S
  <2>2. Amount(S \cup {e}, b) = Amount(S, b) + e.takes[b]
    BY <1>1, <1>2, AmountAdd
  <2>3. Adds(e, kinds, b) = e.takes[b] /\ e.takes[b] \in Int
    BY <1>4 DEF Adds, Entries
  <2> QED BY <1>3, <2>1, <2>2, <2>3 DEF S
<1>5. CASE e.kind \notin kinds
  <2>1. OfKinds(kinds, rows \cup {e}) = S
    BY <1>5 DEF OfKinds
  <2> HIDE DEF S
  <2>2. PICK n \in Int : n = Amount(S, b)
    BY <1>3
  <2>3. n + 0 = n
    OBVIOUS
  <2>4. Adds(e, kinds, b) = 0
    BY <1>5 DEF Adds
  <2> QED BY <1>3, <2>1, <2>2, <2>3, <2>4 DEF S
<1> QED BY <1>4, <1>5

\* A transaction that writes one fresh row keeps the ledger true to the buckets
\* when it moves in each of them what the row says.
LEMMA PostedExplains ==
    ASSUME NEW rows \in [Buckets -> BucketRows], NEW rows2 \in [Buckets -> BucketRows],
           NEW entries \in SUBSET Entries, IsFiniteSet(entries), NEW e \in Entries,
           e \notin entries, Explains(rows, entries),
           \A b \in Buckets :
              /\ rows2[b].consumed = rows[b].consumed
                    + Adds(e, {"consume", "capture"}, b)
              /\ rows2[b].expired = rows[b].expired
                    + Adds(e, {"expire"}, b)
              /\ rows2[b].reserved + Adds(e, {"capture", "release"}, b)
                    = rows[b].reserved + Adds(e, {"hold"}, b)
    PROVE  Explains(rows2, entries \cup {e})
<1> SUFFICES ASSUME NEW b \in Buckets
             PROVE
        /\ rows2[b].consumed = Amount(OfKinds({"consume", "capture"}, entries \cup {e}), b)
        /\ rows2[b].expired = Amount(OfKinds({"expire"}, entries \cup {e}), b)
        /\ rows2[b].reserved = Amount(OfKinds({"hold"}, entries \cup {e}), b)
                              - Amount(OfKinds({"capture", "release"}, entries \cup {e}), b)
  BY DEF Explains
<1> PICK used, lapsed, held, back : /\ used = {"consume", "capture"}
                                    /\ lapsed = {"expire"}
                                    /\ held = {"hold"}
                                    /\ back = {"capture", "release"}
  OBVIOUS
<1> DEFINE was(kinds) == Amount(OfKinds(kinds, entries), b)
           is(kinds) == Amount(OfKinds(kinds, entries \cup {e}), b)
           adds(kinds) == Adds(e, kinds, b)
<1>1. /\ rows[b].consumed = was(used)
      /\ rows[b].expired = was(lapsed)
      /\ rows[b].reserved = was(held) - was(back)
  BY DEF Explains
<1>2. /\ rows2[b].consumed = rows[b].consumed + adds(used)
      /\ rows2[b].expired = rows[b].expired + adds(lapsed)
      /\ rows2[b].reserved + adds(back) = rows[b].reserved + adds(held)
  OBVIOUS
<1>3. ASSUME NEW kinds
      PROVE  /\ was(kinds) \in Int
             /\ is(kinds) = was(kinds) + adds(kinds)
             /\ adds(kinds) \in Int
  <2>1. is(kinds) = was(kinds) + adds(kinds)
    BY AmountPosted
  <2>2. was(kinds) \in Int
    <3>1. OfKinds(kinds, entries) \in SUBSET entries
      BY DEF OfKinds
    <3>2. OfKinds(kinds, entries) \in SUBSET Entries /\ IsFiniteSet(OfKinds(kinds, entries))
      BY <3>1, FS_Subset
    <3> QED BY <3>2, AmountTyped
  <2>3. adds(kinds) \in Int
    BY DEF Adds, Entries
  <2> HIDE DEF was, is, adds
  <2> QED BY <2>1, <2>2, <2>3
<1>4. rows2[b].reserved \in Int
  BY DEF BucketRows
<1> SUFFICES /\ rows2[b].consumed = is(used)
             /\ rows2[b].expired = is(lapsed)
             /\ rows2[b].reserved = is(held) - is(back)
  OBVIOUS
<1> HIDE DEF was, is, adds
<1>5. PICK x \in Int, y \in Int, i \in Int, j \in Int, r \in Int :
        x = was(held) /\ y = was(back) /\ i = adds(held) /\ j = adds(back)
        /\ r = rows2[b].reserved
  BY <1>3, <1>4
<1>6. r + j = (x - y) + i
  BY <1>1, <1>2, <1>5
<1>7. r = (x + i) - (y + j)
  BY <1>6
<1> QED BY <1>1, <1>2, <1>3, <1>5, <1>7

------------------------------------------------------------------------------
(* The accounts, one transaction at a time.                                *)

\* A hold is of an operation and takes what it costs.
HoldsSound ==
    \A e \in ledger :
        e.kind = "hold" => e.of \in Operations /\ SumFunction(e.takes) = Cost[e.of]

\* No exhausted bucket has credits that its next release would reopen.
ExhaustedEmpty == \A b \in Buckets : Emptied(bucket[b])

\* The inductive invariant of the sums, on top of WalletInvariant.
Accounts ==
    /\ wallet \in WalletRows
    /\ IsFiniteSet(ledger)
    /\ HoldsSound
    /\ ExhaustedEmpty
    /\ WalletMatchesBuckets
    /\ LedgerExplainsBuckets

\* The unique key keeps the rows of a transaction fresh.
LEMMA FreshRow ==
    ASSUME NEW kind, NEW of, KeyFree(kind, of), NEW takes
    PROVE  Row(kind, of, takes) \notin ledger
BY DEF KeyFree, Recorded, Row

\* A settlement debits the rows as they are and sums the wallet up from them;
\* the buckets it leaves out have ended.
LEMMA SettleAccounts ==
    ASSUME WalletInvariant, WalletInvariant', Accounts, NEW w \in Workers, Settle(w)
    PROVE  Accounts'
<1> DEFINE u == txn[w].of
<1>1. /\ View(w).bucket = bucket
      /\ View(w).wallet = wallet
      /\ View(w).ended \subseteq ended
      /\ Written(w) = wallet.version + 1
      /\ wallet.version \in Nat
      /\ Cost[u] \in Nat
      /\ u \in Subjects
  <2>1. txn[w] # Idle /\ txn[w].op = "settle" /\ View(w).wallet.version = wallet.version
    BY DEF Settle, Doing, VersionHolds, View
  <2>2. /\ View(w).bucket = bucket /\ View(w).wallet = wallet /\ View(w).ended \subseteq ended
        /\ wallet.version \in Nat /\ u \in Usages
    BY <2>1 DEF WalletInvariant, SnapshotCurrent, WalletShaped
  <2> QED BY <2>1, <2>2, CreditAssumption DEF Written, View, Subjects
<1>2. PICK closed, take : /\ closed \in SUBSET View(w).ended
                          /\ take \in Takes(bucket, closed, Cost[u])
                          /\ Charge(w, closed, take)
  BY <1>1 DEF Settle
<1>3. take \in [Buckets -> Nat] /\ SumFunction(take) = Cost[u]
  BY <1>1, <1>2 DEF Takes
<1>4. bucket \in [Buckets -> BucketRows] /\ bucket' \in [Buckets -> BucketRows]
  BY DEF WalletInvariant, BucketsTyped
<1> DEFINE after(b) == IF take[b] = 0 THEN bucket[b]
                       ELSE Synced([bucket[b] EXCEPT !.available = @ - take[b],
                                                     !.consumed = @ + take[b]])
<1>5. ASSUME NEW b \in Buckets
      PROVE  /\ after(b)["available"] + take[b] = bucket[b]["available"]
             /\ after(b)["reserved"] = bucket[b]["reserved"]
             /\ after(b)["consumed"] = bucket[b]["consumed"] + take[b]
             /\ after(b)["expired"] = bucket[b]["expired"]
             /\ Emptied(after(b))
             /\ bucket'[b] = after(b)
             /\ Debited(w, take)[b] = after(b)
  <2>1. bucket[b] \in BucketRows /\ Emptied(bucket[b]) /\ take[b] \in Nat
    BY <1>3, <1>4 DEF Accounts, ExhaustedEmpty
  <2>2. take[b] <= bucket[b].available
    BY <1>1, <1>2, <2>1, TakesBounded DEF BucketRows
  <2>3. after(b) = IF take[b] = 0 THEN bucket[b]
                   ELSE Synced([bucket[b] EXCEPT !.available = @ - take[b],
                                                 !["consumed"] = @ + take[b]])
    OBVIOUS
  <2>4. /\ after(b)["available"] + take[b] = bucket[b]["available"]
        /\ after(b)["reserved"] = bucket[b]["reserved"]
        /\ after(b)["consumed"] = bucket[b]["consumed"] + take[b]
        /\ after(b)["expired"] = bucket[b]["expired"]
        /\ Emptied(after(b))
    <3> PICK row, n, row2, to : /\ row = bucket[b] /\ n = take[b]
                                /\ row2 = after(b) /\ to = "consumed"
      OBVIOUS
    <3>1. row2 = Taken(row, to, n)
      BY <2>3 DEF Taken
    <3> HIDE DEF after
    <3>2. row \in BucketRows /\ Emptied(row) /\ n \in Nat /\ n <= row.available
          /\ to \in {"reserved", "consumed"}
      BY <2>1, <2>2
    <3>3. /\ row2["available"] + n = row["available"]
          /\ row2["reserved"] = row["reserved"] + (IF to = "reserved" THEN n ELSE 0)
          /\ row2["consumed"] = row["consumed"] + (IF to = "consumed" THEN n ELSE 0)
          /\ row2["expired"] = row["expired"]
          /\ Emptied(row2)
      BY <3>1, <3>2, TakenShows
    <3>4. bucket[b]["reserved"] + 0 = bucket[b]["reserved"]
      BY <2>1 DEF BucketRows
    <3> QED BY <3>3, <3>4
  <2>5. Debited(w, take)[b] = after(b)
    BY <1>1 DEF Debited
  <2>6. after(b) \in BucketRows
    <3>1. [bucket[b] EXCEPT !.available = @ - take[b], !.consumed = @ + take[b]] \in BucketRows
      <4>1. bucket[b].available - take[b] \in Nat /\ bucket[b].consumed + take[b] \in Nat
        BY <2>1, <2>2 DEF BucketRows
      <4> QED BY <2>1, <4>1 DEF BucketRows
    <3> QED BY <2>1, <3>1, SyncedKeeps
  <2>7. /\ take[b] = 0 => bucket'[b] = bucket[b] /\ after(b) = bucket[b]
        /\ take[b] # 0 => bucket'[b] = [bucket[b] EXCEPT !.available = after(b).available,
                                                         !.consumed = after(b).consumed,
                                                         !.status = after(b).status]
    <3>1. take[b] = 0 => bucket'[b] = bucket[b] /\ after(b) = bucket[b]
      BY <1>2 DEF Charge
    <3>2. take[b] # 0 => bucket'[b] =
             [bucket[b] EXCEPT !.available = Debited(w, take)[b].available,
                               !.consumed = Debited(w, take)[b].consumed,
                               !.status = Debited(w, take)[b].status]
      BY <1>2 DEF Charge
    <3> HIDE DEF after
    <3> QED BY <3>1, <3>2, <2>5, Zenon
  <2> HIDE DEF after
  <2>8. [bucket[b] EXCEPT !.available = after(b).available, !.consumed = after(b).consumed,
                          !.status = after(b).status] = after(b)
    BY <2>1, <2>4, <2>6 DEF BucketRows
  <2>9. CASE take[b] = 0
    BY <2>4, <2>5, <2>7, <2>9
  <2>10. CASE take[b] # 0
    BY <2>4, <2>5, <2>7, <2>8, <2>10
  <2> QED BY <2>9, <2>10
<1> HIDE DEF after
<1>6. Debited(w, take) = bucket'
  <2>1. Debited(w, take) = [b \in Buckets |-> Debited(w, take)[b]]
    BY DEF Debited
  <2>2. bucket' = [b \in Buckets |-> bucket'[b]]
    BY <1>4
  <2> QED BY <1>5, <2>1, <2>2
<1>7. wallet' = [available |-> Consumable(bucket', closed),
                 reserved |-> Total(bucket', "reserved"),
                 consumed |-> wallet.consumed + Cost[u],
                 version |-> wallet.version + 1]
  BY <1>1, <1>2, <1>6, Zenon DEF Charge
<1>8. ledger' = ledger \cup {Row("consume", u, take)} /\ ended' = ended
  BY <1>2 DEF Charge, Settle
<1>9. Row("consume", u, take) \in Entries /\ Row("consume", u, take) \notin ledger
      /\ Row("consume", u, take).kind = "consume" /\ Row("consume", u, take).takes = take
  BY <1>1, <1>3, FreshRow DEF Settle, Row, Entries
<1>10. WalletMatchesBuckets'
  <2> PICK new : new = bucket'
    OBVIOUS
  <2>1. Total(new, "consumed") = Total(bucket, "consumed") + SumFunction(take)
    BY <1>3, <1>4, <1>5, TotalMoves DEF Columns4
  <2>2. Consumable(new, ended) <= Consumable(new, closed)
        /\ Consumable(new, closed) <= Total(new, "available")
    BY <1>1, <1>2, <1>4, ConsumableBounds
  <2>3. Consumable(new, ended) \in Int /\ Consumable(new, closed) \in Int
    BY <1>4, OpenTyped
  <2>4. /\ wallet'.reserved = Total(new, "reserved")
        /\ wallet'.consumed = Total(new, "consumed")
        /\ wallet'.available = Consumable(new, closed)
    BY <1>3, <1>7, <2>1 DEF Accounts, WalletMatchesBuckets
  <2> QED BY <1>8, <2>2, <2>3, <2>4 DEF WalletMatchesBuckets
<1>11. wallet' \in WalletRows
  <2>1. Consumable(bucket', closed) \in Int /\ Total(bucket', "reserved") \in Int
    BY <1>4, OpenTyped, ColumnTyped DEF Columns4
  <2>2. wallet.consumed + Cost[u] \in Nat /\ wallet.version + 1 \in Nat
    BY <1>1 DEF Accounts, WalletRows
  <2> QED BY <1>7, <2>1, <2>2 DEF WalletRows
<1>12. IsFiniteSet(ledger')
  BY <1>8, FS_AddElement DEF Accounts
<1>13. HoldsSound'
  BY <1>8, <1>9 DEF HoldsSound, Accounts
<1>14. ExhaustedEmpty'
  BY <1>5 DEF ExhaustedEmpty
<1>15. LedgerExplainsBuckets'
  <2> PICK new, e : new = bucket' /\ e = Row("consume", u, take)
    OBVIOUS
  <2>1. Explains(bucket, ledger)
    BY ExplainsIs DEF Accounts
  <2>2. \A b \in Buckets :
              /\ new[b].consumed = bucket[b].consumed
                    + Adds(e, {"consume", "capture"}, b)
              /\ new[b].expired = bucket[b].expired
                    + Adds(e, {"expire"}, b)
              /\ new[b].reserved + Adds(e, {"capture", "release"}, b)
                    = bucket[b].reserved + Adds(e, {"hold"}, b)
    BY <1>4, <1>5, <1>9 DEF BucketRows, Adds
  <2>3. Explains(new, ledger \cup {e})
    BY <1>4, <1>9, <2>1, <2>2, PostedExplains DEF Accounts, WalletInvariant, LedgerTyped
  <2> QED BY <1>8, <2>3, ExplainsIs
<1> QED BY <1>10, <1>11, <1>12, <1>13, <1>14, <1>15 DEF Accounts

\* What Post writes.
LEMMA PostShows ==
    ASSUME wallet \in WalletRows, NEW amount \in Nat,
           NEW from, NEW to, Post(amount, from, to),
           \/ from = "available" /\ to = "reserved"
           \/ from = "reserved" /\ to \in {"available", "consumed"}
    PROVE  /\ wallet' \in WalletRows
           /\ wallet'.available = wallet.available - (IF from = "available" THEN amount ELSE 0)
                                  + (IF to = "available" THEN amount ELSE 0)
           /\ wallet'.reserved = wallet.reserved - (IF from = "reserved" THEN amount ELSE 0)
                                 + (IF to = "reserved" THEN amount ELSE 0)
           /\ wallet'.consumed = wallet.consumed + (IF to = "consumed" THEN amount ELSE 0)
<1>1. wallet' = [wallet EXCEPT ![from] = @ - amount, ![to] = @ + amount, !.version = @ + 1]
  BY DEF Post
<1>2. /\ wallet.available - amount \in Int /\ wallet.available + amount \in Int
      /\ wallet.reserved - amount \in Int /\ wallet.reserved + amount \in Int
      /\ wallet.consumed + amount \in Nat /\ wallet.version + 1 \in Nat
  BY DEF WalletRows
<1>3. CASE from = "available" /\ to = "reserved"
  <2>1. wallet' = [wallet EXCEPT !.available = @ - amount, !.reserved = @ + amount,
                                 !.version = @ + 1]
    BY <1>1, <1>3
  <2>2. wallet' \in WalletRows
    BY <1>2, <2>1 DEF WalletRows
  <2>3. /\ wallet'.available = wallet.available - amount
        /\ wallet'.reserved = wallet.reserved + amount
        /\ wallet'.consumed = wallet.consumed
    BY <2>1 DEF WalletRows
  <2> QED BY <1>3, <2>2, <2>3 DEF WalletRows
<1>4. CASE from = "reserved" /\ to = "available"
  <2>1. wallet' = [wallet EXCEPT !.reserved = @ - amount, !.available = @ + amount,
                                 !.version = @ + 1]
    BY <1>1, <1>4
  <2>2. wallet' \in WalletRows
    BY <1>2, <2>1 DEF WalletRows
  <2>3. /\ wallet'.available = wallet.available + amount
        /\ wallet'.reserved = wallet.reserved - amount
        /\ wallet'.consumed = wallet.consumed
    BY <2>1 DEF WalletRows
  <2> QED BY <1>4, <2>2, <2>3 DEF WalletRows
<1>5. CASE from = "reserved" /\ to = "consumed"
  <2>1. wallet' = [wallet EXCEPT !.reserved = @ - amount, !.consumed = @ + amount,
                                 !.version = @ + 1]
    BY <1>1, <1>5
  <2>2. wallet' \in WalletRows
    BY <1>2, <2>1 DEF WalletRows
  <2>3. /\ wallet'.available = wallet.available
        /\ wallet'.reserved = wallet.reserved - amount
        /\ wallet'.consumed = wallet.consumed + amount
    BY <2>1 DEF WalletRows
  <2> QED BY <1>5, <2>2, <2>3 DEF WalletRows
<1> QED BY <1>3, <1>4, <1>5

\* Reserved credits leave open buckets only, so what the wallet holds beyond
\* its consumable credits stays.
LEMMA ReserveAccounts ==
    ASSUME WalletInvariant, WalletInvariant', Accounts, NEW o \in Operations, Reserve(o)
    PROVE  Accounts'
<1>1. PICK take \in Takes(bucket, ended, Cost[o]) :
          Move(take, "available", "reserved") /\ ledger' = ledger \cup {Row("hold", o, take)}
  BY DEF Reserve
<1>2. bucket \in [Buckets -> BucketRows] /\ bucket' \in [Buckets -> BucketRows]
  BY DEF WalletInvariant, BucketsTyped
<1>3. /\ Cost[o] \in Nat
      /\ take \in [Buckets -> Nat]
      /\ SumFunction(take) = Cost[o]
      /\ \A b \in Buckets : take[b] > 0 => /\ bucket[b].status = "active"
                                           /\ b \notin ended
                                           /\ take[b] <= bucket[b].available
  <2>1. Cost[o] \in Nat
    BY CreditAssumption
  <2> QED BY <1>1, <2>1 DEF Takes
<1>4. ASSUME NEW b \in Buckets
      PROVE  /\ bucket'[b]["available"] + take[b] = bucket[b]["available"]
             /\ bucket'[b]["reserved"] = bucket[b]["reserved"] + take[b]
             /\ bucket'[b]["consumed"] = bucket[b]["consumed"]
             /\ bucket'[b]["expired"] = bucket[b]["expired"]
             /\ Emptied(bucket'[b])
             /\ Open(bucket', ended, b) + take[b] <= Open(bucket, ended, b)
  <2> PICK row, row2, n, to : /\ row = bucket[b] /\ row2 = bucket'[b]
                              /\ n = take[b] /\ to = "reserved"
    OBVIOUS
  <2>1. row2 = Taken(row, to, n)
    BY <1>1 DEF Move, Taken
  <2>2. row \in BucketRows /\ row2 \in BucketRows /\ Emptied(row) /\ n \in Nat
        /\ to \in {"reserved", "consumed"}
    BY <1>2, <1>3 DEF Accounts, ExhaustedEmpty
  <2>3. n <= row.available /\ (n > 0 => row.status = "active" /\ b \notin ended)
    BY <1>3, <2>2 DEF BucketRows
  <2>4. /\ row2["available"] + n = row["available"]
        /\ row2["reserved"] = row["reserved"] + (IF to = "reserved" THEN n ELSE 0)
        /\ row2["consumed"] = row["consumed"] + (IF to = "consumed" THEN n ELSE 0)
        /\ row2["expired"] = row["expired"]
        /\ Emptied(row2)
        /\ row2.status = "active" => row.status = "active"
    BY <2>1, <2>2, <2>3, TakenShows
  <2>5. row["consumed"] + 0 = row["consumed"]
    BY <2>2 DEF BucketRows
  <2>6. n > 0 /\ row2.status # "active" => row2.available = 0
    <3>1. n > 0 => row2.status = IF row2.available = 0 THEN "exhausted" ELSE "active"
      BY <1>1, <2>1, <2>2, <2>3, <2>4 DEF Taken, Synced, BucketRows
    <3> QED BY <3>1
  <2>7. Open(bucket', ended, b) + n <= Open(bucket, ended, b)
    <3>1. /\ Open(bucket, ended, b)
               = IF row.status = "active" /\ b \notin ended THEN row.available ELSE 0
          /\ Open(bucket', ended, b)
               = IF row2.status = "active" /\ b \notin ended THEN row2.available ELSE 0
      BY DEF Open
    <3>2. row.available \in Nat /\ row2.available \in Nat
      BY <2>2 DEF BucketRows
    <3>3. CASE n = 0
      BY <3>1, <3>2, <3>3, <2>4
    <3>4. CASE n > 0
      BY <3>1, <3>2, <3>4, <2>3, <2>4, <2>6
    <3> QED BY <2>2, <3>3, <3>4
  <2> QED BY <2>4, <2>5, <2>7
<1>5. /\ wallet' \in WalletRows
      /\ wallet'.available = wallet.available - Cost[o]
      /\ wallet'.reserved = wallet.reserved + Cost[o]
      /\ wallet'.consumed = wallet.consumed
  <2> PICK from, to : from = "available" /\ to = "reserved"
    OBVIOUS
  <2>1. Post(Cost[o], from, to)
    BY DEF Reserve
  <2>2. /\ wallet' \in WalletRows
        /\ wallet'.available = wallet.available - Cost[o] + 0
        /\ wallet'.reserved = wallet.reserved - 0 + Cost[o]
        /\ wallet'.consumed = wallet.consumed + 0
    BY <1>3, <2>1, PostShows DEF Accounts
  <2> QED BY <1>3, <2>2 DEF Accounts, WalletRows
<1>6. ledger' = ledger \cup {Row("hold", o, take)} /\ ended' = ended
  BY <1>1 DEF Reserve
<1>7. PICK e : /\ e = Row("hold", o, take) /\ e \in Entries /\ e \notin ledger
               /\ e.kind = "hold" /\ e.of = o /\ e.takes = take
  <2> DEFINE e == Row("hold", o, take)
  <2>1. e.kind = "hold" /\ e.of = o /\ e.takes = take
    BY DEF Row
  <2>2. e \in Entries
    BY <1>3 DEF Row, Entries, Subjects
  <2>3. e \notin ledger
    BY FreshRow DEF Reserve
  <2> HIDE DEF e
  <2> QED BY <2>1, <2>2, <2>3 DEF e
<1>8. PICK new : new = bucket'
  OBVIOUS
<1>9. WalletMatchesBuckets'
  <2>1. Total(new, "reserved") = Total(bucket, "reserved") + SumFunction(take)
    BY <1>2, <1>3, <1>4, <1>8, TotalMoves DEF Columns4
  <2>2. Total(bucket, "available") = Total(new, "available") + SumFunction(take)
    BY <1>2, <1>3, <1>4, <1>8, TotalMoves DEF Columns4
  <2>3. Total(new, "consumed") = Total(bucket, "consumed")
    BY <1>4, <1>8, TotalStays
  <2>4. Consumable(new, ended) + SumFunction(take) <= Consumable(bucket, ended)
    BY <1>2, <1>3, <1>4, <1>8, ConsumableDrops
  <2>5. /\ Consumable(new, ended) \in Int /\ Consumable(bucket, ended) \in Int
        /\ Total(new, "available") \in Int /\ Total(bucket, "available") \in Int
    BY <1>2, <1>8, OpenTyped, ColumnTyped DEF Columns4
  <2>6. /\ wallet.available \in Int
        /\ wallet.reserved = Total(bucket, "reserved")
        /\ wallet.consumed = Total(bucket, "consumed")
        /\ wallet.available >= Consumable(bucket, ended)
        /\ wallet.available <= Total(bucket, "available")
    BY DEF Accounts, WalletMatchesBuckets, WalletRows
  <2>7. /\ wallet'.reserved = Total(new, "reserved")
        /\ wallet'.consumed = Total(new, "consumed")
    BY <1>3, <1>5, <2>1, <2>3, <2>6
  <2>8. /\ wallet'.available >= Consumable(new, ended)
        /\ wallet'.available <= Total(new, "available")
    BY <1>3, <1>5, <2>2, <2>4, <2>5, <2>6
  <2> QED BY <1>6, <1>8, <2>7, <2>8 DEF WalletMatchesBuckets
<1>10. IsFiniteSet(ledger')
  BY <1>6, FS_AddElement DEF Accounts
<1>11. HoldsSound'
  BY <1>3, <1>6, <1>7 DEF HoldsSound, Accounts
<1>12. ExhaustedEmpty'
  BY <1>4 DEF ExhaustedEmpty
<1>13. LedgerExplainsBuckets'
  <2>1. Explains(bucket, ledger)
    BY ExplainsIs DEF Accounts
  <2>2. \A b \in Buckets :
              /\ new[b].consumed = bucket[b].consumed + Adds(e, {"consume", "capture"}, b)
              /\ new[b].expired = bucket[b].expired + Adds(e, {"expire"}, b)
              /\ new[b].reserved + Adds(e, {"capture", "release"}, b)
                    = bucket[b].reserved + Adds(e, {"hold"}, b)
    BY <1>2, <1>3, <1>4, <1>7, <1>8 DEF BucketRows, Adds
  <2>3. Explains(new, ledger \cup {e})
    BY <1>2, <1>7, <1>8, <2>1, <2>2, PostedExplains DEF Accounts, WalletInvariant, LedgerTyped
  <2> QED BY <1>6, <1>7, <1>8, <2>3, ExplainsIs
<1> QED BY <1>5, <1>9, <1>10, <1>11, <1>12, <1>13 DEF Accounts

\* A capture moves the held credits on, a release gives them back; the row
\* they move in is the one the hold was taken from.
LEMMA EndHoldAccounts ==
    ASSUME WalletInvariant, WalletInvariant', Accounts, NEW w \in Workers, NEW kind, NEW to,
           \/ kind = "capture" /\ to = "consumed"
           \/ kind = "release" /\ to = "available",
           EndHold(w, kind, to)
    PROVE  Accounts'
<1>1. PICK hold \in ledger :
        /\ hold.kind = "hold" /\ hold.of = txn[w].of
        /\ Move(hold.takes, "reserved", to)
        /\ ledger' = ledger \cup {Row(kind, hold.of, hold.takes)}
  BY DEF EndHold
<1>2. bucket \in [Buckets -> BucketRows] /\ bucket' \in [Buckets -> BucketRows]
  BY DEF WalletInvariant, BucketsTyped
<1>3. PICK take, o : /\ take = hold.takes /\ o = hold.of
                     /\ take \in [Buckets -> Nat]
                     /\ o \in Operations
                     /\ SumFunction(take) = Cost[o]
                     /\ Cost[o] \in Nat
  <2>1. hold \in Entries
    BY DEF WalletInvariant, LedgerTyped
  <2>2. hold.takes \in [Buckets -> Nat]
    BY <2>1 DEF Entries
  <2>3. hold.of \in Operations /\ SumFunction(hold.takes) = Cost[hold.of]
    BY <1>1 DEF Accounts, HoldsSound
  <2>4. Cost[hold.of] \in Nat
    BY <2>3, CreditAssumption
  <2> QED BY <2>2, <2>3, <2>4
<1>4. ASSUME NEW b \in Buckets
      PROVE  /\ bucket'[b]["available"]
                  = bucket[b]["available"] + (IF to = "available" THEN take[b] ELSE 0)
             /\ bucket'[b]["reserved"] + take[b] = bucket[b]["reserved"]
             /\ bucket'[b]["consumed"]
                  = bucket[b]["consumed"] + (IF to = "consumed" THEN take[b] ELSE 0)
             /\ bucket'[b]["expired"] = bucket[b]["expired"]
             /\ Emptied(bucket'[b])
             /\ Open(bucket', ended, b)
                  <= Open(bucket, ended, b) + (IF to = "available" THEN take[b] ELSE 0)
  <2> PICK row, row2, n : row = bucket[b] /\ row2 = bucket'[b] /\ n = take[b]
    OBVIOUS
  <2>1. row2 = Unheld(row, to, n)
    BY <1>1, <1>3 DEF Move, Unheld
  <2>2. row \in BucketRows /\ row2 \in BucketRows /\ Emptied(row) /\ n \in Nat
        /\ to \in {"available", "consumed"}
    BY <1>2, <1>3 DEF Accounts, ExhaustedEmpty
  <2>3. /\ row2["available"] = row["available"] + (IF to = "available" THEN n ELSE 0)
        /\ row2["reserved"] + n = row["reserved"]
        /\ row2["consumed"] = row["consumed"] + (IF to = "consumed" THEN n ELSE 0)
        /\ row2["expired"] = row["expired"]
        /\ Emptied(row2)
        /\ row2.status = "active" => row.status = "active" \/ row.available = 0
    BY <2>1, <2>2, UnheldShows
  <2>4. Open(bucket', ended, b)
          <= Open(bucket, ended, b) + (IF to = "available" THEN n ELSE 0)
    <3>1. /\ Open(bucket, ended, b)
               = IF row.status = "active" /\ b \notin ended THEN row.available ELSE 0
          /\ Open(bucket', ended, b)
               = IF row2.status = "active" /\ b \notin ended THEN row2.available ELSE 0
      BY DEF Open
    <3>2. row.available \in Nat /\ row2.available \in Nat
      BY <2>2 DEF BucketRows
    <3> QED BY <2>2, <2>3, <3>1, <3>2
  <2> QED BY <2>3, <2>4
<1>5. PICK back : /\ back \in [Buckets -> Nat]
                  /\ \A b \in Buckets : back[b] = IF to = "available" THEN take[b] ELSE 0
                  /\ SumFunction(back) = IF to = "available" THEN Cost[o] ELSE 0
  <2>1. CASE to = "available"
    BY <1>3, <2>1
  <2>2. CASE to # "available"
    <3> DEFINE none == [b \in Buckets |-> 0]
    <3>1. none \in [Buckets -> Nat] /\ none \in [Buckets -> Int] /\ \A b \in Buckets : none[b] = 0
      OBVIOUS
    <3> HIDE DEF none
    <3>2. SumFunction(none) = 0
      BY <3>1, SumOfNothing
    <3> QED BY <2>2, <3>1, <3>2
  <2> QED BY <2>1, <2>2
<1>6. PICK on : /\ on \in [Buckets -> Nat]
                /\ \A b \in Buckets : on[b] = IF to = "consumed" THEN take[b] ELSE 0
                /\ SumFunction(on) = IF to = "consumed" THEN Cost[o] ELSE 0
  <2>1. CASE to = "consumed"
    BY <1>3, <2>1
  <2>2. CASE to # "consumed"
    <3> DEFINE none == [b \in Buckets |-> 0]
    <3>1. none \in [Buckets -> Nat] /\ none \in [Buckets -> Int] /\ \A b \in Buckets : none[b] = 0
      OBVIOUS
    <3> HIDE DEF none
    <3>2. SumFunction(none) = 0
      BY <3>1, SumOfNothing
    <3> QED BY <2>2, <3>1, <3>2
  <2> QED BY <2>1, <2>2
<1>7. /\ wallet' \in WalletRows
      /\ wallet'.available = wallet.available + (IF to = "available" THEN Cost[o] ELSE 0)
      /\ wallet'.reserved = wallet.reserved - Cost[o]
      /\ wallet'.consumed = wallet.consumed + (IF to = "consumed" THEN Cost[o] ELSE 0)
  <2> PICK from, amount : from = "reserved" /\ amount = Cost[o]
    OBVIOUS
  <2>1. Post(amount, from, to)
    BY <1>1, <1>3 DEF EndHold
  <2>2. /\ wallet' \in WalletRows
        /\ wallet'.available = wallet.available - (IF from = "available" THEN amount ELSE 0)
                                  + (IF to = "available" THEN amount ELSE 0)
        /\ wallet'.reserved = wallet.reserved - (IF from = "reserved" THEN amount ELSE 0)
                                 + (IF to = "reserved" THEN amount ELSE 0)
        /\ wallet'.consumed = wallet.consumed + (IF to = "consumed" THEN amount ELSE 0)
    BY <1>3, <2>1, PostShows DEF Accounts
  <2> QED BY <1>3, <2>2 DEF Accounts, WalletRows
<1>8. ledger' = ledger \cup {Row(kind, o, take)} /\ ended' = ended
  BY <1>1, <1>3 DEF EndHold
<1>9. PICK e : /\ e = Row(kind, o, take) /\ e \in Entries /\ e \notin ledger
               /\ e.kind = kind /\ e.of = o /\ e.takes = take
  <2> DEFINE e == Row(kind, o, take)
  <2>1. e.kind = kind /\ e.of = o /\ e.takes = take
    BY DEF Row
  <2>2. e \in Entries
    BY <1>3 DEF Row, Entries, Subjects
  <2>3. e \notin ledger
    BY <1>1, <1>3, FreshRow DEF EndHold
  <2> HIDE DEF e
  <2> QED BY <2>1, <2>2, <2>3 DEF e
<1>10. PICK new : new = bucket'
  OBVIOUS
<1>11. WalletMatchesBuckets'
  <2>1. Total(bucket, "reserved") = Total(new, "reserved") + SumFunction(take)
    BY <1>2, <1>3, <1>4, <1>10, TotalMoves DEF Columns4
  <2>2. Total(new, "available") = Total(bucket, "available") + SumFunction(back)
    <3>1. \A b \in Buckets : new[b]["available"] = bucket[b]["available"] + back[b]
      BY <1>4, <1>5, <1>10
    <3> QED BY <1>2, <1>5, <1>10, <3>1, TotalMoves DEF Columns4
  <2>3. Total(new, "consumed") = Total(bucket, "consumed") + SumFunction(on)
    <3>1. \A b \in Buckets : new[b]["consumed"] = bucket[b]["consumed"] + on[b]
      BY <1>4, <1>6, <1>10
    <3> QED BY <1>2, <1>6, <1>10, <3>1, TotalMoves DEF Columns4
  <2>4. Consumable(new, ended) <= Consumable(bucket, ended) + SumFunction(back)
    BY <1>2, <1>4, <1>5, <1>10, ConsumableMoves
  <2>5. /\ Consumable(new, ended) \in Int /\ Consumable(bucket, ended) \in Int
        /\ Total(new, "available") \in Int /\ Total(bucket, "available") \in Int
        /\ Total(new, "reserved") \in Int /\ Total(bucket, "reserved") \in Int
    BY <1>2, <1>10, OpenTyped, ColumnTyped DEF Columns4
  <2>6. /\ wallet.available \in Int
        /\ wallet.reserved = Total(bucket, "reserved")
        /\ wallet.consumed = Total(bucket, "consumed")
        /\ wallet.available >= Consumable(bucket, ended)
        /\ wallet.available <= Total(bucket, "available")
    BY DEF Accounts, WalletMatchesBuckets, WalletRows
  <2>7. wallet'.reserved = Total(new, "reserved")
    BY <1>3, <1>7, <2>1, <2>5, <2>6
  <2>8. wallet'.consumed = Total(new, "consumed")
    BY <1>6, <1>7, <2>3, <2>6
  <2>9. /\ wallet'.available >= Consumable(new, ended)
        /\ wallet'.available <= Total(new, "available")
    BY <1>3, <1>5, <1>7, <2>2, <2>4, <2>5, <2>6
  <2> QED BY <1>8, <1>10, <2>7, <2>8, <2>9 DEF WalletMatchesBuckets
<1>12. IsFiniteSet(ledger')
  BY <1>8, FS_AddElement DEF Accounts
<1>13. HoldsSound'
  BY <1>8, <1>9 DEF HoldsSound, Accounts
<1>14. ExhaustedEmpty'
  BY <1>4 DEF ExhaustedEmpty
<1>15. LedgerExplainsBuckets'
  <2>1. Explains(bucket, ledger)
    BY ExplainsIs DEF Accounts
  <2>2. \A b \in Buckets :
              /\ new[b].consumed = bucket[b].consumed + Adds(e, {"consume", "capture"}, b)
              /\ new[b].expired = bucket[b].expired + Adds(e, {"expire"}, b)
              /\ new[b].reserved + Adds(e, {"capture", "release"}, b)
                    = bucket[b].reserved + Adds(e, {"hold"}, b)
    BY <1>2, <1>3, <1>4, <1>9, <1>10 DEF BucketRows, Adds
  <2>3. Explains(new, ledger \cup {e})
    BY <1>2, <1>9, <1>10, <2>1, <2>2, PostedExplains DEF Accounts, WalletInvariant, LedgerTyped
  <2> QED BY <1>8, <1>9, <1>10, <2>3, ExplainsIs
<1> QED BY <1>7, <1>11, <1>12, <1>13, <1>14, <1>15 DEF Accounts

\* A fresh row with others that take nothing from the bucket.
LEMMA AmountAddIdle ==
    ASSUME NEW S \in SUBSET Entries, IsFiniteSet(S), NEW e \in Entries, e \notin S,
           NEW N \in SUBSET Entries, IsFiniteSet(N), NEW b \in Buckets,
           \A x \in N : x.takes[b] = 0, N \cap (S \cup {e}) = {},
           NEW T, T = (S \cup {e}) \cup N
    PROVE  Amount(T, b) = Amount(S, b) + e.takes[b]
<1>1. S \cup {e} \in SUBSET Entries /\ IsFiniteSet(S \cup {e})
  BY FS_AddElement
<1>2. Amount(S \cup {e}, b) = Amount(S, b) + e.takes[b]
  BY AmountAdd
<1> DEFINE R == S \cup {e}
<1> HIDE DEF R
<1>3. Amount(R \cup N, b) = Amount(R, b)
  BY <1>1, AmountIdle DEF R
<1> QED BY <1>2, <1>3 DEF R

\* The rows an expiry of D writes.
RowsOf(D, rowOf) == {rowOf[d] : d \in D}

\* They are finitely many.
LEMMA RowsFinite ==
    ASSUME NEW D \in SUBSET Buckets, NEW rowOf \in [D -> Entries]
    PROVE  IsFiniteSet(RowsOf(D, rowOf))
<1> DEFINE N == RowsOf(D, rowOf)
<1>1. IsFiniteSet(D)
  BY CreditAssumption, FS_Subset
<1>2. rowOf \in Surjection(D, N)
  BY DEF Surjection, RowsOf
<1> QED BY <1>1, <1>2, FS_Surjection

\* The rows of an expiry are new to the ledger, one for each of its buckets, and
\* each takes from its own bucket alone.
FreshExpiries(D, rowOf, entries) ==
    /\ rowOf \in [D -> Entries]
    /\ \A d \in D :
          /\ rowOf[d].kind = "expire" /\ rowOf[d].of = d /\ rowOf[d] \notin entries
          /\ \A c \in Buckets : c # d => rowOf[d].takes[c] = 0

\* They add to the sum over a bucket that expires what its own row takes.
LEMMA ExpiryPosted ==
    ASSUME NEW entries \in SUBSET Entries, IsFiniteSet(entries), NEW D \in SUBSET Buckets,
           NEW rowOf, FreshExpiries(D, rowOf, entries), NEW kinds, NEW c \in Buckets
    PROVE  "expire" \in kinds /\ c \in D =>
               Amount(OfKinds(kinds, entries \cup RowsOf(D, rowOf)), c)
                  = Amount(OfKinds(kinds, entries), c) + rowOf[c].takes[c]
<1> USE DEF FreshExpiries
<1> SUFFICES ASSUME "expire" \in kinds, c \in D
             PROVE  Amount(OfKinds(kinds, entries \cup RowsOf(D, rowOf)), c)
                       = Amount(OfKinds(kinds, entries), c) + rowOf[c].takes[c]
  OBVIOUS
<1> PICK N : N = {rowOf[d] : d \in D} /\ N = RowsOf(D, rowOf)
  BY DEF RowsOf
<1>1. N \in SUBSET Entries /\ IsFiniteSet(N)
  <2>1. N \in SUBSET Entries
    OBVIOUS
  <2>2. IsFiniteSet(N)
    BY RowsFinite
  <2> QED BY <2>1, <2>2
<1> DEFINE S == OfKinds(kinds, entries)
<1>2. S \in SUBSET Entries /\ S \in SUBSET entries
  BY DEF OfKinds
<1>3. IsFiniteSet(S)
  BY <1>2, FS_Subset
<1>4. PICK r : r = rowOf[c] /\ r \in Entries /\ r \in N /\ r \notin S
  BY <1>2
<1> DEFINE M == N \ {r}
           T == OfKinds(kinds, entries \cup N)
<1>5. M \in SUBSET Entries /\ \A e \in M : e.takes[c] = 0
  BY <1>1, <1>4
<1>6. IsFiniteSet(M)
  BY <1>1, FS_RemoveElement
<1>7. T = (S \cup {r}) \cup M
  BY <1>4 DEF OfKinds
<1>8. M \cap (S \cup {r}) = {}
  BY <1>2
<1> HIDE DEF S, M, T
<1>9. Amount(T, c) = Amount(S, c) + r.takes[c]
  BY <1>2, <1>3, <1>4, <1>5, <1>6, <1>7, <1>8, AmountAddIdle
<1> QED BY <1>4, <1>9 DEF S, T

\* They add nothing to the sums over other kinds, and nothing for a bucket that
\* does not expire.
LEMMA ExpiryIdle ==
    ASSUME NEW entries \in SUBSET Entries, IsFiniteSet(entries), NEW D \in SUBSET Buckets,
           NEW rowOf, FreshExpiries(D, rowOf, entries), NEW kinds, NEW c \in Buckets
    PROVE  "expire" \notin kinds \/ c \notin D =>
               Amount(OfKinds(kinds, entries \cup RowsOf(D, rowOf)), c)
                  = Amount(OfKinds(kinds, entries), c)
<1> USE DEF FreshExpiries
<1> PICK N : N = {rowOf[d] : d \in D} /\ N = RowsOf(D, rowOf)
  BY DEF RowsOf
<1>1. N \in SUBSET Entries /\ IsFiniteSet(N)
  <2>1. N \in SUBSET Entries
    OBVIOUS
  <2>2. IsFiniteSet(N)
    BY RowsFinite
  <2> QED BY <2>1, <2>2
<1> DEFINE S == OfKinds(kinds, entries)
<1>2. S \in SUBSET Entries /\ S \in SUBSET entries
  BY DEF OfKinds
<1>3. IsFiniteSet(S)
  BY <1>2, FS_Subset
<1>4. CASE "expire" \notin kinds
  <2>1. OfKinds(kinds, entries \cup N) = S
    BY <1>4 DEF OfKinds
  <2> HIDE DEF S
  <2> QED BY <2>1 DEF S
<1>5. CASE "expire" \in kinds /\ c \notin D
  <2>1. OfKinds(kinds, entries \cup N) = S \cup N
    BY <1>5 DEF OfKinds
  <2>2. N \cap S = {} /\ \A e \in N : e.takes[c] = 0
    BY <1>2, <1>5
  <2> HIDE DEF S
  <2>3. Amount(S \cup N, c) = Amount(S, c)
    BY <1>1, <1>2, <1>3, <2>2, AmountIdle
  <2> QED BY <1>5, <2>1, <2>3 DEF S
<1> QED BY <1>4, <1>5

\* An expiry sums the wallet up from the rows it leaves; the buckets it knows
\* to have ended are among those that have.
LEMMA ExpireAccounts ==
    ASSUME WalletInvariant, WalletInvariant', Accounts, NEW w \in Workers, Expire(w)
    PROVE  Accounts'
<1>1. PICK closed, D, rows :
        /\ closed = View(w).ended /\ D = Expiring(w) /\ rows = View(w).bucket
        /\ rows = bucket
        /\ closed \subseteq ended
        /\ D \in SUBSET Buckets
  <2>1. txn[w] # Idle /\ View(w).wallet.version = wallet.version
    BY DEF Expire, Doing, VersionHolds, View
  <2>2. View(w).bucket = bucket /\ View(w).ended \subseteq ended
        /\ View(w).ended \in SUBSET Buckets
    BY <2>1 DEF WalletInvariant, SnapshotCurrent
  <2>3. Expiring(w) \in SUBSET Buckets
    BY <2>2 DEF Expiring
  <2> QED BY <2>2, <2>3
<1>2. bucket \in [Buckets -> BucketRows] /\ bucket' \in [Buckets -> BucketRows]
  BY DEF WalletInvariant, BucketsTyped
<1> DEFINE gone(b) == [rows[b] EXCEPT
                          !.available = 0,
                          !.expired = rows[b].expired + rows[b].available,
                          !.status = IF rows[b].reserved > 0 THEN "exhausted" ELSE "expired"]
           rowOf == [b \in D |-> Row("expire", b,
                        [c \in Buckets |-> IF c = b THEN rows[b].available ELSE 0])]
<1>3. PICK new : new = bucket' /\ new \in [Buckets -> BucketRows]
  BY <1>2
<1>4. ASSUME NEW b \in Buckets
      PROVE  /\ new[b]["reserved"] = bucket[b]["reserved"]
             /\ new[b]["consumed"] = bucket[b]["consumed"]
             /\ b \in D => new[b].expired = bucket[b].expired + bucket[b].available
             /\ b \notin D => new[b].expired = bucket[b].expired
             /\ Emptied(new[b])
  <2>1. bucket[b] \in BucketRows /\ Emptied(bucket[b])
    BY <1>2 DEF Accounts, ExhaustedEmpty
  <2>2. new[b] = IF b \notin D THEN bucket[b] ELSE gone(b)
    BY <1>1, <1>3 DEF Expire
  <2>3. CASE b \notin D
    BY <2>1, <2>2, <2>3
  <2>4. CASE b \in D
    <3>1. gone(b).reserved = bucket[b].reserved
          /\ gone(b).consumed = bucket[b].consumed
          /\ gone(b).expired = bucket[b].expired + bucket[b].available
          /\ gone(b).available = 0
      BY <1>1, <2>1 DEF BucketRows
    <3> HIDE DEF gone
    <3> QED BY <2>2, <2>4, <3>1 DEF Emptied
  <2> QED BY <2>3, <2>4
<1> HIDE DEF gone
<1>5. /\ wallet'.available = Consumable(new, closed)
      /\ wallet'.reserved = Total(new, "reserved")
      /\ wallet'.consumed = wallet.consumed
      /\ wallet' = [available |-> wallet'.available, reserved |-> wallet'.reserved,
                    consumed |-> wallet'.consumed, version |-> wallet'.version]
      /\ wallet'.version \in Nat
      /\ wallet.consumed \in Nat
  <2>1. PICK v : wallet' = [wallet EXCEPT !.available = Consumable(new, closed),
                                          !.reserved = Total(new, "reserved"),
                                          !.version = v]
    BY <1>1, <1>3 DEF Expire
  <2>2. wallet \in WalletRows
    BY DEF Accounts
  <2>3. wallet'.available = Consumable(new, closed)
        /\ wallet'.reserved = Total(new, "reserved")
        /\ wallet'.consumed = wallet.consumed
        /\ wallet.consumed \in Nat
    BY <2>1, <2>2 DEF WalletRows
  <2>4. /\ wallet' = [available |-> wallet'.available, reserved |-> wallet'.reserved,
                      consumed |-> wallet'.consumed, version |-> wallet'.version]
        /\ wallet'.version \in Nat
    BY DEF WalletInvariant, WalletShaped
  <2> QED BY <2>3, <2>4
<1>6. ended' = ended
  BY DEF Expire
<1>7. WalletMatchesBuckets'
  <2>1. Total(new, "consumed") = Total(bucket, "consumed")
    BY <1>4, TotalStays
  <2>2. Consumable(new, ended) <= Consumable(new, closed)
        /\ Consumable(new, closed) <= Total(new, "available")
    BY <1>1, <1>3, ConsumableBounds
  <2>3. Consumable(new, ended) \in Int /\ Consumable(new, closed) \in Int
    BY <1>3, OpenTyped
  <2>4. wallet'.consumed = Total(new, "consumed")
    BY <1>5, <2>1 DEF Accounts, WalletMatchesBuckets
  <2> QED BY <1>3, <1>5, <1>6, <2>2, <2>3, <2>4 DEF WalletMatchesBuckets
<1>8. wallet' \in WalletRows
  <2>1. Consumable(new, closed) \in Int /\ Total(new, "reserved") \in Int
    BY <1>3, OpenTyped, ColumnTyped DEF Columns4
  <2> QED BY <1>5, <2>1 DEF WalletRows
<1>9. rowOf \in [D -> Entries]
  <2>1. ASSUME NEW b \in D
        PROVE  rowOf[b] \in Entries
    <3>1. b \in Buckets /\ bucket[b].available \in Nat
      BY <1>1, <1>2 DEF BucketRows
    <3>2. [c \in Buckets |-> IF c = b THEN rows[b].available ELSE 0] \in [Buckets -> Nat]
      BY <1>1, <3>1
    <3> QED BY <1>1, <3>1, <3>2 DEF Row, Entries, Subjects
  <2> QED BY <2>1
<1>10. ASSUME NEW d \in D
       PROVE  /\ rowOf[d].kind = "expire" /\ rowOf[d].of = d /\ rowOf[d] \notin ledger
              /\ \A c \in Buckets : c # d => rowOf[d].takes[c] = 0
              /\ rowOf[d].takes[d] = bucket[d].available
  <2>1. rowOf[d].kind = "expire" /\ rowOf[d].of = d
        /\ rowOf[d].takes = [c \in Buckets |-> IF c = d THEN rows[d].available ELSE 0]
    BY DEF Row
  <2>2. KeyFree("expire", d)
    BY <1>1 DEF Expiring
  <2>3. rowOf[d] \notin ledger
    BY <2>2, FreshRow
  <2>4. d \in Buckets
    BY <1>1
  <2> HIDE DEF rowOf
  <2> QED BY <1>1, <2>1, <2>3, <2>4
<1>11. PICK N : N = {rowOf[d] : d \in D} /\ N = RowsOf(D, rowOf) /\ ledger' = ledger \cup N
  <2> DEFINE told(b) == Row("expire", b,
                [c \in Buckets |-> IF c = b THEN View(w).bucket[b].available ELSE 0])
  <2>1. ledger' = ledger \cup {told(b) : b \in Expiring(w)}
    BY DEF Expire
  <2>2. \A b \in D : rowOf[b] = told(b)
    BY <1>1
  <2>3. {told(b) : b \in Expiring(w)} = {rowOf[d] : d \in D}
    <3> HIDE DEF rowOf, told
    <3> QED BY <1>1, <2>2
  <2> HIDE DEF rowOf, told
  <2> QED BY <2>1, <2>3 DEF RowsOf
<1> HIDE DEF rowOf
<1>12. ledger \in SUBSET Entries /\ IsFiniteSet(ledger)
  BY DEF WalletInvariant, LedgerTyped, Accounts
<1>13. FreshExpiries(D, rowOf, ledger)
  BY <1>9, <1>10 DEF FreshExpiries
<1>14. ASSUME NEW kinds, NEW c \in Buckets
       PROVE  /\ "expire" \in kinds /\ c \in D =>
                    Amount(OfKinds(kinds, ledger \cup N), c)
                       = Amount(OfKinds(kinds, ledger), c) + rowOf[c].takes[c]
              /\ "expire" \notin kinds \/ c \notin D =>
                    Amount(OfKinds(kinds, ledger \cup N), c) = Amount(OfKinds(kinds, ledger), c)
  <2>1. FreshExpiries(D, rowOf, ledger) /\ D \in SUBSET Buckets /\ c \in Buckets
        /\ ledger \in SUBSET Entries /\ IsFiniteSet(ledger)
    BY <1>1, <1>12, <1>13
  <2>2. "expire" \in kinds /\ c \in D =>
           Amount(OfKinds(kinds, ledger \cup RowsOf(D, rowOf)), c)
              = Amount(OfKinds(kinds, ledger), c) + rowOf[c].takes[c]
    BY <2>1, ExpiryPosted
  <2>3. "expire" \notin kinds \/ c \notin D =>
           Amount(OfKinds(kinds, ledger \cup RowsOf(D, rowOf)), c)
              = Amount(OfKinds(kinds, ledger), c)
    BY <2>1, ExpiryIdle
  <2> QED BY <2>2, <2>3, <1>11, Zenon
<1>15. IsFiniteSet(ledger')
  <2>1. IsFiniteSet(N)
    BY <1>1, <1>9, <1>11, RowsFinite
  <2> QED BY <1>11, <1>12, <2>1, FS_Union
<1>16. HoldsSound'
  <2>1. \A e \in N : e.kind # "hold"
    BY <1>10, <1>11
  <2> QED BY <1>11, <2>1 DEF HoldsSound, Accounts
<1>17. ExhaustedEmpty'
  BY <1>3, <1>4 DEF ExhaustedEmpty
<1>18. LedgerExplainsBuckets'
  <2>1. Explains(bucket, ledger)
    BY ExplainsIs DEF Accounts
  <2>2. ASSUME NEW c \in Buckets
        PROVE
        /\ new[c].consumed = Amount(OfKinds({"consume", "capture"}, ledger \cup N), c)
        /\ new[c].expired = Amount(OfKinds({"expire"}, ledger \cup N), c)
        /\ new[c].reserved = Amount(OfKinds({"hold"}, ledger \cup N), c)
                              - Amount(OfKinds({"capture", "release"}, ledger \cup N), c)
    <3> PICK used, lapsed, held, back : /\ used = {"consume", "capture"}
                                        /\ lapsed = {"expire"}
                                        /\ held = {"hold"}
                                        /\ back = {"capture", "release"}
      OBVIOUS
    <3>1. /\ bucket[c].consumed = Amount(OfKinds(used, ledger), c)
          /\ bucket[c].expired = Amount(OfKinds(lapsed, ledger), c)
          /\ bucket[c].reserved = Amount(OfKinds(held, ledger), c)
                                  - Amount(OfKinds(back, ledger), c)
      BY <2>1 DEF Explains
    <3>2. "expire" \notin used /\ "expire" \notin held /\ "expire" \notin back
          /\ "expire" \in lapsed
      OBVIOUS
    <3>3. /\ Amount(OfKinds(used, ledger \cup N), c) = Amount(OfKinds(used, ledger), c)
          /\ Amount(OfKinds(held, ledger \cup N), c) = Amount(OfKinds(held, ledger), c)
          /\ Amount(OfKinds(back, ledger \cup N), c) = Amount(OfKinds(back, ledger), c)
      BY <1>14, <3>2
    <3>4. new[c].expired = Amount(OfKinds(lapsed, ledger \cup N), c)
      <4>1. CASE c \in D
        <5>1. Amount(OfKinds(lapsed, ledger \cup N), c)
                = Amount(OfKinds(lapsed, ledger), c) + rowOf[c].takes[c]
          BY <1>14, <3>2, <4>1
        <5>2. rowOf[c].takes[c] = bucket[c].available
          BY <1>10, <4>1
        <5> QED BY <1>4, <3>1, <4>1, <5>1, <5>2
      <4>2. CASE c \notin D
        <5>1. Amount(OfKinds(lapsed, ledger \cup N), c) = Amount(OfKinds(lapsed, ledger), c)
          BY <1>14, <3>2, <4>2
        <5> QED BY <1>4, <3>1, <4>2, <5>1
      <4> QED BY <4>1, <4>2
    <3>5. /\ new[c].consumed = Amount(OfKinds(used, ledger \cup N), c)
          /\ new[c].reserved = Amount(OfKinds(held, ledger \cup N), c)
                              - Amount(OfKinds(back, ledger \cup N), c)
      BY <1>4, <3>1, <3>3
    <3> QED BY <3>4, <3>5
  <2>3. Explains(new, ledger \cup N)
    BY <2>2 DEF Explains
  <2> QED BY <1>3, <1>11, <2>3, ExplainsIs
<1> QED BY <1>7, <1>8, <1>15, <1>16, <1>17, <1>18 DEF Accounts

\* A free usage writes the wallet back as it was read, which is as it is.
LEMMA SettleFreeAccounts ==
    ASSUME WalletInvariant, Accounts, NEW w \in Workers, SettleFree(w)
    PROVE  Accounts'
<1>1. txn[w] # Idle /\ View(w).wallet.version = wallet.version
  BY DEF SettleFree, Doing, VersionHolds, View
<1>2. View(w).wallet = wallet /\ wallet.version \in Nat /\ Written(w) = wallet.version + 1
  BY <1>1 DEF WalletInvariant, SnapshotCurrent, WalletShaped, Written, View
<1>3. wallet' = [wallet EXCEPT !.available = wallet.available, !.reserved = wallet.reserved,
                               !.version = wallet.version + 1]
  BY <1>2 DEF SettleFree
<1>4. /\ wallet' \in WalletRows
      /\ wallet'.available = wallet.available
      /\ wallet'.reserved = wallet.reserved
      /\ wallet'.consumed = wallet.consumed
  <2>1. wallet \in WalletRows /\ wallet.version + 1 \in Nat
    BY <1>2 DEF Accounts
  <2>2. /\ wallet'.available = wallet.available
        /\ wallet'.reserved = wallet.reserved
        /\ wallet'.consumed = wallet.consumed
    BY <1>3, <2>1 DEF WalletRows
  <2>3. wallet' \in WalletRows
    BY <1>3, <2>1 DEF WalletRows
  <2> QED BY <2>2, <2>3
<1>5. bucket' = bucket /\ ledger' = ledger /\ ended' = ended
  BY DEF SettleFree
<1>6. WalletMatchesBuckets'
  BY <1>4, <1>5 DEF Accounts, WalletMatchesBuckets
<1>7. LedgerExplainsBuckets'
  BY <1>5, ExplainsIs DEF Accounts
<1> QED BY <1>4, <1>5, <1>6, <1>7 DEF Accounts, HoldsSound, ExhaustedEmpty

\* A bucket that ends takes its credits out of what must be available.
LEMMA BucketEndsAccounts ==
    ASSUME WalletInvariant, Accounts, NEW b \in Buckets, BucketEnds(b)
    PROVE  Accounts'
<1>1. wallet' = wallet /\ bucket' = bucket /\ ledger' = ledger /\ ended' = ended \cup {b}
  BY DEF BucketEnds
<1>2. bucket \in [Buckets -> BucketRows]
  BY DEF WalletInvariant, BucketsTyped
<1>3. WalletMatchesBuckets'
  <2> PICK ends : ends = ended'
    OBVIOUS
  <2>1. Consumable(bucket, ends) <= Consumable(bucket, ended)
    BY <1>1, <1>2, ConsumableBounds
  <2>2. Consumable(bucket, ends) \in Int /\ Consumable(bucket, ended) \in Int
    BY <1>2, OpenTyped
  <2>3. wallet.available \in Int /\ wallet.available >= Consumable(bucket, ended)
    BY DEF Accounts, WalletMatchesBuckets, WalletRows
  <2>4. wallet.available >= Consumable(bucket, ends)
    BY <2>1, <2>2, <2>3
  <2> QED BY <1>1, <2>4 DEF Accounts, WalletMatchesBuckets
<1>4. LedgerExplainsBuckets'
  BY <1>1, ExplainsIs DEF Accounts
<1> QED BY <1>1, <1>3, <1>4 DEF Accounts, HoldsSound, ExhaustedEmpty

\* Steps that move no row.
LEMMA SameAccounts ==
    ASSUME Accounts, UNCHANGED <<wallet, bucket, ledger, ended>>
    PROVE  Accounts'
<1>1. wallet' = wallet /\ bucket' = bucket /\ ledger' = ledger /\ ended' = ended
  OBVIOUS
<1>2. LedgerExplainsBuckets'
  BY <1>1, ExplainsIs DEF Accounts
<1>3. WalletMatchesBuckets'
  BY <1>1 DEF Accounts, WalletMatchesBuckets
<1> QED BY <1>1, <1>2, <1>3 DEF Accounts, HoldsSound, ExhaustedEmpty

\* A freshly granted wallet is summed up from its buckets.
LEMMA AccountsInit == Init => Accounts
<1> SUFFICES ASSUME Init PROVE Accounts
  OBVIOUS
<1>1. ASSUME NEW b \in Buckets
      PROVE  /\ bucket[b]["available"] = Granted[b]
             /\ bucket[b]["reserved"] = 0
             /\ bucket[b]["consumed"] = 0
             /\ bucket[b]["expired"] = 0
             /\ bucket[b]["status"] = "active"
             /\ Granted[b] \in Nat
  BY CreditAssumption DEF Init
<1>2. bucket \in [Buckets -> BucketRows]
  BY InvariantInit DEF WalletInvariant, BucketsTyped
<1>3. /\ wallet.available = SumFunction(Granted) /\ wallet.reserved = 0
      /\ wallet.consumed = 0 /\ wallet.version = 0
      /\ wallet = [available |-> wallet.available, reserved |-> wallet.reserved,
                   consumed |-> wallet.consumed, version |-> wallet.version]
      /\ ledger = {} /\ ended = {}
  BY DEF Init
<1>4. Total(bucket, "reserved") = 0 /\ Total(bucket, "consumed") = 0
  <2> DEFINE f(column) == [b \in Buckets |-> bucket[b][column]]
  <2>1. /\ \A b \in Buckets : f("reserved")[b] = 0
        /\ \A b \in Buckets : f("consumed")[b] = 0
    BY <1>1
  <2>2. f("reserved") \in [Buckets -> Int] /\ f("consumed") \in [Buckets -> Int]
    BY <2>1
  <2>3. Total(bucket, "reserved") = SumFunction(f("reserved"))
        /\ Total(bucket, "consumed") = SumFunction(f("consumed"))
    BY Zenon DEF Total
  <2> HIDE DEF f
  <2> QED BY <2>1, <2>2, <2>3, SumOfNothing
<1>5. Consumable(bucket, ended) = SumFunction(Granted)
      /\ Total(bucket, "available") = SumFunction(Granted)
  <2>1. [b \in Buckets |-> Open(bucket, ended, b)] = Granted
    <3>1. \A b \in Buckets : Open(bucket, ended, b) = Granted[b]
      BY <1>1, <1>3 DEF Open
    <3> QED BY <3>1, CreditAssumption
  <2>2. [b \in Buckets |-> bucket[b]["available"]] = Granted
    BY <1>1, CreditAssumption
  <2>3. Total(bucket, "available") = SumFunction(Granted)
    BY <2>2, Zenon DEF Total
  <2> QED BY <1>2, <2>1, <2>3, OpenTyped
<1>6. Consumable(bucket, ended) \in Int
  BY <1>2, OpenTyped
<1>7. WalletMatchesBuckets
  BY <1>3, <1>4, <1>5, <1>6 DEF WalletMatchesBuckets
<1>8. wallet \in WalletRows
  BY <1>3, <1>5, <1>6 DEF WalletRows
<1>9. IsFiniteSet(ledger)
  BY <1>3, FS_EmptySet
<1>10. HoldsSound
  BY <1>3 DEF HoldsSound
<1>11. ExhaustedEmpty
  BY <1>1 DEF ExhaustedEmpty, Emptied
<1>12. LedgerExplainsBuckets
  <2>1. ASSUME NEW kinds, NEW b \in Buckets
        PROVE  Amount(OfKinds(kinds, ledger), b) = 0
    <3>1. OfKinds(kinds, ledger) = {}
      BY <1>3 DEF OfKinds
    <3>2. PICK g : Additive(g, Taking(b), {}) /\ Amount({}, b) = g[{}]
      BY AmountIs, FS_EmptySet
    <3> QED BY <3>1, <3>2 DEF Additive
  <2>2. Explains(bucket, ledger)
    BY <1>1, <2>1 DEF Explains
  <2> QED BY <2>2, ExplainsIs
<1> QED BY <1>7, <1>8, <1>9, <1>10, <1>11, <1>12 DEF Accounts

\* Every step of every worker keeps the accounts.
LEMMA AccountsStep ==
    WalletInvariant /\ WalletInvariant' /\ Accounts /\ [Next]_vars => Accounts'
<1> SUFFICES ASSUME WalletInvariant, WalletInvariant', Accounts, [Next]_vars
             PROVE  Accounts'
  OBVIOUS
<1>1. ASSUME NEW w \in Workers,
             BeginSettle(w) \/ BeginCapture(w) \/ BeginRelease(w) \/ BeginExpire(w)
      PROVE  Accounts'
  BY <1>1, SameAccounts DEF BeginSettle, BeginCapture, BeginRelease, BeginExpire, Begin
<1>2. ASSUME NEW w \in Workers, EndWithoutEffect(w)
      PROVE  Accounts'
  BY <1>2, SameAccounts DEF EndWithoutEffect
<1>3. ASSUME NEW w \in Workers, Capture(w) \/ Release(w)
      PROVE  Accounts'
  BY <1>3, EndHoldAccounts DEF Capture, Release
<1>4. CASE UNCHANGED vars
  BY <1>4, SameAccounts DEF vars
<1> QED
  BY <1>1, <1>2, <1>3, <1>4, SettleAccounts, SettleFreeAccounts, ExpireAccounts,
     ReserveAccounts, BucketEndsAccounts DEF Next

------------------------------------------------------------------------------
(* The theorems of the accounts.                                           *)

\* What the workers are doing is typed.
TransactionsTyped == txn \in [Workers -> Transactions \cup {Idle}]

\* The rows of a state that satisfies both invariants make a typed snapshot.
LEMMA SnapshotTyped ==
    ASSUME WalletInvariant, Accounts
    PROVE  Snapshot \in Snapshots
BY DEF WalletInvariant, Accounts, BucketsTyped, LedgerTyped, Snapshot, Snapshots

\* A worker's transaction stays as it was opened until it ends.
LEMMA TransactionsStep ==
    WalletInvariant /\ Accounts /\ TransactionsTyped /\ [Next]_vars => TransactionsTyped'
<1> SUFFICES ASSUME WalletInvariant, Accounts, TransactionsTyped, [Next]_vars
             PROVE  TransactionsTyped'
  OBVIOUS
<1>1. ASSUME NEW w \in Workers, Commit(w)
      PROVE  TransactionsTyped'
  BY <1>1 DEF Commit, TransactionsTyped
<1>2. ASSUME NEW w \in Workers, NEW op \in {"settle", "capture", "release", "expire"},
             NEW of \in Subjects \cup {Idle}, Begin(w, op, of)
      PROVE  TransactionsTyped'
  <2>1. [op |-> op, of |-> of, view |-> Snapshot] \in Transactions
    BY SnapshotTyped DEF Transactions
  <2>2. txn' = [txn EXCEPT ![w] = [op |-> op, of |-> of, view |-> Snapshot]]
    BY <1>2 DEF Begin
  <2>3. PICK opened : opened = [op |-> op, of |-> of, view |-> Snapshot]
                      /\ opened \in Transactions
    BY <2>1
  <2> QED BY <2>2, <2>3 DEF TransactionsTyped
<1>3. ASSUME NEW w \in Workers,
             BeginSettle(w) \/ BeginCapture(w) \/ BeginRelease(w) \/ BeginExpire(w)
      PROVE  TransactionsTyped'
  <2>1. CASE BeginSettle(w)
    BY <2>1, <1>2 DEF BeginSettle, Subjects
  <2>2. CASE BeginCapture(w)
    BY <2>2, <1>2 DEF BeginCapture, Subjects
  <2>3. CASE BeginRelease(w)
    BY <2>3, <1>2 DEF BeginRelease, Subjects
  <2>4. CASE BeginExpire(w)
    BY <2>4, <1>2 DEF BeginExpire
  <2> QED BY <1>3, <2>1, <2>2, <2>3, <2>4
<1>4. ASSUME NEW w \in Workers,
             \/ SettleFree(w) \/ Settle(w) \/ Expire(w) \/ EndWithoutEffect(w)
             \/ Capture(w) \/ Release(w)
      PROVE  TransactionsTyped'
  BY <1>4, <1>1 DEF SettleFree, Settle, Expire, EndWithoutEffect, Capture, Release, EndHold
<1>5. CASE txn' = txn
  BY <1>5 DEF TransactionsTyped
<1> QED
  BY <1>3, <1>4, <1>5 DEF Next, Reserve, BucketEnds, vars

\* The accounts hold in every reachable state: the sums over the buckets and
\* over the ledger move together, transaction by transaction.
THEOREM AccountsKept == Spec => [](Accounts /\ TransactionsTyped)
<1>1. Init => TransactionsTyped
  BY DEF Init, TransactionsTyped
<1>2. Init => WalletInvariant /\ Accounts /\ TransactionsTyped
  BY <1>1, InvariantInit, AccountsInit
<1>3. /\ WalletInvariant /\ Accounts /\ TransactionsTyped
      /\ [Next]_vars
      => WalletInvariant' /\ Accounts' /\ TransactionsTyped'
  BY InvariantStep, AccountsStep, TransactionsStep
<1> QED BY <1>2, <1>3, PTL DEF Spec

\* However transactions interleave, the ledger accounts for every credit that
\* left a bucket or is held in it: no usage, capture, release or expiry counts
\* twice or goes unrecorded.
THEOREM LedgerExplains == Spec => []LedgerExplainsBuckets
<1>1. Accounts => LedgerExplainsBuckets
  BY DEF Accounts
<1> QED BY <1>1, AccountsKept, PTL

\* The wallet row, which settlements and expiries rewrite from their snapshots
\* and reservations move by increments, always adds up to its buckets.
THEOREM WalletMatches == Spec => []WalletMatchesBuckets
<1>1. Accounts => WalletMatchesBuckets
  BY DEF Accounts
<1> QED BY <1>1, AccountsKept, PTL

\* Every variable stays in its range: the wallet's columns, the rows, and what
\* the open transactions saw.
THEOREM WalletTyped == Spec => []TypeOK
<1>1. WalletInvariant /\ Accounts /\ TransactionsTyped => TypeOK
  BY DEF WalletInvariant, BucketsTyped, LedgerTyped, Accounts, TransactionsTyped, TypeOK
<1> QED BY <1>1, Invariant, AccountsKept, PTL
==============================================================================
