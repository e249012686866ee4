--------------------------- MODULE LiveAdmission ----------------------------
(***************************************************************************)
(* Minting browser-direct credentials for live follow-ups:                 *)
(* service/learn/live_follow_up_admission.py (one Lua script, atomic) and  *)
(* create_session of live_follow_up_routes.py around it.                   *)
(*                                                                         *)
(* A credential cannot be revoked, so what it may still be used for is     *)
(* counted in a ledger until it expires, while the ownership of a live     *)
(* session moves on.  Every call that reserves a mint makes a new session, *)
(* revision and lease: one number stands for the three.  Redis may restart *)
(* and lose everything; a marker then keeps admission shut.                *)
(*                                                                         *)
(* Rate windows and the per-worker ledger only refuse more and are left    *)
(* out, and so is the key kept for older workers.                          *)
(***************************************************************************)
EXTENDS Naturals, FiniteSets

CONSTANTS
    Users, Starts,
    UserOf,       \* UserOf[r]: who sends request r
    MaxMints,     \* bound on the calls that reserve a mint
    MaxTime,      \* bound on the clock
    Deadline,     \* how long a mint may take (15 s)
    Life,         \* of a credential, of its lease, and of the recovery guard (900 s)
    Keep,         \* least life of an operation's record (1200 s)
    Age, Ahead,   \* how old, how far ahead a request's own time may be (120 s, 30 s)
    GlobalLimit, UserLimit, ActiveLimit

\* What the constants are.
AdmissionAssumption ==
    /\ Starts # {} /\ UserOf \in [Starts -> Users]
    /\ MaxMints \in Nat /\ MaxTime \in Nat
    /\ {Deadline, Life, Keep, Age, Ahead} \subseteq Nat
    /\ 0 < Deadline /\ Deadline < Life /\ Life < Keep /\ Age + Ahead < Life
    /\ {GlobalLimit, UserLimit, ActiveLimit} \subseteq Nat \ {0}

Mints == 1 .. MaxMints

VARIABLES
    now,
    mint,     \* mint[c]: the worker that reserved mint c
    stamp,    \* stamp[r]: the time in the identifier of request r
    op,       \* op[r]: the record of request r
    head,     \* head[u]: who owns the live session of user u
    risk,     \* the leases in the ledgers
    active,   \* active[u]: until when the owner counts as an active session
    bound,    \* sessions whose binding is stored
    marked,   \* whether this Redis process has its recovery marker
    safe      \* when admission opens

admissionVars == <<now, mint, stamp, op, head, risk, active, bound, marked, safe>>
redis == <<op, head, risk, active, bound, marked, safe>>

NoRecord == [mint |-> 0, state |-> "none"]
NoMint == [pc |-> "none", req |-> CHOOSE r \in Starts : TRUE, issued |-> 0]

AdmissionInit ==
    /\ now = 0
    /\ mint = [c \in Mints |-> NoMint]
    /\ stamp = [r \in Starts |-> 0]
    /\ op = [r \in Starts |-> NoRecord]
    /\ head = [u \in Users |-> NoRecord]
    /\ risk = {}
    /\ active = [u \in Users |-> 0]
    /\ bound = {}
    /\ marked = TRUE
    /\ safe = 0

ReqOf(c) == mint[c].req
Owner(c) == UserOf[ReqOf(c)]
DeadlineOf(c) == mint[c].issued + Deadline
ExpiryOf(c) == mint[c].issued + Life

Kept(rec) == rec.mint # 0
Record(c, state) == [mint |-> c, state |-> state]

\* owner_matches, for the operation and the head of call c.
OwnerMatches(c) ==
    /\ Kept(op[ReqOf(c)]) /\ op[ReqOf(c)].mint = c
    /\ Kept(head[Owner(c)]) /\ head[Owner(c)].mint = c

\* A mint is being provisioned; an issued session is in use.
PendingNow(u) == Kept(head[u]) /\ head[u].state = "pending" /\ DeadlineOf(head[u].mint) > now
IssuedNow(u) == Kept(head[u]) /\ head[u].state = "issued" /\ ExpiryOf(head[u].mint) > now
\* What action 'current' answers about call c.
Current(c) == IssuedNow(Owner(c)) /\ head[Owner(c)].mint = c

Goes(c, from, to) == mint[c].pc \in from /\ mint' = [mint EXCEPT ![c].pc = to]

------------------------------------------------------------------------------
(* begin_admission.                                                        *)

\* Who may own the live session next.  A replacement names the session it
\* replaces and a takeover the revision it saw, which must be the head's.
MayOwn(u, how, rotation) ==
    /\ ~PendingNow(u)
    /\ CASE how = "fresh" -> ~IssuedNow(u)
         [] how = "replace" -> Kept(head[u])
         [] how = "takeover" -> rotation

Of(u, leases) == {c \in leases : Owner(c) = u}
ActiveUsers == {u \in Users : active[u] # 0}

\* No quota is exhausted; expired members were pruned just before.
Room(u, rotation) ==
    /\ Cardinality(risk) < GlobalLimit
    /\ Cardinality(Of(u, risk)) < (IF rotation THEN UserLimit ELSE 1)
    /\ u \in ActiveUsers \/ Cardinality(ActiveUsers) < ActiveLimit

\* The request's own time: chosen by the browser when it first asks.
InTime(t) == t + Age >= now /\ t <= now + Ahead
Asked(r) == \E c \in Mints : mint[c].pc # "none" /\ ReqOf(c) = r

Create(c, r, how, rotation) ==
    LET u == UserOf[r] IN
    /\ \A d \in Mints : mint[d].pc = "none" <=> d >= c
    /\ ~Kept(op[r])
    /\ IF Asked(r) THEN InTime(stamp[r]) /\ stamp' = stamp
       ELSE \E t \in 0 .. MaxTime : InTime(t) /\ stamp' = [stamp EXCEPT ![r] = t]
    /\ marked /\ safe <= now
    /\ MayOwn(u, how, rotation)
    /\ Room(u, rotation)
    /\ mint' = [mint EXCEPT ![c] = [pc |-> "reserved", req |-> r, issued |-> now]]
    /\ op' = [op EXCEPT ![r] = Record(c, "pending")]
    /\ head' = [head EXCEPT ![u] = Record(c, "pending")]
    /\ risk' = risk \cup {c}
    /\ active' = [active EXCEPT ![u] = now + Deadline]
    /\ UNCHANGED <<now, bound, marked, safe>>

WarmOpen ==
    /\ ~marked
    /\ marked' = TRUE
    /\ safe' = now
    /\ UNCHANGED <<now, mint, stamp, op, head, risk, active, bound>>

\* _RECOVERY_GUARD in the first call, or probe, after a restart of Redis.
Warm ==
    /\ ~marked
    /\ marked' = TRUE
    /\ safe' = now + Life
    /\ UNCHANGED <<now, mint, stamp, op, head, risk, active, bound>>

------------------------------------------------------------------------------
(* create_session: the mint, and the answer.                               *)

MintMade(c) == Goes(c, {"reserved"}, "minted") /\ UNCHANGED <<now, stamp, redis>>

\* The provider refused, or its answer was not usable; the provider did not
\* answer in time and may have minted a token.
MintFails(c) == Goes(c, {"reserved"}, "undisclosed") /\ UNCHANGED <<now, stamp, redis>>
MintTimesOut(c) == Goes(c, {"reserved"}, "uncertain") /\ UNCHANGED <<now, stamp, redis>>

Completable(c) ==
    /\ OwnerMatches(c)
    /\ op[ReqOf(c)].state = "pending" /\ head[Owner(c)].state = "pending"
    /\ DeadlineOf(c) > now
    /\ c \notin bound

\* Action 'complete', and the answer with the token, unless Redis fails to
\* answer in between.
Complete(c) ==
    /\ Completable(c)
    /\ \E to \in {"told", "undisclosed"} : Goes(c, {"minted"}, to)
    /\ op' = [op EXCEPT ![ReqOf(c)] = Record(c, "issued")]
    /\ head' = [head EXCEPT ![Owner(c)] = Record(@.mint, "issued")]
    /\ bound' = bound \cup {c}
    /\ active' = [active EXCEPT ![Owner(c)] = ExpiryOf(c)]
    /\ UNCHANGED <<now, stamp, risk, marked, safe>>

\* It was refused, or Redis could not be asked.
CompleteFails(c) == Goes(c, {"minted"}, "undisclosed") /\ UNCHANGED <<now, stamp, redis>>

FailReleasing(c) ==
    /\ OwnerMatches(c) /\ op[ReqOf(c)].state = "pending"
    /\ \/ Goes(c, {"undisclosed"}, "over")
       \/ Goes(c, {"uncertain"}, "loose")
    /\ op' = [op EXCEPT ![ReqOf(c)] = Record(c, "failed")]
    /\ head' = [head EXCEPT ![Owner(c)] = Record(c, "retired")]
    /\ active' = [active EXCEPT ![Owner(c)] = 0]
    /\ risk' = risk \ {c}
    /\ UNCHANGED <<now, stamp, bound, marked, safe>>

\* Action 'fail': only what was surely not disclosed gives its lease back.
Fail(c) ==
    /\ OwnerMatches(c) /\ op[ReqOf(c)].state = "pending"
    /\ \/ Goes(c, {"undisclosed"}, "over") /\ risk' = risk \ {c}
       \/ Goes(c, {"uncertain"}, "loose") /\ risk' = risk
    /\ op' = [op EXCEPT ![ReqOf(c)] = Record(c, "failed")]
    /\ head' = [head EXCEPT ![Owner(c)] = Record(c, "retired")]
    /\ active' = [active EXCEPT ![Owner(c)] = 0]
    /\ UNCHANGED <<now, stamp, bound, marked, safe>>

\* It changed nothing, or was never run: its worker died, or Redis failed.
FailIgnored(c) ==
    /\ Goes(c, {"undisclosed"}, "over") \/ Goes(c, {"uncertain"}, "loose")
    /\ UNCHANGED <<now, stamp, redis>>

\* The worker dies; a mint it had asked for may have been made.
MinterDies(c) ==
    /\ Goes(c, {"reserved", "minted"}, "loose")
    /\ UNCHANGED <<now, stamp, redis>>

------------------------------------------------------------------------------
\* Action 'retire', for a stored session: its lease stays.
Retire(c) ==
    /\ c \in bound
    /\ Kept(head[Owner(c)]) /\ head[Owner(c)].mint = c
    /\ head' = [head EXCEPT ![Owner(c)] = Record(c, "retired")]
    /\ active' = [active EXCEPT ![Owner(c)] = 0]
    /\ UNCHANGED <<now, mint, stamp, op, risk, bound, marked, safe>>

\* Redis restarts, with or without its data.
Restart ==
    /\ marked
    /\ marked' = FALSE
    /\ \/ UNCHANGED <<op, head, risk, active, bound>>
       \/ /\ op' = [r \in Starts |-> NoRecord]
          /\ head' = [u \in Users |-> NoRecord]
          /\ risk' = {}
          /\ active' = [u \in Users |-> 0]
          /\ bound' = {}
    /\ UNCHANGED <<now, mint, stamp, safe>>

\* Time passes: leases, active sessions and credentials come to their end.
Tick ==
    /\ now < MaxTime
    /\ now' = now + 1
    /\ risk' = {c \in risk : ExpiryOf(c) > now + 1}
    /\ active' = [u \in Users |-> IF active[u] <= now + 1 THEN 0 ELSE active[u]]
    /\ mint' = [c \in Mints |-> IF mint[c].pc \in {"told", "loose"} /\ ExpiryOf(c) <= now + 1
                               THEN [mint[c] EXCEPT !.pc = "over"] ELSE mint[c]]
    /\ UNCHANGED <<stamp, op, head, bound, marked, safe>>

\* The record of an operation expires; later writes to it may have kept it
\* longer than its creation did.  An owner's record is kept as long, and by
\* then its session has expired and it decides nothing.
Forget(r) ==
    /\ Kept(op[r])
    /\ mint[op[r].mint].issued + Keep <= now
    /\ op' = [op EXCEPT ![r] = NoRecord]
    /\ UNCHANGED <<now, mint, stamp, head, risk, active, bound, marked, safe>>

Serve(c) ==
    \/ MintMade(c) \/ MintFails(c) \/ MintTimesOut(c)
    \/ Complete(c) \/ CompleteFails(c)
    \/ Fail(c) \/ FailIgnored(c) \/ MinterDies(c) \/ Retire(c)

AdmissionNext ==
    \/ \E c \in Mints, r \in Starts, rotation \in BOOLEAN :
        \E how \in {"fresh", "replace", "takeover"} : Create(c, r, how, rotation)
    \/ \E c \in Mints : Serve(c)
    \/ \E r \in Starts : Forget(r)
    \/ Warm \/ Restart \/ Tick

AdmissionSpec == AdmissionInit /\ [][AdmissionNext]_admissionVars

------------------------------------------------------------------------------
(* Properties.                                                             *)

RecordType ==
    [mint : 0 .. MaxMints, state : {"none", "pending", "issued", "failed", "retired"}]
MintType ==
    [req : Starts, issued : 0 .. MaxTime,
     pc : {"none", "reserved", "minted", "told",
           "undisclosed", "uncertain", "over", "loose"}]
\* Every variable stays in its range.
AdmissionTypeOK ==
    /\ now \in 0 .. MaxTime
    /\ mint \in [Mints -> MintType]
    /\ stamp \in [Starts -> 0 .. MaxTime]
    /\ op \in [Starts -> RecordType]
    /\ head \in [Users -> RecordType]
    /\ risk \in SUBSET Mints
    /\ active \in [Users -> Nat]
    /\ bound \in SUBSET Mints
    /\ marked \in BOOLEAN
    /\ safe \in Nat

\* Credentials somebody may be holding: disclosed, on the way to it, or never
\* shown to be unmade.
Exposed ==
    {c \in Mints : /\ mint[c].pc \in {"minted", "told", "uncertain", "loose"}
                   /\ ExpiryOf(c) > now}

\* No more credentials are out than the limits say, for one user and for all,
\* and no more users have a session or are getting one, whatever was superseded,
\* retired, timed out or lost with Redis' data.
CredentialsBounded ==
    /\ Cardinality(Exposed) <= GlobalLimit
    /\ \A u \in Users : Cardinality(Of(u, Exposed)) <= UserLimit
    /\ Cardinality({u \in Users : PendingNow(u) \/ IssuedNow(u)}) <= ActiveLimit

\* A request, however often it is sent, reserves one mint; also when the record
\* of the first has expired or was lost.
MintsOnce ==
    \A c, d \in Mints :
        mint[c].pc # "none" /\ mint[d].pc # "none" /\ ReqOf(c) = ReqOf(d) => c = d

==============================================================================
