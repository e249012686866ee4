------------------------------ MODULE RpmGate ------------------------------
(***************************************************************************)
(* The queue that smooths the calls to a speech provider over time:        *)
(* acquire_tts_rpm_slot of service/tts/rpm_gate.py.  Calls of all workers  *)
(* take turns at one key in Redis, under a lock with a lease; when Redis   *)
(* fails a call falls back on its own process.  Redis may lose its data.   *)
(***************************************************************************)
EXTENDS Naturals, FiniteSets, FiniteSetsExt

CONSTANTS
    MaxCallers, LastTime,    \* bounds on the calls and on the clock
    Interval,             \* between two slots: 60 / rpm
    MaxWait,              \* how long a call may wait
    Slack                 \* what the lives of the key and of the lock add (60 s, 5 s)

\* What the constants are.
GateAssumption ==
    /\ MaxCallers \in Nat /\ LastTime \in Nat
    /\ {Interval, MaxWait, Slack} \subseteq Nat \ {0}

Callers == 1 .. MaxCallers

VARIABLES
    time,
    caller,     \* caller[c]: where call c is, when it started and its slot
    next,       \* next_available_at and when its key expires; 0 and 0 when absent
    mutex,      \* the lock's owner and the end of its lease
    local,      \* next_available_at of the process, shared by its calls
    upset       \* a lease ended under its holder, or Redis lost its data

gateVars == <<time, caller, next, mutex, local, upset>>

NoCaller == [pc |-> "none", start |-> 0, slot |-> 0]
NoKey == [at |-> 0, until |-> 0]
NoMutex == [by |-> 0, until |-> 0]

GateInit ==
    /\ time = 0
    /\ caller = [c \in Callers |-> NoCaller]
    /\ next = NoKey
    /\ mutex = NoMutex
    /\ local = 0
    /\ upset = FALSE

Later(a, b) == Max({a, b})
LatestSlot(c) == caller[c].start + MaxWait
Owned(c) == mutex.by = c
GoTo(c, pc) == caller' = [caller EXCEPT ![c].pc = pc]
\* It is refused, or goes by its own process.
Leave(c) == caller' = [caller EXCEPT ![c] = [NoCaller EXCEPT !.pc = "out"]]

Arrive(c) ==
    /\ caller[c].pc = "none" /\ \A d \in Callers : d < c => caller[d].pc # "none"
    /\ caller' = [caller EXCEPT ![c] = [NoCaller EXCEPT !.pc = "lock", !.start = time]]
    /\ UNCHANGED <<time, next, mutex, local, upset>>

Enter(c) ==
    /\ caller[c].pc = "lock" /\ mutex.by = 0
    /\ mutex' = [by |-> c, until |-> time + MaxWait + Slack]
    /\ GoTo(c, "read")
    /\ UNCHANGED <<time, next, local, upset>>
LockTimesOut(c) ==
    /\ caller[c].pc = "lock" /\ mutex.by # 0 /\ time >= LatestSlot(c)
    /\ Leave(c)
    /\ UNCHANGED <<time, next, mutex, local, upset>>

Let(c) == mutex' = IF Owned(c) THEN NoMutex ELSE mutex

\* The slot is the first free one, or the call waits too long and is refused.
Read(c) ==
    LET slot == Later(time, next.at) IN
    /\ caller[c].pc = "read"
    /\ \/ /\ slot > LatestSlot(c)
          /\ Leave(c) /\ Let(c)
       \/ /\ slot <= LatestSlot(c)
          /\ caller' = [caller EXCEPT ![c].pc = "write", ![c].slot = slot]
          /\ UNCHANGED mutex
    /\ UNCHANGED <<time, next, local, upset>>

LifeOfInterval == Interval
\* ttl_seconds: the key outlives the time it tells.
KeyLife == 4 * Interval + MaxWait + Slack

Write(c) ==
    /\ caller[c].pc = "write"
    /\ next' = [at |-> caller[c].slot + Interval, until |-> time + KeyLife]
    /\ caller' = [caller EXCEPT ![c].pc = "scheduled", ![c].start = 0]
    /\ Let(c)
    /\ upset' = (upset \/ ~Owned(c))
    /\ UNCHANGED <<time, local>>

\* _acquire_local_slot, after an error of Redis; a write may have been made.
FallBack(c) ==
    LET slot == Later(time, local) IN
    /\ caller[c].pc \in {"lock", "read", "write"}
    /\ \/ UNCHANGED next
       \/ /\ caller[c].pc = "write"
          /\ next' = [at |-> caller[c].slot + Interval, until |-> time + KeyLife]
    /\ upset' = (upset \/ (next' # next /\ ~Owned(c)))
    /\ Let(c)
    /\ \/ /\ slot <= LatestSlot(c)
          /\ Leave(c) /\ local' = slot + Interval
       \/ /\ slot > LatestSlot(c)
          /\ Leave(c) /\ UNCHANGED local
    /\ UNCHANGED time

\* Time passes: keys and leases end.
TimePasses ==
    /\ time < LastTime
    /\ time' = time + 1
    /\ next' = IF next.until <= time + 1 THEN NoKey ELSE next
    /\ mutex' = IF mutex.until <= time + 1 THEN NoMutex ELSE mutex
    /\ UNCHANGED <<caller, local, upset>>

RedisForgets ==
    /\ ~upset /\ (next # NoKey \/ mutex # NoMutex)
    /\ next' = NoKey /\ mutex' = NoMutex
    /\ upset' = TRUE
    /\ UNCHANGED <<time, caller, local>>

GateNext ==
    \/ \E c \in Callers :
        \/ Arrive(c) \/ Enter(c) \/ LockTimesOut(c) \/ Read(c) \/ Write(c) \/ FallBack(c)
    \/ TimePasses \/ RedisForgets

GateSpec == GateInit /\ [][GateNext]_gateVars

------------------------------------------------------------------------------
(* Properties.                                                             *)

\* Slots handed out through Redis keep the provider's rate, whatever lock or
\* key expired meanwhile and whoever fell back; unless a stalled call wrote
\* after its lease, or Redis forgot.
SlotsSpaced ==
    upset \/ \A c, d \in Callers :
        caller[c].pc = "scheduled" /\ caller[d].pc = "scheduled" /\ c < d =>
            \/ caller[c].slot >= caller[d].slot + Interval
            \/ caller[d].slot >= caller[c].slot + Interval
==============================================================================
