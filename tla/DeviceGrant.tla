---------------------------- MODULE DeviceGrant ----------------------------
(***************************************************************************)
(* One device authorization request of the command-line client             *)
(* (service/user/device_auth.py): browsers decide it, the client polls     *)
(* until it collects a token.  Every read-modify-write is done under a     *)
(* lock whose lease may end while its holder is still at work; releasing a *)
(* lost lock raises, and the holder's caller is told of an error.          *)
(*                                                                         *)
(* Time is left out: the request and a lease may end whenever they live.   *)
(* So are the rate guards and the texts shown to the user.                 *)
(***************************************************************************)
EXTENDS Naturals, FiniteSets

CONSTANTS
    Deciders,
    MaxCalls      \* bound on the HTTP calls

\* What the constants are.
GrantAssumption == MaxCalls \in Nat

Calls == 1 .. MaxCalls

VARIABLES
    grant,       \* the request's entry in Redis
    lock,        \* who owns the request's lock; 0 when nobody
    call,        \* call[c]: where call c is
    told,        \* told[c]: what call c was answered
    late         \* whether a decision was stored after its lease had ended

grantVars == <<grant, lock, call, told, late>>

NoSession == [status |-> "none", user |-> "none"]
NoCall == [kind |-> "none", user |-> "none", pc |-> "none", answer |-> "none"]

\* create_device_authorization has returned.
GrantInit ==
    /\ grant = [status |-> "pending", user |-> "none"]
    /\ lock = 0
    /\ call = [c \in Calls |-> NoCall]
    /\ told = [c \in Calls |-> "none"]
    /\ late = FALSE

Step(c, from, to) == call[c].pc = from /\ call' = [call EXCEPT ![c].pc = to]
Answer(c, from, answer) ==
    /\ call[c].pc = from
    /\ call' = [call EXCEPT ![c].pc = "release", ![c].answer = answer]
\* It ends and was told of nothing done.
Over(c) == call' = [call EXCEPT ![c] = [NoCall EXCEPT !.pc = "done"]]
First(c) == call[c] = NoCall /\ \A d \in Calls : d < c => call[d] # NoCall

\* A browser decides (_require_pending); the client polls.
Decide(c, kind, u) ==
    /\ First(c) /\ grant.status = "pending"
    /\ call' = [call EXCEPT ![c] = [NoCall EXCEPT !.kind = kind, !.user = u, !.pc = "lock"]]
    /\ UNCHANGED <<grant, lock, told, late>>
Poll(c) ==
    /\ First(c) /\ grant.status # "none"
    /\ call' = [call EXCEPT ![c] = [NoCall EXCEPT !.kind = "poll", !.pc = "lock"]]
    /\ UNCHANGED <<grant, lock, told, late>>

Acquire(c) ==
    /\ lock = 0
    /\ Step(c, "lock", "load") /\ lock' = c
    /\ UNCHANGED <<grant, told, late>>
\* After three seconds: an error, or "still pending".
GiveUp(c) == call[c].pc = "lock" /\ lock # 0 /\ Over(c) /\ UNCHANGED <<grant, lock, told, late>>

\* What a poll finds; it keeps the user it read.
Look(c) ==
    \/ /\ grant.status = "approved" /\ call[c].pc = "load"
       /\ call' = [call EXCEPT ![c].pc = "mint", ![c].user = grant.user]
    \/ grant.status = "denied" /\ Step(c, "load", "refuse")
    \/ grant.status = "pending" /\ Answer(c, "load", "pending")
    \/ grant.status = "none" /\ Answer(c, "load", "error")

ReloadTrusting(c) ==
    /\ IF call[c].kind = "poll" THEN Look(c) ELSE Step(c, "load", "store")
    /\ UNCHANGED <<grant, lock, told, late>>

\* The re-read inside the lock.
Reload(c) ==
    /\ IF call[c].kind = "poll" THEN Look(c)
       ELSE \/ grant.status = "pending" /\ Step(c, "load", "store")
            \/ grant.status # "pending" /\ Answer(c, "load", "error")
    /\ UNCHANGED <<grant, lock, told, late>>

\* The decision is written, whatever is there by now.
Store(c) ==
    /\ Answer(c, "store", call[c].kind)
    /\ grant' = [status |-> IF call[c].kind = "approve" THEN "approved" ELSE "denied",
                   user |-> call[c].user]
    /\ late' = (late \/ lock # c)
    /\ UNCHANGED <<lock, told>>

\* generate_token commits a session of its own; the database may fail.
MakeToken(c) ==
    /\ Step(c, "mint", "collect") \/ Answer(c, "mint", "error")
    /\ UNCHANGED <<grant, lock, told, late>>

DropNothing(c) ==
    /\ Answer(c, "refuse", "refused") \/ Answer(c, "collect", "token")
    /\ UNCHANGED <<grant, lock, told, late>>

\* _drop_session, of a denied and of a collected request.
Drop(c) ==
    /\ Answer(c, "refuse", "refused") \/ Answer(c, "collect", "token")
    /\ grant' = NoSession
    /\ UNCHANGED <<lock, told, late>>

\* lock.release() in the finally clause raises when the lease was lost.
Release(c) ==
    /\ call[c].pc = "release"
    /\ call' = [call EXCEPT ![c].pc = "done", ![c].answer = "none"]
    /\ told' = [told EXCEPT ![c] = IF lock = c THEN call[c].answer ELSE "error"]
    /\ lock' = IF lock = c THEN 0 ELSE lock
    /\ UNCHANGED <<grant, late>>

\* The worker dies.
CallDies(c) ==
    /\ call[c].pc \notin {"none", "done"}
    /\ Over(c)
    /\ UNCHANGED <<grant, lock, told, late>>

LeaseEnds == lock # 0 /\ lock' = 0 /\ UNCHANGED <<grant, call, told, late>>
SessionEnds ==
    /\ grant # NoSession /\ grant' = NoSession
    /\ UNCHANGED <<lock, call, told, late>>

GrantNext ==
    \/ \E c \in Calls :
        \/ Poll(c) \/ Acquire(c) \/ GiveUp(c) \/ Reload(c) \/ Store(c) \/ MakeToken(c)
        \/ Drop(c) \/ Release(c) \/ CallDies(c)
        \/ \E u \in Deciders : Decide(c, "approve", u)
        \/ Decide(c, "deny", "none")
    \/ LeaseEnds \/ SessionEnds

GrantSpec == GrantInit /\ [][GrantNext]_grantVars

------------------------------------------------------------------------------
(* Properties.                                                             *)

Told(answers) == {c \in Calls : told[c] \in answers}

\* Of the polls of a request only one walks away with a token, also when a slow
\* one outlived its lease; unless a decision was stored after its own.
OneCollector == late \/ Cardinality(Told({"token"})) <= 1

\* Of conflicting decisions one is confirmed to its browser, and it is the one
\* that counts: after a denial no token is handed out, after an approval only
\* one for the user who approved.
DecisionBinds ==
    /\ Cardinality(Told({"approve", "deny"})) <= 1
    /\ late \/ \A c \in Told({"approve", "deny"}), d \in Told({"token"}) :
        told[c] = "approve" /\ call[d].user = call[c].user
==============================================================================
