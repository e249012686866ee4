--------------------------- MODULE ServiceProofs ---------------------------
(***************************************************************************)
(* What LiveAdmission, DeviceGrant and RpmGate promise, for every value of *)
(* their constants.                                                        *)
(***************************************************************************)
EXTENDS LiveAdmission, DeviceGrant, RpmGate, FiniteSetTheorems, TLAPS

------------------------------------------------------------------------------
(* DeviceGrant.  The lock alone does not give it, because its lease may    *)
(* end: what does is that a call which lost its lease is told of an error, *)
(* and that nobody gets a lock twice.  So only the lock's owner has to be  *)
(* looked at.                                                              *)

Decisions == {"approve", "deny"}
Statuses == {"none", "pending", "approved", "denied"}
Places == {"none", "lock", "load", "store", "mint", "collect", "refuse", "release", "done"}
Answers == {"none", "pending", "error", "refused", "token"} \cup Decisions
AnyUser == Deciders \cup {"none"}
CallType == [kind : {"none", "poll"} \cup Decisions, user : AnyUser,
             pc : Places, answer : Answers]

GrantTypeOK ==
    /\ grant \in [status : Statuses, user : AnyUser]
    /\ lock \in Calls \cup {0}
    /\ call \in [Calls -> CallType]
    /\ told \in [Calls -> Answers]
    /\ late \in BOOLEAN

\* A call at the end of its work, about to be told of a decision or a token.
Deciding(c) == call[c].pc = "release" /\ call[c].answer \in Decisions
Handing(c) == call[c].pc = "release" /\ call[c].answer = "token"
Collecting(c) == call[c].pc \in {"mint", "collect"} \/ Handing(c)
Decided(c) == told[c] \in Decisions
Collected(c) == told[c] = "token"
Written(c) == [status |-> IF call[c].kind = "approve" THEN "approved" ELSE "denied",
               user |-> call[c].user]

\* A call is told its answer when it ends, and a decision is what was asked.
Shape(c) ==
    /\ told[c] # "none" => call[c].pc = "done"
    /\ call[c].pc \in {"lock", "load"} => call[c].kind \in Decisions \cup {"poll"}
    /\ call[c].pc = "store" => call[c].kind \in Decisions
    /\ Deciding(c) => call[c].answer = call[c].kind
    /\ Decided(c) => told[c] = call[c].kind

\* Once a decision was written the request is not pending again, so the owner
\* of the lock does not write another.
DecidedForGood(c) == Deciding(c) \/ Decided(c) => grant.status # "pending"
NoOtherDecides(c) ==
    Decided(c) => \A d \in Calls :
        /\ lock = d => call[d].pc # "store" /\ ~Deciding(d)
        /\ Decided(d) => d = c

\* While no decision was stored late: the request is gone or as decided, the
\* owner collects what was decided, and a collected request is gone.
Stands(c) ==
    Decided(c) \/ (lock = c /\ Deciding(c)) => grant \in {NoSession, Written(c)}
Matches(c, d) == told[c] = "approve" /\ call[d].user = call[c].user
OwnerAgrees(c) ==
    Decided(c) => \A d \in Calls :
        (lock = d /\ Collecting(d)) \/ Collected(d) => Matches(c, d)
Gone(c) == Collected(c) \/ (lock = c /\ Handing(c)) => grant = NoSession
NoOtherCollects(c) ==
    Collected(c) => \A d \in Calls :
        /\ lock = d => call[d].pc # "store" /\ ~Deciding(d) /\ ~Collecting(d)
        /\ Collected(d) => d = c

InLease(c) == Stands(c) /\ OwnerAgrees(c) /\ Gone(c) /\ NoOtherCollects(c)

GrantInv ==
    /\ GrantTypeOK
    /\ \A c \in Calls : Shape(c) /\ DecidedForGood(c) /\ NoOtherDecides(c)
    /\ late \/ \A c \in Calls : InLease(c)

LEMMA AtMostOne ==
    ASSUME NEW S, \A x, y \in S : x = y
    PROVE  Cardinality(S) <= 1
<1>1. CASE S = {}
  BY <1>1, FS_EmptySet
<1>2. CASE \E x : S = {x}
  BY <1>2, FS_Singleton
<1> QED BY <1>1, <1>2

\* A call that moves and keeps what it was told.
LEMMA Answered ==
    ASSUME call \in [Calls -> CallType], NEW c \in Calls, NEW p \in Places,
           NEW a \in Answers, call' = [call EXCEPT ![c].pc = p, ![c].answer = a]
    PROVE  call' \in [Calls -> CallType]
<1> DEFINE x == [call[c] EXCEPT !.pc = p, !.answer = a]
<1>1. x \in CallType
  BY DEF CallType
<1>2. call' = [call EXCEPT ![c] = x]
  BY Zenon
<1> QED BY <1>1, <1>2

LEMMA GrantInitHolds == GrantAssumption /\ GrantInit => GrantInv
<1> SUFFICES ASSUME GrantAssumption, GrantInit
             PROVE  GrantInv
  OBVIOUS
<1>1. GrantTypeOK
  BY DEF GrantInit, GrantTypeOK, Statuses, AnyUser, CallType, NoCall, Places, Answers, Decisions
<1>2. \A c \in Calls : /\ Shape(c) /\ DecidedForGood(c) /\ NoOtherDecides(c)
                     /\ InLease(c)
  BY DEF GrantInit, NoCall, Shape, DecidedForGood, NoOtherDecides, InLease, Stands,
         OwnerAgrees, Gone, NoOtherCollects, Deciding, Handing, Decided, Collected,
         Decisions
<1> QED BY <1>1, <1>2 DEF GrantInv

LEMMA StepTyped ==
    ASSUME GrantInv, [GrantNext]_grantVars
    PROVE  GrantTypeOK'
<1> USE DEF GrantTypeOK, CallType, Statuses, AnyUser, Places, Answers, Decisions
<1> GrantTypeOK /\ \A c \in Calls : Shape(c)
  BY DEF GrantInv
<1>1. ASSUME NEW c \in Calls, NEW k \in Decisions, NEW u \in AnyUser, Decide(c, k, u)
      PROVE  GrantTypeOK'
  BY <1>1 DEF Decide, NoCall
<1>2. ASSUME NEW c \in Calls, Poll(c)
      PROVE  GrantTypeOK'
  BY <1>2 DEF Poll, First, NoCall
<1>3. ASSUME NEW c \in Calls, Acquire(c)
      PROVE  GrantTypeOK'
  <2>1. lock' = c /\ UNCHANGED <<grant, told, late>>
    BY <1>3 DEF Acquire
  <2>2. call' = [call EXCEPT ![c].pc = "load"]
    BY <1>3 DEF Acquire, Step
  <2> QED BY <2>1, <2>2
<1>4. ASSUME NEW c \in Calls, GiveUp(c)
      PROVE  GrantTypeOK'
  BY <1>4 DEF GiveUp, Over, NoCall
<1>5. ASSUME NEW c \in Calls, Reload(c)
      PROVE  GrantTypeOK'
  BY <1>5 DEF Reload, Look, Step, Answer
<1>6. ASSUME NEW c \in Calls, Store(c)
      PROVE  GrantTypeOK'
  <2>1. call[c].kind \in Decisions
    BY <1>6 DEF Store, Answer, Shape
  <2>2. call' = [call EXCEPT ![c].pc = "release", ![c].answer = call[c].kind]
    BY <1>6 DEF Store, Answer
  <2>3. grant' \in [status : Statuses, user : AnyUser]
    BY <1>6 DEF Store
  <2>4. late' \in BOOLEAN /\ UNCHANGED <<lock, told>>
    BY <1>6 DEF Store
  <2>5. call' \in [Calls -> CallType]
    BY <2>1, <2>2, Answered
  <2> QED BY <2>3, <2>4, <2>5
<1>7. ASSUME NEW c \in Calls, MakeToken(c)
      PROVE  GrantTypeOK'
  BY <1>7 DEF MakeToken, Step, Answer
<1>8. ASSUME NEW c \in Calls, Drop(c)
      PROVE  GrantTypeOK'
  BY <1>8 DEF Drop, Answer, NoSession
<1>9. ASSUME NEW c \in Calls, Release(c)
      PROVE  GrantTypeOK'
  <2>1. call' = [call EXCEPT ![c].pc = "done", ![c].answer = "none"]
    BY <1>9 DEF Release
  <2>2. \E a \in Answers : told' = [told EXCEPT ![c] = a]
    BY <1>9 DEF Release
  <2>3. lock' \in Calls \cup {0} /\ UNCHANGED <<grant, late>>
    BY <1>9 DEF Release
  <2>4. told' \in [Calls -> Answers]
    BY <2>2
  <2>5. call' \in [Calls -> CallType]
    BY <2>1, Answered
  <2> QED BY <2>3, <2>4, <2>5
<1>10. ASSUME NEW c \in Calls, CallDies(c)
      PROVE  GrantTypeOK'
  BY <1>10 DEF CallDies, Over, NoCall
<1>11. CASE LeaseEnds \/ SessionEnds \/ UNCHANGED grantVars
  BY <1>11 DEF LeaseEnds, SessionEnds, NoSession, grantVars
<1> QED BY <1>1, <1>2, <1>3, <1>4, <1>5, <1>6, <1>7, <1>8, <1>9, <1>10, <1>11 DEF GrantNext

\* A call that begins is at the lock, and was told of nothing.
LEMMA DecideKeeps ==
    ASSUME GrantAssumption, GrantInv, GrantTypeOK', NEW c \in Calls, NEW k \in Decisions,
           NEW u \in AnyUser, Decide(c, k, u)
    PROVE  GrantInv'
<1> USE DEF GrantTypeOK, CallType, Answers, Decisions, Shape, Deciding, Handing, Collecting,
            Decided, Collected
<1>0. 0 \notin Calls
  BY DEF GrantAssumption, Calls
<1>1. \A x \in Calls : Shape(x)'
  BY DEF GrantInv, Decide, First, NoCall
<1>2. \A x \in Calls : DecidedForGood(x)' /\ NoOtherDecides(x)'
  BY <1>0 DEF GrantInv, DecidedForGood, NoOtherDecides, Decide, First, NoCall
<1>3. ASSUME ~late', NEW x \in Calls
      PROVE  InLease(x)'
  BY <1>0, <1>3
     DEF GrantInv, DecidedForGood, NoOtherDecides, InLease, Stands, OwnerAgrees, Gone,
         NoOtherCollects, Matches, Written, Decide, First, NoCall, NoSession
<1> QED BY <1>1, <1>2, <1>3 DEF GrantInv

LEMMA PollKeeps ==
    ASSUME GrantAssumption, GrantInv, GrantTypeOK', NEW c \in Calls, Poll(c)
    PROVE  GrantInv'
<1> USE DEF GrantTypeOK, CallType, Answers, Decisions, Shape, Deciding, Handing, Collecting,
            Decided, Collected
<1>0. 0 \notin Calls
  BY DEF GrantAssumption, Calls
<1>1. \A x \in Calls : Shape(x)'
  BY DEF GrantInv, Poll, First, NoCall
<1>2. \A x \in Calls : DecidedForGood(x)' /\ NoOtherDecides(x)'
  BY <1>0 DEF GrantInv, DecidedForGood, NoOtherDecides, Poll, First, NoCall
<1>3. ASSUME ~late', NEW x \in Calls
      PROVE  InLease(x)'
  BY <1>0, <1>3
     DEF GrantInv, DecidedForGood, NoOtherDecides, InLease, Stands, OwnerAgrees, Gone,
         NoOtherCollects, Matches, Written, Poll, First, NoCall, NoSession
<1> QED BY <1>1, <1>2, <1>3 DEF GrantInv

LEMMA AcquireKeeps ==
    ASSUME GrantAssumption, GrantInv, GrantTypeOK', NEW c \in Calls, Acquire(c)
    PROVE  GrantInv'
<1> USE DEF GrantTypeOK, CallType, Answers, Decisions, Shape, Deciding, Handing, Collecting,
            Decided, Collected
<1>0. 0 \notin Calls
  BY DEF GrantAssumption, Calls
<1>1. \A x \in Calls : Shape(x)'
  BY DEF GrantInv, Acquire, Step
<1>2. \A x \in Calls : DecidedForGood(x)' /\ NoOtherDecides(x)'
  BY <1>0 DEF GrantInv, DecidedForGood, NoOtherDecides, Acquire, Step
<1>3. ASSUME ~late', NEW x \in Calls
      PROVE  InLease(x)'
  BY <1>0, <1>3
     DEF GrantInv, DecidedForGood, NoOtherDecides, InLease, Stands, OwnerAgrees, Gone,
         NoOtherCollects, Matches, Written, Acquire, Step, NoSession
<1> QED BY <1>1, <1>2, <1>3 DEF GrantInv

LEMMA GiveUpKeeps ==
    ASSUME GrantAssumption, GrantInv, GrantTypeOK', NEW c \in Calls, GiveUp(c)
    PROVE  GrantInv'
<1> USE DEF GrantTypeOK, CallType, Answers, Decisions, Shape, Deciding, Handing, Collecting,
            Decided, Collected
<1>0. 0 \notin Calls
  BY DEF GrantAssumption, Calls
<1>1. \A x \in Calls : Shape(x)'
  BY DEF GrantInv, GiveUp, Over, NoCall
<1>2. \A x \in Calls : DecidedForGood(x)' /\ NoOtherDecides(x)'
  BY <1>0 DEF GrantInv, DecidedForGood, NoOtherDecides, GiveUp, Over, NoCall
<1>3. ASSUME ~late', NEW x \in Calls
      PROVE  InLease(x)'
  BY <1>0, <1>3
     DEF GrantInv, DecidedForGood, NoOtherDecides, InLease, Stands, OwnerAgrees, Gone,
         NoOtherCollects, Matches, Written, GiveUp, Over, NoCall, NoSession
<1> QED BY <1>1, <1>2, <1>3 DEF GrantInv

\* What the owner of the lock finds is what every later poll finds.
LEMMA ReloadKeeps ==
    ASSUME GrantAssumption, GrantInv, GrantTypeOK', NEW c \in Calls, Reload(c)
    PROVE  GrantInv'
<1> USE DEF GrantTypeOK, CallType, Answers, Decisions, Shape, Deciding, Handing, Collecting,
            Decided, Collected
<1>0. 0 \notin Calls
  BY DEF GrantAssumption, Calls
<1>1. \A x \in Calls : Shape(x)'
  BY DEF GrantInv, Reload, Look, Step, Answer
<1>2. \A x \in Calls : DecidedForGood(x)' /\ NoOtherDecides(x)'
  BY <1>0 DEF GrantInv, DecidedForGood, NoOtherDecides, Reload, Look, Step, Answer
<1>3. ASSUME ~late', NEW x \in Calls
      PROVE  InLease(x)'
  <2>0. /\ UNCHANGED <<grant, lock, told, late>>
        /\ \A y \in Calls : y # c => call'[y] = call[y]
        /\ call[c].pc = "load" /\ ~Deciding(c)' /\ ~Handing(c)'
    BY DEF GrantInv, Reload, Look, Step, Answer
  <2>1. Stands(x)'
    BY <1>3, <2>0 DEF GrantInv, InLease, Stands, Written
  <2>2. OwnerAgrees(x)'
    <3> SUFFICES ASSUME Decided(x), NEW d \in Calls,
                        (lock = d /\ Collecting(d)') \/ Collected(d)
                 PROVE  told[x] = "approve" /\ call'[d].user = call'[x].user
      BY <2>0 DEF OwnerAgrees, Matches
    <3>1. x # c /\ call'[x] = call[x] /\ ~Collected(c)
      BY <2>0 DEF GrantInv
    <3>2. CASE d # c
      BY <1>3, <2>0, <3>1, <3>2 DEF GrantInv, InLease, OwnerAgrees, Matches
    <3>3. CASE d = c
      <4>1. Collecting(c)' /\ call'[c].pc \notin {"collect"}
        BY <2>0, <3>1, <3>3 DEF Reload, Look, Step, Answer
      <4>2. grant.status = "approved" /\ call'[c].user = grant.user
        BY <2>0, <4>1 DEF Reload, Look, Step, Answer
      <4>3. grant = Written(x)
        BY <1>3, <2>0, <4>2 DEF GrantInv, InLease, Stands, NoSession
      <4> QED BY <3>1, <3>3, <4>2, <4>3 DEF GrantInv, Written
    <3> QED BY <3>2, <3>3
  <2>3. Gone(x)'
    BY <1>3, <2>0 DEF GrantInv, InLease, Gone
  <2>4. NoOtherCollects(x)'
    BY <1>0, <1>3
       DEF GrantInv, DecidedForGood, NoOtherDecides, InLease, Gone, NoOtherCollects,
           Reload, Look, Step, Answer, NoSession
  <2> QED BY <2>1, <2>2, <2>3, <2>4 DEF InLease
<1> QED BY <1>1, <1>2, <1>3 DEF GrantInv

\* Nobody was told of a decision or a token while its owner writes in time.
LEMMA StoreKeeps ==
    ASSUME GrantAssumption, GrantInv, GrantTypeOK', NEW c \in Calls, Store(c)
    PROVE  GrantInv'
<1> USE DEF GrantTypeOK, CallType, Answers, Decisions, Shape, Deciding, Handing, Collecting,
            Decided, Collected
<1>0. 0 \notin Calls
  BY DEF GrantAssumption, Calls
<1>1. \A x \in Calls : Shape(x)'
  BY DEF GrantInv, Store, Answer
<1>2. \A x \in Calls : DecidedForGood(x)' /\ NoOtherDecides(x)'
  BY <1>0 DEF GrantInv, DecidedForGood, NoOtherDecides, Store, Answer
<1>3. ASSUME ~late', NEW x \in Calls
      PROVE  InLease(x)'
  <2>1. /\ lock = c /\ lock' = c /\ ~late /\ call[c].pc = "store" /\ told' = told
        /\ call' = [call EXCEPT ![c].pc = "release", ![c].answer = call[c].kind]
        /\ call[c].kind \in Decisions
    BY <1>3 DEF GrantInv, Store, Answer
  <2>2. Deciding(c)' /\ \A y \in Calls : y # c => call'[y] = call[y]
    BY <2>1 DEF GrantInv
  <2>3. \A y \in Calls : ~Decided(y) /\ ~Collected(y)
    BY <2>1 DEF GrantInv, NoOtherDecides, InLease, NoOtherCollects
  <2>4. grant' = Written(c)'
    BY DEF Store, Answer, Written
  <2>5. Stands(x)' /\ Gone(x)'
    BY <1>0, <2>1, <2>2, <2>3, <2>4 DEF Stands, Gone
  <2>6. OwnerAgrees(x)' /\ NoOtherCollects(x)'
    BY <2>1, <2>2, <2>3 DEF OwnerAgrees, NoOtherCollects
  <2> QED BY <2>5, <2>6 DEF InLease
<1> QED BY <1>1, <1>2, <1>3 DEF GrantInv

LEMMA MakeTokenKeeps ==
    ASSUME GrantAssumption, GrantInv, GrantTypeOK', NEW c \in Calls, MakeToken(c)
    PROVE  GrantInv'
<1> USE DEF GrantTypeOK, CallType, Answers, Decisions, Shape, Deciding, Handing, Collecting,
            Decided, Collected
<1>0. 0 \notin Calls
  BY DEF GrantAssumption, Calls
<1>1. \A x \in Calls : Shape(x)'
  BY DEF GrantInv, MakeToken, Step, Answer
<1>2. \A x \in Calls : DecidedForGood(x)' /\ NoOtherDecides(x)'
  BY <1>0 DEF GrantInv, DecidedForGood, NoOtherDecides, MakeToken, Step, Answer
<1>3. ASSUME ~late', NEW x \in Calls
      PROVE  InLease(x)'
  BY <1>0, <1>3
     DEF GrantInv, DecidedForGood, NoOtherDecides, InLease, Stands, OwnerAgrees, Gone,
         NoOtherCollects, Matches, Written, MakeToken, Step, Answer, NoSession
<1> QED BY <1>1, <1>2, <1>3 DEF GrantInv

LEMMA DropKeeps ==
    ASSUME GrantAssumption, GrantInv, GrantTypeOK', NEW c \in Calls, Drop(c)
    PROVE  GrantInv'
<1> USE DEF GrantTypeOK, CallType, Answers, Decisions, Shape, Deciding, Handing, Collecting,
            Decided, Collected
<1>0. 0 \notin Calls
  BY DEF GrantAssumption, Calls
<1>1. \A x \in Calls : Shape(x)'
  BY DEF GrantInv, Drop, Answer, NoSession
<1>2. \A x \in Calls : DecidedForGood(x)' /\ NoOtherDecides(x)'
  <2>1. \A x \in Calls : DecidedForGood(x)'
    BY DEF GrantInv, DecidedForGood, Drop, Answer, NoSession
  <2>2. \A x \in Calls : NoOtherDecides(x)'
    BY <1>0 DEF GrantInv, NoOtherDecides, Drop, Answer
  <2> QED BY <2>1, <2>2
<1>3. ASSUME ~late', NEW x \in Calls
      PROVE  InLease(x)'
  <2>1. Stands(x)'
    BY <1>0, <1>3
       DEF GrantInv, DecidedForGood, NoOtherDecides, InLease, Stands, Written,
           Drop, Answer, NoSession
  <2>2. OwnerAgrees(x)'
    BY <1>0, <1>3
       DEF GrantInv, DecidedForGood, NoOtherDecides, InLease, Stands, OwnerAgrees, Matches, Written,
           Drop, Answer, NoSession
  <2>3. Gone(x)'
    BY <1>0, <1>3
       DEF GrantInv, DecidedForGood, NoOtherDecides, InLease, Gone, NoOtherCollects,
           Drop, Answer, NoSession
  <2>4. NoOtherCollects(x)'
    BY <1>0, <1>3
       DEF GrantInv, DecidedForGood, NoOtherDecides, InLease, Gone, NoOtherCollects,
           Drop, Answer, NoSession
  <2> QED BY <2>1, <2>2, <2>3, <2>4 DEF InLease
<1> QED BY <1>1, <1>2, <1>3 DEF GrantInv

\* Only the owner of the lock is told of a decision or a token.
LEMMA ReleaseKeeps ==
    ASSUME GrantAssumption, GrantInv, GrantTypeOK', NEW c \in Calls, Release(c)
    PROVE  GrantInv'
<1> USE DEF GrantTypeOK, CallType, Answers, Decisions, Shape, Deciding, Handing, Collecting,
            Decided, Collected
<1>0. 0 \notin Calls
  BY DEF GrantAssumption, Calls
<1>1. \A x \in Calls : Shape(x)'
  BY DEF GrantInv, Release
<1>2. \A x \in Calls : DecidedForGood(x)' /\ NoOtherDecides(x)'
  BY <1>0 DEF GrantInv, DecidedForGood, NoOtherDecides, Release
<1>3. ASSUME ~late', NEW x \in Calls
      PROVE  InLease(x)'
  <2>1. Stands(x)'
    BY <1>0, <1>3
       DEF GrantInv, DecidedForGood, NoOtherDecides, InLease, Stands, Written,
           Release, NoSession
  <2>2. OwnerAgrees(x)'
    BY <1>0, <1>3
       DEF GrantInv, DecidedForGood, NoOtherDecides, InLease, Stands, OwnerAgrees, Matches, Written,
           Release, NoSession
  <2>3. Gone(x)'
    BY <1>0, <1>3
       DEF GrantInv, DecidedForGood, NoOtherDecides, InLease, Gone, NoOtherCollects,
           Release, NoSession
  <2>4. NoOtherCollects(x)'
    BY <1>0, <1>3
       DEF GrantInv, DecidedForGood, NoOtherDecides, InLease, Gone, NoOtherCollects,
           Release, NoSession
  <2> QED BY <2>1, <2>2, <2>3, <2>4 DEF InLease
<1> QED BY <1>1, <1>2, <1>3 DEF GrantInv

LEMMA CallDiesKeeps ==
    ASSUME GrantAssumption, GrantInv, GrantTypeOK', NEW c \in Calls, CallDies(c)
    PROVE  GrantInv'
<1> USE DEF GrantTypeOK, CallType, Answers, Decisions, Shape, Deciding, Handing, Collecting,
            Decided, Collected
<1>0. 0 \notin Calls
  BY DEF GrantAssumption, Calls
<1>1. \A x \in Calls : Shape(x)'
  BY DEF GrantInv, CallDies, Over, NoCall
<1>2. \A x \in Calls : DecidedForGood(x)' /\ NoOtherDecides(x)'
  BY <1>0 DEF GrantInv, DecidedForGood, NoOtherDecides, CallDies, Over, NoCall
<1>3. ASSUME ~late', NEW x \in Calls
      PROVE  InLease(x)'
  BY <1>0, <1>3
     DEF GrantInv, DecidedForGood, NoOtherDecides, InLease, Stands, OwnerAgrees, Gone,
         NoOtherCollects, Matches, Written, CallDies, Over, NoCall, NoSession
<1> QED BY <1>1, <1>2, <1>3 DEF GrantInv

LEMMA EndsKeep ==
    ASSUME GrantAssumption, GrantInv, GrantTypeOK', LeaseEnds \/ SessionEnds \/ UNCHANGED grantVars
    PROVE  GrantInv'
<1>0. 0 \notin Calls
  BY DEF GrantAssumption, Calls
<1>1. \A c \in Calls : Shape(c)' /\ DecidedForGood(c)' /\ NoOtherDecides(c)'
  BY <1>0
     DEF GrantInv, Shape, DecidedForGood, NoOtherDecides, Deciding, Decided, LeaseEnds,
         SessionEnds, NoSession, grantVars
<1>2. ASSUME ~late', NEW c \in Calls
      PROVE  InLease(c)'
  BY <1>0, <1>2
     DEF GrantInv, InLease, Stands, OwnerAgrees, Gone, NoOtherCollects, Matches, Written,
         Deciding, Handing, Collecting, Decided, Collected, LeaseEnds, SessionEnds,
         NoSession, grantVars
<1> QED BY <1>1, <1>2 DEF GrantInv

\* Nobody decides once a decision was told; and while none was stored late, the
\* owner of the lock collects what was decided and a collected request is gone.
THEOREM GrantInvariant == GrantAssumption => (GrantSpec => []GrantInv)
<1> SUFFICES ASSUME GrantAssumption
             PROVE  GrantSpec => []GrantInv
  OBVIOUS
<1>1. GrantInv /\ [GrantNext]_grantVars => GrantInv'
  <2> SUFFICES ASSUME GrantInv, [GrantNext]_grantVars
               PROVE  GrantInv'
    OBVIOUS
  <2>1. GrantTypeOK'
    BY StepTyped
  <2>2. ASSUME NEW c \in Calls,
               Poll(c) \/ Acquire(c) \/ GiveUp(c) \/ Reload(c) \/ Store(c)
        PROVE  GrantInv'
    BY <2>1, <2>2, PollKeeps, AcquireKeeps, GiveUpKeeps, ReloadKeeps, StoreKeeps
  <2>3. ASSUME NEW c \in Calls, MakeToken(c) \/ Drop(c) \/ Release(c) \/ CallDies(c)
        PROVE  GrantInv'
    BY <2>1, <2>3, MakeTokenKeeps, DropKeeps, ReleaseKeeps, CallDiesKeeps
  <2>4. ASSUME NEW c \in Calls,
               \/ \E u \in Deciders : Decide(c, "approve", u)
               \/ Decide(c, "deny", "none")
        PROVE  GrantInv'
    BY <2>1, <2>4, DecideKeeps DEF Decisions, AnyUser
  <2>5. CASE LeaseEnds \/ SessionEnds \/ UNCHANGED grantVars
    BY <2>1, <2>5, EndsKeep
  <2> QED BY <2>2, <2>3, <2>4, <2>5 DEF GrantNext
<1> QED BY <1>1, GrantInitHolds, PTL DEF GrantSpec

\* One poll walks away with a token, however many calls outlive their lease,
\* unless a decision was stored by one that did.
THEOREM OnlyOneCollects == GrantAssumption => (GrantSpec => []OneCollector)
<1>1. GrantInv => OneCollector
  <2> SUFFICES ASSUME GrantInv, ~late
               PROVE  Cardinality(Told({"token"})) <= 1
    BY DEF OneCollector
  <2>1. \A x, y \in Told({"token"}) : x = y
    BY DEF GrantInv, InLease, NoOtherCollects, Collected, Told
  <2> HIDE DEF Told
  <2> QED BY <2>1, AtMostOne
<1> QED BY <1>1, GrantInvariant, PTL

\* One decision is confirmed, and tokens follow it unless one was stored late.
THEOREM DecisionCounts == GrantAssumption => (GrantSpec => []DecisionBinds)
<1>1. GrantInv => DecisionBinds
  <2> SUFFICES ASSUME GrantInv
               PROVE  DecisionBinds
    OBVIOUS
  <2>1. \A x, y \in Told({"approve", "deny"}) : x = y
    BY DEF GrantInv, NoOtherDecides, Decided, Decisions, Told
  <2>2. Cardinality(Told({"approve", "deny"})) <= 1
    BY <2>1, AtMostOne
  <2>3. ASSUME ~late, NEW c \in Told({"approve", "deny"}), NEW d \in Told({"token"})
        PROVE  told[c] = "approve" /\ call[d].user = call[c].user
    BY <2>3 DEF GrantInv, InLease, OwnerAgrees, Matches, Decided, Collected, Decisions, Told
  <2> QED BY <2>2, <2>3 DEF DecisionBinds
<1> QED BY <1>1, GrantInvariant, PTL

------------------------------------------------------------------------------
(* RpmGate.  A key lives longer than the time it tells, so when it is gone *)
(* the clock says as much.                                                 *)

CallerType == [pc : {"none", "lock", "read", "write", "scheduled", "out"},
             start : Nat, slot : Nat]
KeyType == [at : Nat, until : Nat]
MutexType == [by : Callers \cup {0}, until : Nat]

GateTypeOK ==
    /\ time \in Nat
    /\ caller \in [Callers -> CallerType]
    /\ next \in KeyType
    /\ mutex \in MutexType
    /\ local \in Nat
    /\ upset \in BOOLEAN

Scheduled(c) == caller[c].pc = "scheduled"
Writing(c) == caller[c].pc = "write"

\* The time told is over before the key is; a slot to be written is not far.
KeyOutlivesTime == next.at <= next.until
SlotInReach(c) ==
    /\ caller[c].start <= time
    /\ Writing(c) => caller[c].slot <= caller[c].start + MaxWait

\* The next slot comes after those handed out; so does the one being written.
Taken(c) == Scheduled(c) =>
    caller[c].slot + Interval <= time \/ caller[c].slot + Interval <= next.at
Apart(c, d) == caller[c].slot >= caller[d].slot + Interval
OwnerIsLater(c) == Writing(c) /\ Owned(c) => \A d \in Callers : Scheduled(d) => Apart(c, d)
Spaced(c) == Scheduled(c) => \A d \in Callers :
    Scheduled(d) /\ d # c => Apart(c, d) \/ Apart(d, c)

GateInv ==
    /\ GateTypeOK
    /\ KeyOutlivesTime
    /\ \A c \in Callers : SlotInReach(c)
    /\ upset \/ \A c \in Callers : Taken(c) /\ OwnerIsLater(c) /\ Spaced(c)

LEMMA GateConstants ==
    ASSUME GateAssumption
    PROVE  /\ Interval \in Nat /\ MaxWait \in Nat /\ Slack \in Nat
           /\ KeyLife \in Nat /\ KeyLife > Interval + MaxWait
           /\ 0 \notin Callers
<1>1. Interval \in Nat \ {0} /\ MaxWait \in Nat \ {0} /\ Slack \in Nat \ {0}
  BY DEF GateAssumption
<1> QED BY <1>1 DEF GateAssumption, KeyLife, Callers

LEMMA LaterIsOne ==
    ASSUME NEW a \in Nat, NEW b \in Nat
    PROVE  Later(a, b) \in Nat /\ Later(a, b) >= a /\ Later(a, b) >= b
<1>1. \E x \in {a, b} : \A y \in {a, b} : x >= y
  OBVIOUS
<1>2. Later(a, b) \in {a, b} /\ \A y \in {a, b} : Later(a, b) >= y
  BY <1>1 DEF Later, Max
<1> QED BY <1>2

LEMMA NothingTyped == NoCaller \in CallerType /\ NoKey \in KeyType /\ NoMutex \in MutexType
BY DEF NoCaller, CallerType, NoKey, KeyType, NoMutex, MutexType

LEMMA LetTyped ==
    ASSUME GateTypeOK, NEW c \in Callers, Let(c)
    PROVE  mutex' \in MutexType
BY NothingTyped DEF GateTypeOK, Let

\* A call that moves, takes a slot or is over with its waiting.
LEMMA CallerMoved ==
    ASSUME GateTypeOK, NEW c \in Callers, NEW x \in CallerType, caller' = [caller EXCEPT ![c] = x]
    PROVE  caller' \in [Callers -> CallerType]
BY DEF GateTypeOK

LEMMA GateInitHolds == GateAssumption /\ GateInit => GateInv
<1> SUFFICES ASSUME GateAssumption, GateInit
             PROVE  GateInv
  OBVIOUS
<1>1. GateTypeOK /\ KeyOutlivesTime
  <2>1. KeyOutlivesTime
    BY DEF GateInit, NoKey, KeyOutlivesTime
  <2>2. caller \in [Callers -> CallerType]
    BY NothingTyped DEF GateInit
  <2> QED BY <2>1, <2>2, NothingTyped DEF GateInit, GateTypeOK
<1>2. \A c \in Callers : SlotInReach(c) /\ Taken(c) /\ OwnerIsLater(c) /\ Spaced(c)
  BY DEF GateInit, NoCaller, SlotInReach, Taken, OwnerIsLater, Spaced, Scheduled, Writing
<1> QED BY <1>1, <1>2 DEF GateInv

LEMMA ArriveKeeps ==
    ASSUME GateAssumption, GateInv, NEW c \in Callers, Arrive(c)
    PROVE  GateInv'
<1>1. /\ Interval \in Nat /\ MaxWait \in Nat /\ KeyLife \in Nat
      /\ KeyLife > Interval + MaxWait /\ 0 \notin Callers
  BY GateConstants
<1>2. GateTypeOK'
  BY <1>1 DEF GateInv, GateTypeOK, CallerType, Arrive, NoCaller
<1>3. KeyOutlivesTime' /\ \A x \in Callers : SlotInReach(x)'
  BY <1>1, <1>2
     DEF GateInv, GateTypeOK, CallerType, KeyType, KeyOutlivesTime, SlotInReach, Writing, Arrive,
         NoCaller
<1>4. ASSUME ~upset', NEW x \in Callers
      PROVE  Taken(x)' /\ OwnerIsLater(x)' /\ Spaced(x)'
  BY <1>1, <1>2, <1>4
     DEF GateInv, GateTypeOK, CallerType, KeyType, MutexType, Taken, OwnerIsLater, Spaced,
         Scheduled, Writing, Owned, Apart, Arrive, NoCaller
<1> QED BY <1>2, <1>3, <1>4 DEF GateInv

LEMMA EnterKeeps ==
    ASSUME GateAssumption, GateInv, NEW c \in Callers, Enter(c)
    PROVE  GateInv'
<1>1. /\ Interval \in Nat /\ MaxWait \in Nat /\ KeyLife \in Nat
      /\ KeyLife > Interval + MaxWait /\ 0 \notin Callers
  BY GateConstants
<1>2. GateTypeOK'
  <2>1. mutex' \in MutexType
    <3>1. time + MaxWait + Slack \in Nat
      BY GateConstants DEF GateInv, GateTypeOK
    <3> QED BY <3>1 DEF Enter, MutexType
  <2>2. caller' \in [Callers -> CallerType]
    BY DEF Enter, GoTo, GateInv, GateTypeOK, CallerType
  <2> QED BY <2>1, <2>2 DEF GateInv, GateTypeOK, Enter
<1>3. KeyOutlivesTime' /\ \A x \in Callers : SlotInReach(x)'
  BY <1>1, <1>2
     DEF GateInv, GateTypeOK, CallerType, KeyType, KeyOutlivesTime, SlotInReach, Writing, Enter,
         GoTo
<1>4. ASSUME ~upset', NEW x \in Callers
      PROVE  Taken(x)' /\ OwnerIsLater(x)' /\ Spaced(x)'
  BY <1>1, <1>2, <1>4
     DEF GateInv, GateTypeOK, CallerType, KeyType, MutexType, Taken, OwnerIsLater, Spaced,
         Scheduled, Writing, Owned, Apart, Enter, GoTo
<1> QED BY <1>2, <1>3, <1>4 DEF GateInv

LEMMA LockTimesOutKeeps ==
    ASSUME GateAssumption, GateInv, NEW c \in Callers, LockTimesOut(c)
    PROVE  GateInv'
<1>1. /\ Interval \in Nat /\ MaxWait \in Nat /\ KeyLife \in Nat
      /\ KeyLife > Interval + MaxWait /\ 0 \notin Callers
  BY GateConstants
<1>2. GateTypeOK'
  BY <1>1 DEF GateInv, GateTypeOK, CallerType, LockTimesOut, Leave, NoCaller
<1>3. KeyOutlivesTime' /\ \A x \in Callers : SlotInReach(x)'
  BY <1>1, <1>2
     DEF GateInv, GateTypeOK, CallerType, KeyType, KeyOutlivesTime, SlotInReach, Writing,
         LockTimesOut, Leave, NoCaller
<1>4. ASSUME ~upset', NEW x \in Callers
      PROVE  Taken(x)' /\ OwnerIsLater(x)' /\ Spaced(x)'
  BY <1>1, <1>2, <1>4
     DEF GateInv, GateTypeOK, CallerType, KeyType, MutexType, Taken, OwnerIsLater, Spaced,
         Scheduled, Writing, Owned, Apart, LockTimesOut, Leave, NoCaller
<1> QED BY <1>2, <1>3, <1>4 DEF GateInv

\* Whoever owns the lock takes a slot after all that were handed out.
LEMMA ReadKeeps ==
    ASSUME GateAssumption, GateInv, NEW c \in Callers, Read(c)
    PROVE  GateInv'
<1>1. /\ Interval \in Nat /\ MaxWait \in Nat /\ KeyLife \in Nat
      /\ KeyLife > Interval + MaxWait /\ 0 \notin Callers
  BY GateConstants
<1>2. /\ Later(time, next.at) \in Nat
      /\ Later(time, next.at) >= time /\ Later(time, next.at) >= next.at
  BY LaterIsOne DEF GateInv, GateTypeOK, KeyType
<1>3. GateTypeOK'
  <2>1. mutex' \in MutexType
    BY LetTyped DEF GateInv, GateTypeOK, Read
  <2>2. CASE Leave(c)
    <3>1. [NoCaller EXCEPT !.pc = "out"] \in CallerType
      BY DEF NoCaller, CallerType
    <3> QED BY <2>1, <2>2, <3>1, CallerMoved DEF GateInv, GateTypeOK, Read, Leave
  <2>3. CASE caller' = [caller EXCEPT ![c].pc = "write", ![c].slot = Later(time, next.at)]
    <3>1. [caller[c] EXCEPT !.pc = "write", !.slot = Later(time, next.at)] \in CallerType
      BY <1>2 DEF GateInv, GateTypeOK, CallerType
    <3>2. caller' = [caller EXCEPT
                      ![c] = [caller[c] EXCEPT !.pc = "write", !.slot = Later(time, next.at)]]
      BY <2>3, Zenon
    <3>3. caller' \in [Callers -> CallerType]
      BY <3>1, <3>2, CallerMoved DEF GateInv
    <3> QED BY <2>1, <3>3 DEF GateInv, GateTypeOK, Read
  <2> QED BY <2>2, <2>3 DEF Read
<1>4. KeyOutlivesTime' /\ \A x \in Callers : SlotInReach(x)'
  <2>1. KeyOutlivesTime'
    BY DEF GateInv, KeyOutlivesTime, Read
  <2>2. ASSUME NEW x \in Callers
        PROVE  SlotInReach(x)'
    BY <1>1, <1>2
       DEF GateInv, GateTypeOK, CallerType, SlotInReach, Writing, LatestSlot, Read, Leave, NoCaller
  <2> QED BY <2>1, <2>2
<1>5. ASSUME ~upset', NEW x \in Callers
      PROVE  Taken(x)' /\ OwnerIsLater(x)' /\ Spaced(x)'
  <2>1. /\ UNCHANGED <<time, next, upset>> /\ ~upset
        /\ \A y \in Callers : y # c => caller'[y] = caller[y]
        /\ ~Scheduled(c) /\ ~Scheduled(c)'
    BY <1>5 DEF GateInv, GateTypeOK, CallerType, Read, Leave, NoCaller, Scheduled
  <2>2. \A y \in Callers : (Scheduled(y)' <=> Scheduled(y)) /\ (Scheduled(y) => caller'[y] = caller[y])
    BY <2>1 DEF Scheduled
  <2>3. Taken(x)' /\ Spaced(x)'
    BY <2>1, <2>2 DEF GateInv, Taken, Spaced, Apart
  <2>4. OwnerIsLater(x)'
    <3>1. CASE x = c
      <4>1. SUFFICES ASSUME Writing(c)', NEW y \in Callers, Scheduled(y)
                     PROVE  caller'[c].slot >= caller[y].slot + Interval
        BY <2>2, <3>1 DEF OwnerIsLater, Apart
      <4>2. caller'[c].slot = Later(time, next.at)
        BY <4>1 DEF Writing, Read, Leave, NoCaller, GateInv, GateTypeOK, CallerType
      <4>3. caller[y].slot + Interval <= time \/ caller[y].slot + Interval <= next.at
        BY <2>1, <4>1 DEF GateInv, Taken
      <4>4. caller[y].slot + Interval \in Nat /\ time \in Nat /\ next.at \in Nat
        BY <1>1 DEF GateInv, GateTypeOK, CallerType, KeyType
      <4> QED BY <1>2, <4>2, <4>3, <4>4
    <3>2. CASE x # c
      <4>1. Writing(x)' /\ Owned(x)' => Writing(x) /\ Owned(x)
        BY <1>1, <2>1, <3>2 DEF Writing, Owned, Read, Let, NoMutex
      <4> QED BY <2>1, <2>2, <3>2, <4>1 DEF GateInv, OwnerIsLater, Apart
    <3> QED BY <3>1, <3>2
  <2> QED BY <2>3, <2>4
<1> QED BY <1>3, <1>4, <1>5 DEF GateInv

\* What the owner writes is that its slot is taken.
LEMMA WriteKeeps ==
    ASSUME GateAssumption, GateInv, NEW c \in Callers, Write(c)
    PROVE  GateInv'
<1>1. /\ Interval \in Nat /\ MaxWait \in Nat /\ KeyLife \in Nat
      /\ KeyLife > Interval + MaxWait /\ 0 \notin Callers
  BY GateConstants
<1>2. GateTypeOK'
  <2>1. mutex' \in MutexType
    BY LetTyped DEF GateInv, Write
  <2>2. next' \in KeyType
    <3>1. caller[c].slot + Interval \in Nat /\ time + KeyLife \in Nat
      BY <1>1 DEF GateInv, GateTypeOK, CallerType
    <3> QED BY <3>1 DEF Write, KeyType
  <2>3. caller' \in [Callers -> CallerType]
    <3>1. [caller[c] EXCEPT !.pc = "scheduled", !.start = 0] \in CallerType
      BY DEF GateInv, GateTypeOK, CallerType
    <3>2. caller' = [caller EXCEPT ![c] = [caller[c] EXCEPT !.pc = "scheduled", !.start = 0]]
      BY Zenon DEF Write
    <3> QED BY <3>1, <3>2, CallerMoved DEF GateInv
  <2> QED BY <2>1, <2>2, <2>3 DEF GateInv, GateTypeOK, Write
<1>3. KeyOutlivesTime' /\ \A x \in Callers : SlotInReach(x)'
  BY <1>1, <1>2
     DEF GateInv, GateTypeOK, CallerType, KeyType, KeyOutlivesTime, SlotInReach, Writing, Write,
         Let, NoMutex
<1>4. ASSUME ~upset', NEW x \in Callers
      PROVE  Taken(x)' /\ OwnerIsLater(x)' /\ Spaced(x)'
  <2>1. /\ ~upset /\ Owned(c) /\ Writing(c) /\ next'.at = caller[c].slot + Interval
        /\ time' = time
    BY <1>4 DEF GateInv, GateTypeOK, Write, Writing
  <2>2. /\ Scheduled(c)' /\ caller'[c].slot = caller[c].slot
        /\ \A y \in Callers : y # c => caller'[y] = caller[y]
    BY DEF GateInv, GateTypeOK, CallerType, Write, Scheduled
  <2>3. \A y \in Callers : Scheduled(y) => Apart(c, y)
    BY <2>1 DEF GateInv, OwnerIsLater
  <2>4. \A y \in Callers : caller[y].slot \in Nat
    BY DEF GateInv, GateTypeOK, CallerType
  <2>5. Taken(x)'
    <3>1. CASE x = c
      BY <1>1, <2>1, <2>2, <2>4, <3>1 DEF Taken
    <3>2. CASE x # c
      BY <1>1, <2>1, <2>2, <2>3, <2>4, <3>2 DEF Taken, Scheduled, Apart
    <3> QED BY <3>1, <3>2
  <2>6. OwnerIsLater(x)'
    BY <1>1, <2>1, <2>2
       DEF OwnerIsLater, Owned, Writing, Scheduled, Write, Let, NoMutex, GateInv, GateTypeOK,
           MutexType
  <2>7. Spaced(x)'
    BY <2>1, <2>2, <2>3, <2>4 DEF GateInv, Spaced, Scheduled, Apart
  <2> QED BY <2>5, <2>6, <2>7
<1> QED BY <1>2, <1>3, <1>4 DEF GateInv

LEMMA FallBackKeeps ==
    ASSUME GateAssumption, GateInv, NEW c \in Callers, FallBack(c)
    PROVE  GateInv'
<1>1. /\ Interval \in Nat /\ MaxWait \in Nat /\ KeyLife \in Nat
      /\ KeyLife > Interval + MaxWait /\ 0 \notin Callers
  BY GateConstants
<1>2. Later(time, local) \in Nat /\ Later(time, local) >= time /\ Later(time, local) >= local
  BY LaterIsOne DEF GateInv, GateTypeOK
<1>3. GateTypeOK'
  <2>1. mutex' \in MutexType
    BY LetTyped DEF GateInv, FallBack
  <2>2. caller' \in [Callers -> CallerType]
    <3>1. [NoCaller EXCEPT !.pc = "out"] \in CallerType
      BY DEF NoCaller, CallerType
    <3> QED BY <3>1, CallerMoved DEF GateInv, FallBack, Leave
  <2>3. next' \in KeyType
    <3>1. caller[c].slot + Interval \in Nat /\ time + KeyLife \in Nat
      BY <1>1 DEF GateInv, GateTypeOK, CallerType
    <3> QED BY <3>1 DEF FallBack, KeyType, GateInv, GateTypeOK
  <2>4. local' \in Nat
    BY <1>1, <1>2 DEF GateInv, GateTypeOK, FallBack
  <2>5. upset' \in BOOLEAN /\ time' = time
    BY DEF GateInv, GateTypeOK, FallBack
  <2> QED BY <2>1, <2>2, <2>3, <2>4, <2>5 DEF GateInv, GateTypeOK
<1>4. KeyOutlivesTime' /\ \A x \in Callers : SlotInReach(x)'
  <2>1. caller' = [caller EXCEPT ![c] = [NoCaller EXCEPT !.pc = "out"]] /\ time' = time
    BY DEF FallBack, Leave
  <2>2. KeyOutlivesTime'
    BY <1>1
       DEF GateInv, GateTypeOK, CallerType, KeyType, KeyOutlivesTime, SlotInReach, Writing,
           FallBack
  <2>3. ASSUME NEW x \in Callers
        PROVE  SlotInReach(x)'
    BY <2>1 DEF GateInv, GateTypeOK, CallerType, SlotInReach, Writing, NoCaller
  <2> QED BY <2>2, <2>3
<1>5. ASSUME ~upset', NEW x \in Callers
      PROVE  Taken(x)' /\ OwnerIsLater(x)' /\ Spaced(x)'
  <2>1. /\ ~upset /\ time' = time
        /\ next' = next \/ (Owned(c) /\ Writing(c) /\ next'.at = caller[c].slot + Interval)
    <3>1. ~upset /\ (next' = next \/ Owned(c))
      BY <1>5, Zenon DEF FallBack
    <3>2. time' = time
      BY DEF FallBack
    <3>3. next' = next \/ (Writing(c) /\ next'.at = caller[c].slot + Interval)
      BY DEF FallBack, Writing
    <3> QED BY <3>1, <3>2, <3>3
  <2>2. /\ ~Scheduled(c)' /\ ~Writing(c)'
        /\ \A y \in Callers : y # c => caller'[y] = caller[y]
    BY DEF GateInv, GateTypeOK, FallBack, Leave, NoCaller, Scheduled, Writing
  <2>3. \A y \in Callers : caller[y].slot \in Nat
    BY DEF GateInv, GateTypeOK, CallerType
  <2>4. mutex' = NoMutex \/ mutex' = mutex
    BY DEF FallBack, Let
  <2>5. Taken(x)'
    BY <1>1, <2>1, <2>2, <2>3 DEF GateInv, Taken, OwnerIsLater, Scheduled, Apart
  <2>6. OwnerIsLater(x)'
    BY <1>1, <2>1, <2>2, <2>4
       DEF GateInv, OwnerIsLater, Owned, Writing, Scheduled, Apart, NoMutex
  <2>7. Spaced(x)'
    BY <2>1, <2>2 DEF GateInv, Spaced, Scheduled, Apart
  <2> QED BY <2>5, <2>6, <2>7
<1> QED BY <1>3, <1>4, <1>5 DEF GateInv

LEMMA OthersKeep ==
    ASSUME GateAssumption, GateInv, TimePasses \/ RedisForgets \/ UNCHANGED gateVars
    PROVE  GateInv'
<1>1. Interval \in Nat /\ MaxWait \in Nat /\ 0 \notin Callers
  BY GateConstants
<1>2. GateTypeOK'
  <2>1. CASE TimePasses
    BY <2>1, NothingTyped DEF GateInv, GateTypeOK, TimePasses
  <2>2. CASE RedisForgets
    BY <2>2, NothingTyped DEF GateInv, GateTypeOK, RedisForgets
  <2>3. CASE UNCHANGED gateVars
    BY <2>3 DEF GateInv, GateTypeOK, gateVars
  <2> QED BY <2>1, <2>2, <2>3
<1>3. KeyOutlivesTime' /\ \A c \in Callers : SlotInReach(c)'
  BY <1>1, <1>2
     DEF GateInv, GateTypeOK, CallerType, KeyType, KeyOutlivesTime, SlotInReach, Writing, TimePasses,
         RedisForgets, NoKey, gateVars
<1>4. ASSUME ~upset', NEW c \in Callers
      PROVE  Taken(c)' /\ OwnerIsLater(c)' /\ Spaced(c)'
  BY <1>1, <1>2, <1>4
     DEF GateInv, GateTypeOK, CallerType, KeyType, KeyOutlivesTime, Taken, OwnerIsLater, Spaced,
         Scheduled, Writing, Owned, Apart, TimePasses, RedisForgets, NoKey, NoMutex, gateVars
<1> QED BY <1>2, <1>3, <1>4 DEF GateInv

\* The next slot kept in Redis, and the one the lock's owner is about to write,
\* come after all that were handed out, unless a call wrote without its lease.
THEOREM GateInvariant == GateAssumption => (GateSpec => []GateInv)
<1> SUFFICES ASSUME GateAssumption
             PROVE  GateSpec => []GateInv
  OBVIOUS
<1>1. GateInv /\ [GateNext]_gateVars => GateInv'
  <2> SUFFICES ASSUME GateInv, [GateNext]_gateVars
               PROVE  GateInv'
    OBVIOUS
  <2>1. ASSUME NEW c \in Callers, Arrive(c) \/ Enter(c) \/ LockTimesOut(c)
        PROVE  GateInv'
    BY <2>1, ArriveKeeps, EnterKeeps, LockTimesOutKeeps
  <2>2. ASSUME NEW c \in Callers, Read(c) \/ Write(c) \/ FallBack(c)
        PROVE  GateInv'
    BY <2>2, ReadKeeps, WriteKeeps, FallBackKeeps
  <2>3. CASE TimePasses \/ RedisForgets \/ UNCHANGED gateVars
    BY <2>3, OthersKeep
  <2> QED BY <2>1, <2>2, <2>3 DEF GateNext
<1> QED BY <1>1, GateInitHolds, PTL DEF GateSpec

\* The calls that Redis scheduled keep the provider's rate, unless a call wrote
\* without its lease or Redis forgot.
THEOREM RateKept == GateAssumption => (GateSpec => []SlotsSpaced)
<1> SUFFICES ASSUME GateAssumption
             PROVE  GateSpec => []SlotsSpaced
  OBVIOUS
<1>1. GateInv => SlotsSpaced
  <2>1. 0 \notin Callers /\ \A c, d \in Callers : c < d => c # d
    BY DEF GateAssumption, Callers
  <2> QED BY <2>1 DEF GateInv, Spaced, Scheduled, Apart, SlotsSpaced
<1> QED BY <1>1, GateInvariant, PTL

------------------------------------------------------------------------------
(* LiveAdmission.  A mint is forgotten, by its record's end or with Redis'  *)
(* data, only when its request is too old to be sent again or admission    *)
(* stays shut until it is; and the same wait outlives every credential     *)
(* that the ledger may have lost.                                          *)

\* A mint that was reserved; those that a credential may come from.
Reserved(c) == mint[c].pc # "none"
Held == {c \in Mints : /\ mint[c].pc \in {"reserved", "minted", "told", "uncertain", "loose"}
                       /\ ExpiryOf(c) > now}
Busy == {u \in Users : PendingNow(u) \/ IssuedNow(u)}

\* A mint is asked for in time.  Its request is on record, or too old to be
\* sent again, or Redis forgot it and stays shut for as long.
StampSound(c) ==
    Reserved(c) => mint[c].issued <= now /\ stamp[ReqOf(c)] <= mint[c].issued + Ahead
Remembered(c) ==
    Reserved(c) => \/ op[ReqOf(c)].mint = c
                   \/ ~marked
                   \/ ExpiryOf(c) <= safe
                   \/ mint[c].issued + Keep <= now

\* So is its lease.
Leased(c) == c \in Held => c \in risk \/ ~marked \/ ExpiryOf(c) <= safe

\* Records name mints of theirs; who owns a session counts as active with it.
OpSound(r) == Kept(op[r]) => Reserved(op[r].mint) /\ ReqOf(op[r].mint) = r
HeadSound(u) ==
    /\ Kept(head[u]) => Reserved(head[u].mint) /\ Owner(head[u].mint) = u
    /\ PendingNow(u) => DeadlineOf(head[u].mint) <= active[u]
    /\ IssuedNow(u) => ExpiryOf(head[u].mint) <= active[u]

Limits ==
    /\ Cardinality(Held) <= GlobalLimit
    /\ \A u \in Users : Cardinality(Of(u, Held)) <= UserLimit
    /\ IsFiniteSet(ActiveUsers) /\ Cardinality(ActiveUsers) <= ActiveLimit

AdmissionInv ==
    /\ AdmissionTypeOK
    /\ \A c \in Mints : StampSound(c) /\ Remembered(c) /\ Leased(c)
    /\ \A r \in Starts : OpSound(r)
    /\ \A u \in Users : HeadSound(u)
    /\ MintsOnce
    /\ Limits

\* What every step but a new mint does: mints go on, none is held anew.
Onward ==
    /\ now <= now' /\ UNCHANGED stamp
    /\ \A c \in Mints :
          /\ mint'[c].req = mint[c].req /\ mint'[c].issued = mint[c].issued
          /\ Reserved(c)' <=> Reserved(c)
    /\ Held' \subseteq Held

LEMMA AdmissionConstants ==
    ASSUME AdmissionAssumption
    PROVE  /\ UserOf \in [Starts -> Users] /\ MaxMints \in Nat /\ MaxTime \in Nat
           /\ Deadline \in Nat /\ Life \in Nat /\ Keep \in Nat /\ Age \in Nat /\ Ahead \in Nat
           /\ 0 < Deadline /\ Deadline < Life /\ Life < Keep /\ Age + Ahead < Life
           /\ GlobalLimit \in Nat /\ UserLimit \in Nat /\ ActiveLimit \in Nat
           /\ GlobalLimit > 0 /\ UserLimit > 0 /\ ActiveLimit > 0
           /\ 0 \notin Mints /\ Mints \subseteq Nat
           /\ (CHOOSE r \in Starts : TRUE) \in Starts
<1>1. (CHOOSE r \in Starts : TRUE) \in Starts
  BY Zenon DEF AdmissionAssumption
<1> QED
  BY <1>1 DEF AdmissionAssumption, Mints

\* A mint's fields.
LEMMA MintFields ==
    ASSUME AdmissionAssumption, AdmissionTypeOK, NEW c \in Mints
    PROVE  /\ mint[c] \in MintType /\ ReqOf(c) \in Starts /\ Owner(c) \in Users
           /\ mint[c].issued \in Nat /\ now \in Nat
           /\ DeadlineOf(c) \in Nat /\ ExpiryOf(c) \in Nat /\ DeadlineOf(c) < ExpiryOf(c)
           /\ ExpiryOf(c) = mint[c].issued + Life /\ DeadlineOf(c) = mint[c].issued + Deadline
<1>1. mint[c] \in MintType /\ now \in Nat
  BY AdmissionConstants DEF AdmissionTypeOK
<1>2. mint[c].req \in Starts /\ mint[c].issued \in Nat
  BY <1>1, AdmissionConstants DEF MintType
<1> QED
  BY <1>1, <1>2, AdmissionConstants DEF ReqOf, Owner, DeadlineOf, ExpiryOf

\* A record that is kept is of a mint.
LEMMA KeptMint ==
    ASSUME AdmissionAssumption, NEW x \in RecordType, Kept(x)
    PROVE  x.mint \in Mints
BY AdmissionConstants DEF RecordType, Kept, Mints

\* What counts time and quotas.
LEMMA ClockTyped ==
    ASSUME AdmissionAssumption, AdmissionTypeOK
    PROVE  now \in Nat /\ \A u \in Users : active[u] \in Nat /\ head[u] \in RecordType
BY AdmissionConstants DEF AdmissionTypeOK

\* A mint that moves on keeps its request and its time.
LEMMA GoesOn ==
    ASSUME AdmissionAssumption, AdmissionTypeOK, NEW c \in Mints, NEW from, NEW to,
           Goes(c, from, to), UNCHANGED <<now, stamp>>,
           "none" \notin from,
           to \in {"minted", "told", "undisclosed", "uncertain", "over", "loose"},
           to \in {"minted", "told", "uncertain", "loose"} =>
               from \subseteq {"reserved", "minted", "told", "uncertain", "loose"}
    PROVE  Onward /\ mint' \in [Mints -> MintType] /\ mint[c].pc \in from
<1>1. mint[c].pc \in from /\ mint' = [mint EXCEPT ![c].pc = to] /\ mint \in [Mints -> MintType]
  BY DEF Goes, AdmissionTypeOK
<1>2. mint' \in [Mints -> MintType]
  BY <1>1 DEF MintType
<1>3. ASSUME NEW d \in Mints
      PROVE  /\ mint'[d].req = mint[d].req /\ mint'[d].issued = mint[d].issued
             /\ mint'[d].pc = IF d = c THEN to ELSE mint[d].pc
  BY <1>1 DEF MintType
<1>4. ASSUME NEW d \in Held' PROVE d \in Held
  <2>1. d \in Mints /\ ExpiryOf(d) > now
    BY <1>3 DEF Held, ExpiryOf
  <2> QED
    BY <1>1, <1>3, <2>1 DEF Held
<1>5. now <= now'
  BY AdmissionConstants DEF AdmissionTypeOK
<1>6. \A d \in Mints : Reserved(d)' <=> Reserved(d)
  BY <1>1, <1>3 DEF Reserved
<1> QED
  BY <1>1, <1>2, <1>3, <1>4, <1>5, <1>6 DEF Onward

\* Some of no more is no more.
LEMMA FewerAreFewer ==
    ASSUME NEW S, NEW T, IsFiniteSet(T), S \subseteq T, NEW n \in Nat, Cardinality(T) <= n
    PROVE  IsFiniteSet(S) /\ Cardinality(S) <= n
<1>1. IsFiniteSet(S) /\ Cardinality(S) <= Cardinality(T)
  BY FS_Subset
<1>2. Cardinality(S) \in Nat /\ Cardinality(T) \in Nat
  BY <1>1, FS_CardinalityType
<1> QED
  BY <1>1, <1>2

\* One more than less than that many is not more.
LEMMA OneMore ==
    ASSUME NEW T, IsFiniteSet(T), NEW x, NEW n \in Nat, Cardinality(T) < n
    PROVE  IsFiniteSet(T \cup {x}) /\ Cardinality(T \cup {x}) <= n
<1>1. /\ IsFiniteSet(T \cup {x})
      /\ Cardinality(T \cup {x}) = IF x \in T THEN Cardinality(T) ELSE Cardinality(T) + 1
  BY FS_AddElement
<1>2. Cardinality(T) \in Nat
  BY FS_CardinalityType
<1> QED
  BY <1>1, <1>2

\* There are finitely many mints.
LEMMA MintsFinite ==
    ASSUME AdmissionAssumption
    PROVE  \A S \in SUBSET Mints : IsFiniteSet(S)
<1>1. IsFiniteSet(Mints)
  BY FS_Interval, AdmissionConstants DEF Mints
<1> QED
  BY <1>1, FS_Subset

\* What Onward keeps.
LEMMA OnwardKeeps ==
    ASSUME AdmissionAssumption, AdmissionInv, Onward, now' \in Nat
    PROVE  /\ MintsOnce'
           /\ \A c \in Mints : StampSound(c)'
           /\ Cardinality(Held') <= GlobalLimit
           /\ \A u \in Users : Cardinality(Of(u, Held)') <= UserLimit
<1>1. ASSUME NEW c \in Mints
      PROVE  /\ ReqOf(c)' = ReqOf(c) /\ Owner(c)' = Owner(c) /\ ExpiryOf(c)' = ExpiryOf(c)
             /\ Reserved(c)' <=> Reserved(c)
  BY DEF Onward, ReqOf, Owner, ExpiryOf
<1>2. MintsOnce'
  BY <1>1, Zenon DEF AdmissionInv, MintsOnce, Reserved
<1>3. ASSUME NEW c \in Mints PROVE StampSound(c)'
  <2>1. mint[c].issued \in Nat /\ now \in Nat
    BY MintFields DEF AdmissionInv
  <2> QED
    BY <1>1, <2>1 DEF AdmissionInv, StampSound, Onward
<1>4. Held \subseteq Mints /\ IsFiniteSet(Held) /\ \A u \in Users : IsFiniteSet(Of(u, Held))
  BY MintsFinite DEF Held, Of
<1>5. Cardinality(Held') <= GlobalLimit
  BY <1>4, FewerAreFewer, AdmissionConstants DEF Onward, AdmissionInv, Limits
<1>6. ASSUME NEW u \in Users PROVE Cardinality(Of(u, Held)') <= UserLimit
  <2>1. Of(u, Held)' \subseteq Of(u, Held)
    BY <1>1, <1>4 DEF Of, Onward
  <2> QED
    BY <1>4, <2>1, FewerAreFewer, AdmissionConstants DEF AdmissionInv, Limits
<1> QED
  BY <1>2, <1>3, <1>5, <1>6

\* Steps that keep the records' mints and the marker.
LEMMA RecordsKeep ==
    ASSUME AdmissionAssumption, AdmissionInv, AdmissionTypeOK', Onward,
           \A r \in Starts : op'[r].mint = op[r].mint,
           UNCHANGED <<marked, safe>>,
           Held' \cap risk \subseteq risk',
           \A u \in Users : HeadSound(u)',
           ActiveUsers' \subseteq ActiveUsers
    PROVE  AdmissionInv'
<1>0. AdmissionTypeOK /\ now' \in Nat /\ now \in Nat
  BY AdmissionConstants DEF AdmissionInv, AdmissionTypeOK
<1>1. ASSUME NEW c \in Mints
      PROVE  /\ ReqOf(c)' = ReqOf(c) /\ ExpiryOf(c)' = ExpiryOf(c)
             /\ Reserved(c)' <=> Reserved(c)
  BY DEF Onward, ReqOf, ExpiryOf
<1>2. ASSUME NEW c \in Mints PROVE Remembered(c)' /\ Leased(c)'
  <2>1. mint[c].issued + Keep \in Nat /\ ReqOf(c) \in Starts
    BY <1>0, MintFields, AdmissionConstants
  <2>2. mint[c].issued + Keep <= now => mint[c].issued + Keep <= now'
    BY <1>0, <2>1 DEF Onward
  <2>3. Remembered(c)'
    BY <1>1, <2>1, <2>2 DEF Remembered, AdmissionInv, Onward
  <2>4. Leased(c)'
    BY <1>1 DEF Leased, AdmissionInv, Onward
  <2> QED
    BY <2>3, <2>4
<1>3. ASSUME NEW r \in Starts PROVE OpSound(r)'
  <2>1. Kept(op[r]) => op[r].mint \in Mints
    BY <1>0 DEF AdmissionTypeOK, RecordType, Kept, Mints
  <2> QED
    BY <1>1, <2>1 DEF OpSound, AdmissionInv, Kept
<1>4. IsFiniteSet(ActiveUsers') /\ Cardinality(ActiveUsers') <= ActiveLimit
  BY FewerAreFewer, AdmissionConstants DEF AdmissionInv, Limits
<1> QED
  BY <1>0, <1>2, <1>3, <1>4, OnwardKeeps DEF AdmissionInv, Limits


\* The head of a user stays, and so does what it stands for.
LEMMA HeadStays ==
    ASSUME AdmissionAssumption, AdmissionInv, Onward, now' \in Nat, NEW u \in Users,
           head'[u] = head[u],
           active'[u] = active[u] \/ active[u] <= now'
    PROVE  HeadSound(u)'
<1>0. /\ AdmissionTypeOK /\ HeadSound(u) /\ active[u] \in Nat /\ now \in Nat /\ now <= now'
      /\ Kept(head[u]) => head[u].mint \in Mints
  <2>1. AdmissionTypeOK /\ HeadSound(u) /\ now <= now'
    BY DEF AdmissionInv, Onward
  <2>2. active[u] \in Nat /\ now \in Nat
    BY <2>1, ClockTyped
  <2>3. Kept(head[u]) => head[u].mint \in Mints
    BY <2>1, ClockTyped, KeptMint
  <2> QED
    BY <2>1, <2>2, <2>3
<1>1. Kept(head'[u]) <=> Kept(head[u])
  BY DEF Kept
<1>2. ASSUME Kept(head[u])
      PROVE  HeadSound(u)'
  <2>1. PICK c \in Mints : c = head[u].mint /\ c = head'[u].mint
    BY <1>0, <1>2
  <2>2. /\ Owner(c)' = Owner(c) /\ Reserved(c)' <=> Reserved(c)
        /\ DeadlineOf(c)' = DeadlineOf(c) /\ ExpiryOf(c)' = ExpiryOf(c)
        /\ DeadlineOf(c) \in Nat /\ ExpiryOf(c) \in Nat
    BY <1>0, MintFields DEF Onward, Owner, ReqOf, DeadlineOf, ExpiryOf
  <2>3. Reserved(c) /\ Owner(c) = u
    BY <1>0, <1>2, <2>1 DEF HeadSound
  <2>4. PendingNow(u)' => DeadlineOf(c)' <= active'[u]
    BY <1>0, <1>2, <2>1, <2>2 DEF PendingNow, HeadSound
  <2>5. IssuedNow(u)' => ExpiryOf(c)' <= active'[u]
    BY <1>0, <1>2, <2>1, <2>2 DEF IssuedNow, HeadSound
  <2> QED
    BY <2>1, <2>2, <2>3, <2>4, <2>5 DEF HeadSound
<1>3. CASE ~Kept(head[u])
  BY <1>1, <1>3 DEF HeadSound, PendingNow, IssuedNow
<1> QED
  BY <1>2, <1>3

\* The worker's steps that leave Redis alone.
LEMMA QuietKeeps ==
    ASSUME AdmissionAssumption, AdmissionInv, NEW c \in Mints,
           \/ MintMade(c) \/ MintFails(c) \/ MintTimesOut(c) \/ CompleteFails(c)
           \/ FailIgnored(c) \/ MinterDies(c)
    PROVE  AdmissionInv'
<1>0. AdmissionTypeOK
  BY DEF AdmissionInv
<1>1. /\ UNCHANGED <<now, stamp, op, head, risk, active, bound, marked, safe>>
      /\ Onward /\ mint' \in [Mints -> MintType]
  BY <1>0, GoesOn DEF MintMade, MintFails, MintTimesOut, CompleteFails, FailIgnored, MinterDies, redis
<1>2. AdmissionTypeOK' /\ now' \in Nat
  BY <1>0, <1>1, AdmissionConstants DEF AdmissionTypeOK
<1>3. \A u \in Users : HeadSound(u)'
  BY <1>1, <1>2, HeadStays
<1>4. ActiveUsers' \subseteq ActiveUsers /\ Held' \cap risk \subseteq risk'
  BY <1>1 DEF ActiveUsers
<1> QED
  BY <1>1, <1>2, <1>3, <1>4, RecordsKeep

\* A session is issued in the place of its mint.
LEMMA CompleteKeeps ==
    ASSUME AdmissionAssumption, AdmissionInv, NEW c \in Mints, Complete(c)
    PROVE  AdmissionInv'
<1> DEFINE u == Owner(c)
           r == ReqOf(c)
<1>0. /\ AdmissionTypeOK /\ r \in Starts /\ u \in Users
      /\ ExpiryOf(c) \in Nat /\ DeadlineOf(c) \in Nat /\ now \in Nat
      /\ op[r].mint = c /\ head[u].mint = c /\ c # 0
  BY MintFields, AdmissionConstants DEF AdmissionInv, Complete, Completable, OwnerMatches
<1>1. /\ UNCHANGED <<now, stamp, risk, marked, safe>> /\ bound' = bound \cup {c}
      /\ op' = [op EXCEPT ![r] = Record(c, "issued")]
      /\ head' = [head EXCEPT ![u] = Record(c, "issued")]
      /\ active' = [active EXCEPT ![u] = ExpiryOf(c)]
  BY <1>0 DEF Complete
<1>2. Onward /\ mint' \in [Mints -> MintType] /\ mint[c].pc = "minted"
  <2>1. PICK to \in {"told", "undisclosed"} : Goes(c, {"minted"}, to)
    BY DEF Complete
  <2> QED
    BY <1>0, <1>1, <2>1, GoesOn
<1> HIDE DEF u, r
<1>3. Record(c, "issued") \in RecordType /\ Record(c, "issued").mint = c
  BY AdmissionConstants DEF Record, RecordType, Mints
<1>4. AdmissionTypeOK' /\ now' \in Nat
  BY <1>0, <1>1, <1>2, <1>3, AdmissionConstants DEF AdmissionTypeOK
<1>5. \A q \in Starts : op'[q].mint = op[q].mint
  BY <1>0, <1>1, <1>3 DEF AdmissionTypeOK
<1>6. ASSUME NEW v \in Users PROVE HeadSound(v)'
  <2>1. CASE v # u
    BY <1>0, <1>1, <1>2, <1>4, <2>1, HeadStays DEF AdmissionTypeOK
  <2>2. CASE v = u
    <3>1. head'[v] = Record(c, "issued") /\ active'[v] = ExpiryOf(c)
      BY <1>0, <1>1, <2>2 DEF AdmissionTypeOK
    <3>2. /\ Owner(c)' = Owner(c) /\ ExpiryOf(c)' = ExpiryOf(c) /\ Reserved(c)'
      BY <1>2 DEF Onward, Owner, ReqOf, ExpiryOf, Reserved
    <3> QED
      BY <1>0, <1>3, <2>2, <3>1, <3>2 DEF HeadSound, PendingNow, Record, u
  <2> QED
    BY <2>1, <2>2
<1>7. ActiveUsers' \subseteq ActiveUsers
  <2>1. PendingNow(u)
    BY <1>0 DEF Complete, Completable, OwnerMatches, PendingNow, u
  <2>2. active[u] # 0
    BY <1>0, <2>1 DEF AdmissionInv, HeadSound, AdmissionTypeOK, PendingNow
  <2> QED
    BY <1>0, <1>1, <2>2 DEF ActiveUsers, AdmissionTypeOK
<1> QED
  BY <1>1, <1>2, <1>4, <1>5, <1>6, <1>7, RecordsKeep

\* A session that has failed or was retired owns nothing and is not active.
LEMMA RetiredSound ==
    ASSUME AdmissionAssumption, AdmissionInv, Onward, now' \in Nat,
           NEW c \in Mints, NEW u \in Users, Reserved(c), Owner(c) = u,
           head' = [head EXCEPT ![u] = Record(c, "retired")],
           active' = [active EXCEPT ![u] = 0]
    PROVE  /\ \A v \in Users : HeadSound(v)'
           /\ ActiveUsers' \subseteq ActiveUsers
           /\ head' \in [Users -> RecordType] /\ active' \in [Users -> Nat]
<1>0. AdmissionTypeOK
  BY DEF AdmissionInv
<1>1. Record(c, "retired") \in RecordType /\ Record(c, "retired").mint = c
      /\ Record(c, "retired").state = "retired"
  BY AdmissionConstants DEF Record, RecordType, Mints
<1>2. ASSUME NEW v \in Users PROVE HeadSound(v)'
  <2>1. CASE v # u
    BY <1>0, <2>1, HeadStays DEF AdmissionTypeOK
  <2>2. CASE v = u
    <3>1. head'[v] = Record(c, "retired")
      BY <1>0, <2>2 DEF AdmissionTypeOK
    <3>2. Owner(c)' = Owner(c) /\ Reserved(c)'
      BY DEF Onward, Owner, ReqOf
    <3> QED
      BY <1>1, <2>2, <3>1, <3>2 DEF HeadSound, PendingNow, IssuedNow
  <2> QED
    BY <2>1, <2>2
<1>3. ActiveUsers' \subseteq ActiveUsers
  BY <1>0 DEF ActiveUsers, AdmissionTypeOK
<1> QED
  BY <1>0, <1>1, <1>2, <1>3 DEF AdmissionTypeOK

\* A mint that was surely not disclosed gives its lease back.
LEMMA FailKeeps ==
    ASSUME AdmissionAssumption, AdmissionInv, NEW c \in Mints, Fail(c)
    PROVE  AdmissionInv'
<1> DEFINE u == Owner(c)
           r == ReqOf(c)
<1>0. /\ AdmissionTypeOK /\ r \in Starts /\ u \in Users
      /\ op[r].mint = c /\ head[u].mint = c /\ now \in Nat
  BY MintFields DEF AdmissionInv, Fail, OwnerMatches
<1>1. /\ UNCHANGED <<now, stamp, bound, marked, safe>>
      /\ op' = [op EXCEPT ![r] = Record(c, "failed")]
      /\ head' = [head EXCEPT ![u] = Record(c, "retired")]
      /\ active' = [active EXCEPT ![u] = 0]
  BY DEF Fail
<1>2. /\ Onward /\ mint' \in [Mints -> MintType]
      /\ \/ mint[c].pc = "undisclosed" /\ risk' = risk \ {c}
         \/ mint[c].pc = "uncertain" /\ risk' = risk
  <2>1. CASE Goes(c, {"undisclosed"}, "over") /\ risk' = risk \ {c}
    BY <1>0, <1>1, <2>1, GoesOn
  <2>2. CASE Goes(c, {"uncertain"}, "loose") /\ risk' = risk
    BY <1>0, <1>1, <2>2, GoesOn
  <2> QED
    BY <2>1, <2>2 DEF Fail
<1> HIDE DEF u, r
<1>3. Record(c, "failed") \in RecordType /\ Record(c, "failed").mint = c
  BY AdmissionConstants DEF Record, RecordType, Mints
<1>4. Reserved(c) /\ now' \in Nat /\ Owner(c) = u
  BY <1>0, <1>1, <1>2 DEF Reserved, u
<1>5. /\ \A v \in Users : HeadSound(v)'
      /\ ActiveUsers' \subseteq ActiveUsers
      /\ head' \in [Users -> RecordType] /\ active' \in [Users -> Nat]
  BY <1>0, <1>1, <1>2, <1>4, RetiredSound
<1>6. AdmissionTypeOK'
  BY <1>0, <1>1, <1>2, <1>3, <1>5 DEF AdmissionTypeOK
<1>7. \A q \in Starts : op'[q].mint = op[q].mint
  BY <1>0, <1>1, <1>3 DEF AdmissionTypeOK
<1>8. Held' \cap risk \subseteq risk'
  BY <1>2 DEF Held, Onward
<1> QED
  BY <1>1, <1>2, <1>5, <1>6, <1>7, <1>8, RecordsKeep

\* A session that is left keeps its lease.
LEMMA RetireKeeps ==
    ASSUME AdmissionAssumption, AdmissionInv, NEW c \in Mints, Retire(c)
    PROVE  AdmissionInv'
<1> DEFINE u == Owner(c)
<1>0. /\ AdmissionTypeOK /\ u \in Users /\ Kept(head[u]) /\ head[u].mint = c /\ now \in Nat
  BY MintFields DEF AdmissionInv, Retire
<1>1. /\ UNCHANGED <<now, mint, stamp, op, risk, bound, marked, safe>>
      /\ head' = [head EXCEPT ![u] = Record(c, "retired")]
      /\ active' = [active EXCEPT ![u] = 0]
  BY DEF Retire
<1>2. Reserved(c) /\ Owner(c) = u
  BY <1>0 DEF AdmissionInv, HeadSound
<1>3. Onward /\ now' \in Nat
  BY <1>0, <1>1 DEF Onward, Reserved, Held, ExpiryOf
<1> HIDE DEF u
<1>4. /\ \A v \in Users : HeadSound(v)'
      /\ ActiveUsers' \subseteq ActiveUsers
      /\ head' \in [Users -> RecordType] /\ active' \in [Users -> Nat]
  BY <1>0, <1>1, <1>2, <1>3, RetiredSound
<1>5. AdmissionTypeOK'
  BY <1>0, <1>1, <1>4 DEF AdmissionTypeOK
<1> QED
  BY <1>1, <1>3, <1>4, <1>5, RecordsKeep

\* Time passes.
LEMMA TickKeeps ==
    ASSUME AdmissionAssumption, AdmissionInv, Tick
    PROVE  AdmissionInv'
<1>0. AdmissionTypeOK /\ now \in Nat /\ MaxTime \in Nat
  BY AdmissionConstants DEF AdmissionInv, AdmissionTypeOK
<1>1. /\ now' = now + 1 /\ now < MaxTime
      /\ risk' = {c \in risk : ExpiryOf(c) > now'}
      /\ UNCHANGED <<stamp, op, head, bound, marked, safe>>
  BY DEF Tick
<1>2. ASSUME NEW u \in Users
      PROVE  active'[u] = active[u] \/ (active'[u] = 0 /\ active[u] <= now')
  BY <1>0 DEF Tick
<1>3. ASSUME NEW c \in Mints
      PROVE  /\ mint'[c] \in MintType
             /\ mint'[c].req = mint[c].req /\ mint'[c].issued = mint[c].issued
             /\ mint'[c].pc = mint[c].pc \/ (mint'[c].pc = "over" /\ mint[c].pc \in {"told", "loose"})
  BY <1>0 DEF Tick, AdmissionTypeOK, MintType
<1>4. mint' \in [Mints -> MintType] /\ active' \in [Users -> Nat]
  BY <1>0, <1>3 DEF Tick, AdmissionTypeOK
<1>5. \A c \in Mints : Reserved(c)' <=> Reserved(c)
  BY <1>3 DEF Reserved
<1>6. ASSUME NEW c \in Held' PROVE c \in Held /\ ExpiryOf(c) > now'
  <2>1. c \in Mints /\ mint'[c].pc \in {"reserved", "minted", "told", "uncertain", "loose"}
        /\ ExpiryOf(c)' > now' /\ ExpiryOf(c)' = ExpiryOf(c)
    BY <1>3 DEF Held, ExpiryOf
  <2>2. ExpiryOf(c) \in Nat
    BY <1>0, <2>1, MintFields
  <2> QED
    BY <1>0, <1>1, <1>3, <2>1, <2>2 DEF Held
<1>7. Onward /\ now' \in Nat
  BY <1>0, <1>1, <1>3, <1>5, <1>6 DEF Onward
<1>8. AdmissionTypeOK'
  BY <1>0, <1>1, <1>4 DEF AdmissionTypeOK
<1>9. \A u \in Users : HeadSound(u)'
  BY <1>1, <1>2, <1>7, HeadStays
<1>10. ActiveUsers' \subseteq ActiveUsers
  BY <1>2 DEF ActiveUsers
<1>11. Held' \cap risk \subseteq risk'
  BY <1>1, <1>6
<1> QED
  BY <1>1, <1>7, <1>8, <1>9, <1>10, <1>11, RecordsKeep


\* The record of a request that is too old to be sent again is dropped.
LEMMA ForgetKeeps ==
    ASSUME AdmissionAssumption, AdmissionInv, NEW r \in Starts, Forget(r)
    PROVE  AdmissionInv'
<1>0. AdmissionTypeOK /\ now \in Nat
  BY AdmissionConstants DEF AdmissionInv, AdmissionTypeOK
<1>1. /\ UNCHANGED <<now, mint, stamp, head, risk, active, bound, marked, safe>>
      /\ op' = [op EXCEPT ![r] = NoRecord] /\ mint[op[r].mint].issued + Keep <= now
  BY DEF Forget
<1>2. NoRecord \in RecordType /\ ~Kept(NoRecord)
  BY AdmissionConstants DEF NoRecord, RecordType, Kept
<1>3. AdmissionTypeOK'
  BY <1>0, <1>1, <1>2 DEF AdmissionTypeOK
<1>4. Onward /\ now' \in Nat
  BY <1>0, <1>1 DEF Onward, Reserved, Held, ExpiryOf
<1>5. ASSUME NEW c \in Mints PROVE Remembered(c)' /\ Leased(c)'
  <2>1. Remembered(c) /\ Leased(c) /\ ReqOf(c) \in Starts
    BY <1>0, MintFields DEF AdmissionInv
  <2>2. op'[ReqOf(c)] = op[ReqOf(c)] \/ ReqOf(c) = r
    BY <1>0, <1>1, <2>1 DEF AdmissionTypeOK
  <2>3. Remembered(c)'
    BY <1>1, <2>1, <2>2 DEF Remembered, Reserved, ReqOf, ExpiryOf
  <2>4. Leased(c)'
    BY <1>1, <2>1 DEF Leased, Held, ExpiryOf
  <2> QED
    BY <2>3, <2>4
<1>6. ASSUME NEW q \in Starts PROVE OpSound(q)'
  <2>1. op'[q] = IF q = r THEN NoRecord ELSE op[q]
    BY <1>0, <1>1 DEF AdmissionTypeOK
  <2> QED
    BY <1>1, <1>2, <2>1 DEF AdmissionInv, OpSound, Kept, Reserved, ReqOf
<1>7. \A u \in Users : HeadSound(u)'
  BY <1>1, <1>4, HeadStays
<1>8. ActiveUsers' = ActiveUsers
  BY <1>1 DEF ActiveUsers
<1> QED
  BY <1>3, <1>4, <1>5, <1>6, <1>7, <1>8, OnwardKeeps DEF AdmissionInv, Limits

\* Admission stays shut for the life of a credential.
LEMMA WarmKeeps ==
    ASSUME AdmissionAssumption, AdmissionInv, Warm
    PROVE  AdmissionInv'
<1>0. AdmissionTypeOK /\ now \in Nat /\ Life \in Nat
  BY AdmissionConstants DEF AdmissionInv, AdmissionTypeOK
<1>1. /\ UNCHANGED <<now, mint, stamp, op, head, risk, active, bound>>
      /\ marked' = TRUE /\ safe' = now + Life
  BY DEF Warm
<1>2. AdmissionTypeOK'
  BY <1>0, <1>1 DEF AdmissionTypeOK
<1>3. Onward /\ now' \in Nat
  BY <1>0, <1>1 DEF Onward, Reserved, Held, ExpiryOf
<1>4. ASSUME NEW c \in Mints PROVE Remembered(c)' /\ Leased(c)'
  <2>1. Reserved(c) => ExpiryOf(c) <= safe'
    BY <1>0, <1>1, MintFields DEF AdmissionInv, StampSound
  <2>2. ExpiryOf(c)' = ExpiryOf(c) /\ (Reserved(c)' <=> Reserved(c)) /\ (c \in Held' => Reserved(c))
    BY <1>1 DEF ExpiryOf, Reserved, Held
  <2> QED
    BY <2>1, <2>2 DEF Remembered, Leased
<1>5. \A r \in Starts : OpSound(r)'
  BY <1>1 DEF AdmissionInv, OpSound, Kept, Reserved, ReqOf
<1>6. \A u \in Users : HeadSound(u)'
  BY <1>1, <1>3, HeadStays
<1>7. ActiveUsers' = ActiveUsers
  BY <1>1 DEF ActiveUsers
<1> QED
  BY <1>2, <1>3, <1>4, <1>5, <1>6, <1>7, OnwardKeeps DEF AdmissionInv, Limits

\* Redis restarts, and may know nothing any more.
LEMMA RestartKeeps ==
    ASSUME AdmissionAssumption, AdmissionInv, Restart
    PROVE  AdmissionInv'
<1>0. AdmissionTypeOK /\ now \in Nat
  BY AdmissionConstants DEF AdmissionInv, AdmissionTypeOK
<1>1. /\ UNCHANGED <<now, mint, stamp, safe>> /\ marked' = FALSE
      /\ \/ UNCHANGED <<op, head, risk, active, bound>>
         \/ /\ op' = [r \in Starts |-> NoRecord] /\ head' = [u \in Users |-> NoRecord]
            /\ risk' = {} /\ active' = [u \in Users |-> 0] /\ bound' = {}
  BY DEF Restart
<1>2. NoRecord \in RecordType /\ ~Kept(NoRecord)
  BY AdmissionConstants DEF NoRecord, RecordType, Kept
<1>3. AdmissionTypeOK'
  <2>1. CASE UNCHANGED <<op, head, risk, active, bound>>
    BY <1>0, <1>1, <2>1 DEF AdmissionTypeOK
  <2>2. CASE /\ op' = [r \in Starts |-> NoRecord] /\ head' = [u \in Users |-> NoRecord]
             /\ risk' = {} /\ active' = [u \in Users |-> 0] /\ bound' = {}
    BY <1>0, <1>1, <1>2, <2>2 DEF AdmissionTypeOK
  <2> QED
    BY <1>1, <2>1, <2>2
<1>4. Onward /\ now' \in Nat
  BY <1>0, <1>1 DEF Onward, Reserved, Held, ExpiryOf
<1>5. ASSUME NEW c \in Mints PROVE Remembered(c)' /\ Leased(c)'
  BY <1>1 DEF Remembered, Leased
<1>6. ASSUME NEW r \in Starts PROVE OpSound(r)'
  BY <1>1, <1>2 DEF AdmissionInv, OpSound, Kept, Reserved, ReqOf
<1>7. ASSUME NEW u \in Users PROVE HeadSound(u)'
  <2>1. CASE head'[u] = NoRecord
    BY <1>2, <2>1 DEF HeadSound, PendingNow, IssuedNow, Kept
  <2>2. CASE UNCHANGED <<head, active>>
    BY <1>4, <2>2, HeadStays
  <2> QED
    BY <1>1, <2>1, <2>2
<1>8. ActiveUsers' \subseteq ActiveUsers
  BY <1>1 DEF ActiveUsers
<1>9. IsFiniteSet(ActiveUsers') /\ Cardinality(ActiveUsers') <= ActiveLimit
  BY <1>8, FewerAreFewer, AdmissionConstants DEF AdmissionInv, Limits
<1> QED
  BY <1>3, <1>4, <1>5, <1>6, <1>7, <1>9, OnwardKeeps DEF AdmissionInv, Limits

\* When admission is open, every credential that may be out has its lease,
\* and a request that is in time has the record of its mint.
LEMMA OpenKnows ==
    ASSUME AdmissionAssumption, AdmissionInv, marked, safe <= now
    PROVE  /\ Held \subseteq risk
           /\ \A c \in Mints : Reserved(c) /\ InTime(stamp[ReqOf(c)]) => Kept(op[ReqOf(c)])
<1>0. AdmissionTypeOK /\ now \in Nat /\ safe \in Nat
  BY AdmissionConstants DEF AdmissionInv, AdmissionTypeOK
<1>1. ASSUME NEW c \in Held PROVE c \in risk
  <2>1. c \in Mints /\ ExpiryOf(c) > now
    BY DEF Held
  <2>2. ExpiryOf(c) \in Nat
    BY <1>0, <2>1, MintFields
  <2> QED
    BY <1>0, <2>1, <2>2 DEF AdmissionInv, Leased
<1>2. ASSUME NEW c \in Mints, Reserved(c), InTime(stamp[ReqOf(c)])
      PROVE  Kept(op[ReqOf(c)])
  <2> DEFINE t == stamp[ReqOf(c)]
  <2>1. t \in Nat /\ mint[c].issued \in Nat /\ ExpiryOf(c) = mint[c].issued + Life
    <3>1. ReqOf(c) \in Starts
      BY <1>0, MintFields
    <3> QED
      BY <1>0, <3>1, MintFields, AdmissionConstants DEF AdmissionTypeOK
  <2>2. t <= mint[c].issued + Ahead /\ t + Age >= now
    BY <1>2 DEF AdmissionInv, StampSound, InTime
  <2> HIDE DEF t
  <2>3. ~(ExpiryOf(c) <= safe) /\ ~(mint[c].issued + Keep <= now)
    BY <1>0, <2>1, <2>2, AdmissionConstants
  <2>4. op[ReqOf(c)].mint = c
    BY <1>2, <2>3 DEF AdmissionInv, Remembered
  <2> QED
    BY <2>4, AdmissionConstants DEF Kept
<1> QED
  BY <1>1, <1>2

\* A new mint.
LEMMA CreateKeeps ==
    ASSUME AdmissionAssumption, AdmissionInv, NEW c \in Mints, NEW r \in Starts, NEW how,
           NEW rotation \in BOOLEAN, Create(c, r, how, rotation)
    PROVE  AdmissionInv'
<1> DEFINE u == UserOf[r]
           m == [pc |-> "reserved", req |-> r, issued |-> now]
<1>0. /\ AdmissionTypeOK /\ now \in 0 .. MaxTime /\ now \in Nat /\ u \in Users
      /\ ~Reserved(c) /\ ~Kept(op[r]) /\ marked /\ safe <= now /\ Room(u, rotation)
  <2>1. AdmissionTypeOK
    BY DEF AdmissionInv
  <2>2. now \in 0 .. MaxTime /\ now \in Nat
    BY <2>1, ClockTyped DEF AdmissionTypeOK
  <2>3. u \in Users
    BY AdmissionConstants
  <2>4. mint[c].pc = "none" <=> c >= c
    BY DEF Create
  <2>5. ~Reserved(c)
    BY <2>4, AdmissionConstants DEF Reserved
  <2>6. ~Kept(op[r]) /\ marked /\ safe <= now /\ Room(u, rotation)
    BY Zenon DEF Create
  <2> QED
    BY <2>1, <2>2, <2>3, <2>5, <2>6
<1>1. /\ mint' = [mint EXCEPT ![c] = m]
      /\ op' = [op EXCEPT ![r] = Record(c, "pending")]
      /\ head' = [head EXCEPT ![u] = Record(c, "pending")]
      /\ risk' = risk \cup {c}
      /\ active' = [active EXCEPT ![u] = now + Deadline]
      /\ UNCHANGED <<now, bound, marked, safe>>
  BY DEF Create
<1>2. \A d \in Mints : Reserved(d) => ReqOf(d) # r
  <2> SUFFICES ASSUME NEW d \in Mints, Reserved(d), ReqOf(d) = r PROVE FALSE
    OBVIOUS
  <2>1. InTime(stamp[r])
    BY DEF Create, Asked, Reserved
  <2> QED
    BY <1>0, <2>1, OpenKnows
<1>3. PICK t \in 0 .. MaxTime : InTime(t) /\ stamp'[r] = t /\ \A q \in Starts : q # r => stamp'[q] = stamp[q]
  <2>1. CASE Asked(r)
    BY <1>0, <2>1 DEF Create, AdmissionTypeOK
  <2>2. CASE ~Asked(r)
    BY <1>0, <2>2 DEF Create, AdmissionTypeOK
  <2> QED
    BY <2>1, <2>2
<1> HIDE DEF u
<1>4. /\ m \in MintType /\ m.req = r /\ m.issued = now /\ m.pc = "reserved"
      /\ Record(c, "pending") \in RecordType /\ Record(c, "pending").mint = c
      /\ Record(c, "pending").state = "pending"
  BY <1>0, AdmissionConstants DEF MintType, Record, RecordType, Mints
<1> HIDE DEF m
<1>5. AdmissionTypeOK'
  <2>1. stamp' \in [Starts -> 0 .. MaxTime]
    BY <1>0 DEF Create, AdmissionTypeOK
  <2>2. mint' \in [Mints -> MintType]
    BY <1>0, <1>1, <1>4 DEF AdmissionTypeOK
  <2>3. op' \in [Starts -> RecordType] /\ head' \in [Users -> RecordType]
    BY <1>0, <1>1, <1>4 DEF AdmissionTypeOK
  <2>4. active' \in [Users -> Nat]
    BY <1>0, <1>1, AdmissionConstants DEF AdmissionTypeOK
  <2>5. /\ risk' \in SUBSET Mints /\ now' \in 0 .. MaxTime /\ bound' \in SUBSET Mints
        /\ marked' \in BOOLEAN /\ safe' \in Nat
    BY <1>0, <1>1 DEF AdmissionTypeOK
  <2> QED
    BY <2>1, <2>2, <2>3, <2>4, <2>5 DEF AdmissionTypeOK
<1>6. ASSUME NEW d \in Mints
      PROVE  mint'[d] = IF d = c THEN m ELSE mint[d]
  BY <1>0, <1>1 DEF AdmissionTypeOK
<1>7. /\ ReqOf(c)' = r /\ Owner(c)' = u /\ Reserved(c)' /\ mint'[c].issued = now
      /\ DeadlineOf(c)' = now + Deadline /\ ExpiryOf(c)' = now + Life
  BY <1>4, <1>6 DEF ReqOf, Owner, Reserved, DeadlineOf, ExpiryOf, u
<1>8. ASSUME NEW d \in Mints, d # c
      PROVE  /\ ReqOf(d)' = ReqOf(d) /\ Owner(d)' = Owner(d) /\ (Reserved(d)' <=> Reserved(d))
             /\ DeadlineOf(d)' = DeadlineOf(d) /\ ExpiryOf(d)' = ExpiryOf(d)
             /\ mint'[d] = mint[d]
  BY <1>6, <1>8 DEF ReqOf, Owner, Reserved, DeadlineOf, ExpiryOf
<1>9. MintsOnce'
  <2> SUFFICES ASSUME NEW d \in Mints, NEW e \in Mints, Reserved(d)', Reserved(e)', ReqOf(d)' = ReqOf(e)'
               PROVE  d = e
    BY DEF MintsOnce, Reserved
  <2> QED
    BY <1>2, <1>7, <1>8 DEF AdmissionInv, MintsOnce, Reserved
<1>10. ASSUME NEW d \in Mints PROVE StampSound(d)' /\ Remembered(d)' /\ Leased(d)'
  <2>1. CASE d = c
    <3>1. StampSound(d)'
      BY <1>0, <1>1, <1>3, <1>7, <2>1 DEF StampSound, InTime
    <3>2. Remembered(d)'
      BY <1>0, <1>1, <1>4, <1>7, <2>1 DEF Remembered, AdmissionTypeOK
    <3>3. Leased(d)'
      BY <1>1, <2>1 DEF Leased
    <3> QED
      BY <3>1, <3>2, <3>3
  <2>2. CASE d # c
    <3>1. /\ StampSound(d) /\ Remembered(d) /\ Leased(d) /\ ReqOf(d) \in Starts
          /\ Reserved(d) => ReqOf(d) # r
      BY <1>0, <1>2, MintFields DEF AdmissionInv
    <3>2. StampSound(d)'
      BY <1>1, <1>3, <1>8, <2>2, <3>1 DEF StampSound
    <3>3. Remembered(d)'
      <4>1. Reserved(d) => op'[ReqOf(d)] = op[ReqOf(d)]
        BY <1>0, <1>1, <3>1 DEF AdmissionTypeOK
      <4> QED
        BY <1>1, <1>8, <2>2, <3>1, <4>1 DEF Remembered
    <3>4. Leased(d)'
      BY <1>1, <1>8, <2>2, <3>1 DEF Leased, Held
    <3> QED
      BY <3>2, <3>3, <3>4
  <2> QED
    BY <2>1, <2>2
<1>11. ASSUME NEW q \in Starts PROVE OpSound(q)'
  <2>1. op'[q] = IF q = r THEN Record(c, "pending") ELSE op[q]
    BY <1>0, <1>1 DEF AdmissionTypeOK
  <2>2. CASE q = r
    BY <1>4, <1>7, <2>1, <2>2 DEF OpSound
  <2>3. CASE q # r
    <3>1. Kept(op[q]) => op[q].mint \in Mints /\ Reserved(op[q].mint) /\ ReqOf(op[q].mint) = q
      BY <1>0 DEF AdmissionInv, OpSound, AdmissionTypeOK, RecordType, Kept, Mints
    <3>2. Kept(op[q]) => op[q].mint # c
      BY <1>0, <3>1
    <3> QED
      BY <1>8, <2>1, <2>3, <3>1, <3>2 DEF OpSound, Kept
  <2> QED
    BY <2>2, <2>3
<1>12. ASSUME NEW v \in Users PROVE HeadSound(v)'
  <2>1. CASE v = u
    <3>1. head'[v] = Record(c, "pending") /\ active'[v] = now + Deadline
      BY <1>0, <1>1, <2>1 DEF AdmissionTypeOK
    <3>2. DeadlineOf(c)' <= active'[v]
      BY <1>0, <1>7, <3>1, AdmissionConstants
    <3> QED
      BY <1>4, <1>7, <2>1, <3>1, <3>2 DEF HeadSound, IssuedNow
  <2>2. CASE v # u
    <3>1. head'[v] = head[v] /\ active'[v] = active[v] /\ HeadSound(v) /\ UNCHANGED now
      BY <1>0, <1>1, <2>2 DEF AdmissionTypeOK, AdmissionInv
    <3>2. CASE Kept(head[v])
      <4>1. PICK d \in Mints : d = head[v].mint /\ d = head'[v].mint
        BY <1>0, <3>1, <3>2 DEF AdmissionTypeOK, RecordType, Kept, Mints
      <4>2. d # c
        BY <1>0, <3>1, <3>2, <4>1 DEF HeadSound
      <4>3. /\ Owner(d)' = Owner(d) /\ (Reserved(d)' <=> Reserved(d))
            /\ DeadlineOf(d)' = DeadlineOf(d) /\ ExpiryOf(d)' = ExpiryOf(d)
        BY <1>8, <4>2
      <4> QED
        BY <3>1, <3>2, <4>1, <4>3 DEF HeadSound, PendingNow, IssuedNow, Kept
    <3>3. CASE ~Kept(head[v])
      BY <3>1, <3>3 DEF HeadSound, PendingNow, IssuedNow, Kept
    <3> QED
      BY <3>2, <3>3
  <2> QED
    BY <2>1, <2>2
<1>13. Limits'
  <2>1. Held' \subseteq risk \cup {c} /\ risk \subseteq Mints
    <3>1. Held \subseteq risk
      BY <1>0, OpenKnows
    <3> QED
      BY <1>0, <1>1, <1>8, <3>1 DEF Held, AdmissionTypeOK
  <2>2. Cardinality(Held') <= GlobalLimit
    <3>1. IsFiniteSet(risk) /\ Cardinality(risk) < GlobalLimit
      BY <1>0, <2>1, MintsFinite DEF Room
    <3>2. IsFiniteSet(risk \cup {c}) /\ Cardinality(risk \cup {c}) <= GlobalLimit
      BY <3>1, OneMore, AdmissionConstants
    <3> QED
      BY <2>1, <3>2, FewerAreFewer, AdmissionConstants
  <2>3. ASSUME NEW v \in Users PROVE Cardinality(Of(v, Held)') <= UserLimit
    <3>1. CASE v # u
      <4>1. Of(v, Held)' \subseteq Of(v, Held)
        <5>1. ASSUME NEW d \in Of(v, Held)' PROVE d \in Of(v, Held)
          <6>1. d \in Held' /\ Owner(d)' = v /\ d \in Mints
            BY DEF Of, Held
          <6>2. d # c
            BY <1>7, <3>1, <6>1
          <6> QED
            BY <1>1, <1>8, <6>1, <6>2 DEF Of, Held
        <5> QED
          BY <5>1
      <4>2. IsFiniteSet(Of(v, Held)) /\ Cardinality(Of(v, Held)) <= UserLimit
        BY MintsFinite DEF AdmissionInv, Limits, Of, Held
      <4> QED
        BY <4>1, <4>2, FewerAreFewer, AdmissionConstants
    <3>2. CASE v = u
      <4>1. Of(v, Held)' \subseteq Of(u, risk) \cup {c}
        <5>1. ASSUME NEW d \in Of(v, Held)', d # c PROVE d \in Of(u, risk)
          <6>1. d \in Held' /\ Owner(d)' = v /\ d \in Mints
            BY DEF Of, Held
          <6> QED
            BY <1>8, <2>1, <3>2, <5>1, <6>1 DEF Of
        <5> QED
          BY <5>1
      <4>2. IsFiniteSet(Of(u, risk)) /\ Cardinality(Of(u, risk)) < UserLimit
        <5>1. IsFiniteSet(Of(u, risk))
          BY <2>1, MintsFinite DEF Of
        <5>2. Cardinality(Of(u, risk)) \in Nat
          BY <5>1, FS_CardinalityType
        <5> QED
          BY <1>0, <5>1, <5>2, AdmissionConstants DEF Room
      <4>3. IsFiniteSet(Of(u, risk) \cup {c}) /\ Cardinality(Of(u, risk) \cup {c}) <= UserLimit
        BY <4>2, OneMore, AdmissionConstants
      <4> QED
        BY <4>1, <4>3, FewerAreFewer, AdmissionConstants
    <3> QED
      BY <3>1, <3>2
  <2>4. IsFiniteSet(ActiveUsers') /\ Cardinality(ActiveUsers') <= ActiveLimit
    <3>1. IsFiniteSet(ActiveUsers) /\ Cardinality(ActiveUsers) <= ActiveLimit
      BY DEF AdmissionInv, Limits
    <3>2. ActiveUsers' \subseteq ActiveUsers \cup {u}
      BY <1>0, <1>1 DEF ActiveUsers, AdmissionTypeOK
    <3>3. CASE u \in ActiveUsers
      BY <3>1, <3>2, <3>3, FewerAreFewer, AdmissionConstants
    <3>4. CASE u \notin ActiveUsers
      <4>1. Cardinality(ActiveUsers) < ActiveLimit
        BY <1>0, <3>4 DEF Room
      <4>2. IsFiniteSet(ActiveUsers \cup {u}) /\ Cardinality(ActiveUsers \cup {u}) <= ActiveLimit
        BY <3>1, <4>1, OneMore, AdmissionConstants
      <4> QED
        BY <3>2, <4>2, FewerAreFewer, AdmissionConstants
    <3> QED
      BY <3>3, <3>4
  <2> QED
    BY <2>2, <2>3, <2>4 DEF Limits
<1> QED
  BY <1>5, <1>9, <1>10, <1>11, <1>12, <1>13 DEF AdmissionInv

\* At first nothing was minted.
LEMMA AdmissionInitHolds == AdmissionAssumption /\ AdmissionInit => AdmissionInv
<1> SUFFICES ASSUME AdmissionAssumption, AdmissionInit
             PROVE  AdmissionInv
  OBVIOUS
<1>1. NoMint \in MintType /\ NoRecord \in RecordType /\ ~Kept(NoRecord) /\ NoMint.pc = "none"
  <2> DEFINE r == CHOOSE r \in Starts : TRUE
  <2>1. r \in Starts
    BY AdmissionConstants
  <2> HIDE DEF r
  <2>2. [pc |-> "none", req |-> r, issued |-> 0] \in MintType
    BY <2>1, AdmissionConstants DEF MintType
  <2> QED
    BY <2>2, AdmissionConstants DEF NoMint, NoRecord, RecordType, Kept, r
<1>2. AdmissionTypeOK
  BY <1>1, AdmissionConstants DEF AdmissionInit, AdmissionTypeOK
<1>3. \A c \in Mints : ~Reserved(c)
  BY <1>1 DEF AdmissionInit, Reserved
<1>4. Held = {}
  BY <1>3 DEF Held, Reserved
<1>5. \A c \in Mints : StampSound(c) /\ Remembered(c) /\ Leased(c)
  BY <1>3, <1>4 DEF StampSound, Remembered, Leased
<1>6. \A r \in Starts : OpSound(r)
  BY <1>1 DEF AdmissionInit, OpSound
<1>7. \A u \in Users : HeadSound(u)
  BY <1>1 DEF AdmissionInit, HeadSound, PendingNow, IssuedNow
<1>8. MintsOnce
  BY <1>3 DEF MintsOnce, Reserved
<1>9. ActiveUsers = {} /\ \A u \in Users : Of(u, Held) = {}
  BY <1>4 DEF AdmissionInit, ActiveUsers, Of
<1>10. Limits
  BY <1>4, <1>9, FS_EmptySet, AdmissionConstants DEF Limits
<1> QED
  BY <1>2, <1>5, <1>6, <1>7, <1>8, <1>10 DEF AdmissionInv

\* AdmissionInv is an invariant: while admission is open the ledger knows
\* every credential that may be out, and the record every request in time.
THEOREM AdmissionInvariant == AdmissionAssumption => (AdmissionSpec => []AdmissionInv)
<1> SUFFICES ASSUME AdmissionAssumption PROVE AdmissionSpec => []AdmissionInv
  OBVIOUS
<1>1. AdmissionInit => AdmissionInv
  BY AdmissionInitHolds
<1>2. AdmissionInv /\ [AdmissionNext]_admissionVars => AdmissionInv'
  <2> SUFFICES ASSUME AdmissionInv, [AdmissionNext]_admissionVars PROVE AdmissionInv'
    OBVIOUS
  <2>1. CASE \E c \in Mints, r \in Starts, rotation \in BOOLEAN :
                \E how \in {"fresh", "replace", "takeover"} : Create(c, r, how, rotation)
    BY <2>1, CreateKeeps
  <2>2. ASSUME NEW c \in Mints, Serve(c) PROVE AdmissionInv'
    BY <2>2, QuietKeeps, CompleteKeeps, FailKeeps, RetireKeeps DEF Serve
  <2>3. CASE (\E r \in Starts : Forget(r)) \/ Warm \/ Restart \/ Tick
    BY <2>3, ForgetKeeps, WarmKeeps, RestartKeeps, TickKeeps
  <2>4. CASE UNCHANGED admissionVars
    <3>1. UNCHANGED <<now, mint, stamp, op, head, risk, active, bound, marked, safe>>
      BY <2>4 DEF admissionVars
    <3>2. AdmissionTypeOK' /\ now \in Nat
      BY <3>1, ClockTyped DEF AdmissionInv, AdmissionTypeOK
    <3>3. Onward
      BY <3>1, <3>2 DEF Onward, Reserved, Held, ExpiryOf
    <3>4. \A u \in Users : HeadSound(u)'
      BY <3>1, <3>2, <3>3, HeadStays
    <3> QED
      BY <3>1, <3>2, <3>3, <3>4, RecordsKeep DEF ActiveUsers
  <2> QED
    BY <2>1, <2>2, <2>3, <2>4 DEF AdmissionNext
<1> QED
  BY <1>1, <1>2, PTL DEF AdmissionSpec

\* Every reachable state is well typed.
THEOREM AdmissionTyped == AdmissionAssumption => (AdmissionSpec => []AdmissionTypeOK)
<1>1. AdmissionInv => AdmissionTypeOK
  BY DEF AdmissionInv
<1> QED
  BY <1>1, AdmissionInvariant, PTL

\* MintsOnce: a request reserves one mint, also when the record of the first
\* has expired or was lost.
THEOREM RequestMintsOnce == AdmissionAssumption => (AdmissionSpec => []MintsOnce)
<1>1. AdmissionInv => MintsOnce
  BY DEF AdmissionInv
<1> QED
  BY <1>1, AdmissionInvariant, PTL

\* CredentialsBounded: no more credentials are out than the limits say, and no
\* more users have a session or are getting one.
THEOREM CredentialsLimited == AdmissionAssumption => (AdmissionSpec => []CredentialsBounded)
<1> SUFFICES ASSUME AdmissionAssumption PROVE AdmissionSpec => []CredentialsBounded
  OBVIOUS
<1>1. ASSUME AdmissionInv PROVE CredentialsBounded
  <2>1. Exposed \subseteq Held /\ \A u \in Users : Of(u, Exposed) \subseteq Of(u, Held)
    BY DEF Exposed, Held, Of
  <2>2. IsFiniteSet(Held) /\ \A u \in Users : IsFiniteSet(Of(u, Held))
    BY MintsFinite DEF Held, Of
  <2>3. /\ Limits /\ AdmissionTypeOK /\ \A u \in Users : HeadSound(u)
        /\ GlobalLimit \in Nat /\ UserLimit \in Nat /\ ActiveLimit \in Nat
    <3>1. GlobalLimit \in Nat /\ UserLimit \in Nat /\ ActiveLimit \in Nat
      BY AdmissionConstants
    <3> QED
      BY <1>1, <3>1 DEF AdmissionInv
  <2>4. Cardinality(Exposed) <= GlobalLimit
    BY <2>1, <2>2, <2>3, FewerAreFewer DEF Limits
  <2>5. \A u \in Users : Cardinality(Of(u, Exposed)) <= UserLimit
    BY <2>1, <2>2, <2>3, FewerAreFewer DEF Limits
  <2>6. Busy \subseteq ActiveUsers
    <3>1. ASSUME NEW u \in Busy PROVE active[u] # 0
      <4>1. /\ u \in Users /\ HeadSound(u) /\ head[u] \in RecordType
            /\ now \in Nat /\ active[u] \in Nat
        BY <2>3, ClockTyped DEF Busy
      <4>2. Kept(head[u]) /\ head[u].mint \in Mints
        BY <4>1, KeptMint DEF Busy, PendingNow, IssuedNow
      <4>3. DeadlineOf(head[u].mint) \in Nat /\ ExpiryOf(head[u].mint) \in Nat
        BY <2>3, <4>2, MintFields
      <4>4. CASE PendingNow(u)
        BY <4>1, <4>3, <4>4 DEF HeadSound, PendingNow
      <4>5. CASE IssuedNow(u)
        BY <4>1, <4>3, <4>5 DEF HeadSound, IssuedNow
      <4> QED
        BY <4>4, <4>5 DEF Busy
    <3> QED
      BY <3>1 DEF Busy, ActiveUsers
  <2>7. Cardinality(Busy) <= ActiveLimit
    BY <2>3, <2>6, FewerAreFewer DEF Limits
  <2> QED
    BY <2>4, <2>5, <2>7 DEF CredentialsBounded, Busy
<1> QED
  BY <1>1, AdmissionInvariant, PTL

==============================================================================
