----------------------------- MODULE RunProofs ------------------------------
(***************************************************************************)
(* Proofs about the two components of a run.  RunGate, for any finite set  *)
(* of requests and any maximum: its invariants are inductive once taken    *)
(* together with the type invariant.  RunStream, for runs of any length    *)
(* under either engine: its inductive invariant follows every message from *)
(* the engine over the queue to the client.                                *)
(***************************************************************************)
EXTENDS RunGate, RunStream, FiniteSetTheorems, TLAPS

Outage == LockExpires \/ SlotsExpire \/ MarkerExpires

\* A lesson run that strands leaves the semaphore alone, an ask the lesson.
LEMMA StrandType ==
  ASSUME TypeOK, NEW r \in Requests, Strand(r)
  PROVE  /\ drifted' \in BOOLEAN /\ stranded' \in SUBSET Lessons
         /\ r \in Lessons => drifted' = drifted /\ stranded' = stranded \cup {r}
         /\ r \in Asks => drifted' = TRUE /\ stranded' = stranded
<1> USE RequestsAssumption
<1>1. drifted' = (r \in Asks \/ drifted) /\ drifted \in BOOLEAN
  BY DEF Strand, TypeOK
<1>2. r \in Asks <=> r \notin Lessons
  BY DEF Requests
<1>3. drifted' \in BOOLEAN /\ (r \in Asks => drifted' = TRUE)
  BY <1>1, Zenon
<1>4. r \notin Asks => drifted' = drifted
  BY <1>1, Zenon
<1>5. /\ stranded' \in SUBSET Lessons
      /\ r \in Lessons => stranded' = stranded \cup {r}
      /\ r \notin Lessons => stranded' = stranded
  BY DEF Strand, TypeOK
<1> QED
  BY <1>2, <1>3, <1>4, <1>5

\* Every reachable state of the admission is well typed.
THEOREM TypeCorrect == Spec => []TypeOK
<1> USE RequestsAssumption DEF Requests, ThreadStates
<1>1. Init => TypeOK
  <2>1. Init => drifted \in BOOLEAN
    BY DEF Init
  <2> QED
    BY <2>1 DEF Init, TypeOK
<1>2. TypeOK /\ [Next]_vars => TypeOK'
  <2> SUFFICES ASSUME TypeOK, [Next]_vars PROVE TypeOK'
    OBVIOUS
  <2> USE DEF TypeOK, Goes
  <2>1. ASSUME NEW r \in Lessons, LessonStep(r) PROVE TypeOK'
    <3>1. CASE AcquireLock(r) \/ LockBusy(r)
      BY <3>1 DEF AcquireLock, LockBusy
    <3>2. CASE StartProducer(r) \/ Mark(r) \/ Refresh(r)
      BY <3>2 DEF StartProducer, Mark, Refresh
    <3>5. CASE \/ StartFails(r) \/ LoseAcquire(r) \/ LoseUnlock(r) \/ LoseClear(r)
               \/ WorkerDies(r)
      <4>1. Strand(r)
        BY <3>5 DEF StartFails, LoseAcquire, LoseUnlock, LoseClear, WorkerDies
      <4>2. drifted' \in BOOLEAN /\ stranded' \in SUBSET Lessons
        BY <4>1, StrandType
      <4> QED
        BY <3>5, <4>2
           DEF StartFails, LoseAcquire, LoseUnlock, LoseClear, WorkerDies, Unlocked
    <3>3. CASE ProducerEnds(r) \/ EndStream(r) \/ Join(r)
      BY <3>3 DEF ProducerEnds, EndStream, Join
    <3>4. CASE ReleaseLock(r) \/ ClearMarker(r)
      BY <3>4 DEF ReleaseLock, ClearMarker, Unlocked
    <3> QED
      BY <2>1, <3>1, <3>2, <3>3, <3>4, <3>5 DEF LessonStep
  <2>2. ASSUME NEW r \in Asks, AskStep(r) PROVE TypeOK'
    <3>1. CASE AcquireSlot(r) \/ SlotsFull(r) \/ StartProducer(r) \/ Mark(r)
      BY <3>1 DEF AcquireSlot, SlotsFull, StartProducer, Mark
    <3>2. CASE FailOpen(r) \/ StartFails(r) \/ LoseRelease(r) \/ WorkerDies(r)
      <4>1. Strand(r)
        BY <3>2 DEF FailOpen, StartFails, LoseRelease, WorkerDies
      <4>2. drifted' \in BOOLEAN /\ stranded' \in SUBSET Lessons
        BY <4>1, StrandType
      <4> QED
        BY <3>2, <4>2 DEF FailOpen, StartFails, LoseRelease, WorkerDies, SlotGivenBack
    <3>3. CASE ProducerEnds(r) \/ EndStream(r) \/ Join(r)
      BY <3>3 DEF ProducerEnds, EndStream, Join
    <3>4. CASE ReleaseSlot(r)
      BY <3>4 DEF ReleaseSlot, SlotGivenBack
    <3> QED
      BY <2>2, <3>1, <3>2, <3>3, <3>4 DEF AskStep
  <2>3. CASE Outage
    <3>1. drifted' \in BOOLEAN
      BY <2>3 DEF Outage, LockExpires, SlotsExpire, MarkerExpires
    <3> QED
      BY <2>3, <3>1 DEF Outage, LockExpires, SlotsExpire, MarkerExpires
  <2>4. CASE UNCHANGED vars
    BY <2>4 DEF vars
  <2> QED
    BY <2>1, <2>2, <2>3, <2>4 DEF Next, Outage
<1> QED
  BY <1>1, <1>2, PTL DEF Spec

------------------------------------------------------------------------------
(* The lesson lock and the running marker.                                 *)

\* A step of one request moves no other request's thread.
LEMMA OthersStay ==
  ASSUME TypeOK, NEW r \in Requests, NEW s \in Requests, s # r,
         LessonStep(r) \/ AskStep(r)
  PROVE  thread'[s] = thread[s]
<1> USE DEF TypeOK, Goes
<1>1. CASE LessonStep(r)
  BY <1>1 DEF LessonStep, AcquireLock, LockBusy, LoseAcquire, StartProducer, StartFails,
              Mark, Refresh, ProducerEnds, EndStream, Join, ReleaseLock, LoseUnlock,
              ClearMarker, LoseClear, WorkerDies
<1>2. CASE AskStep(r)
  BY <1>2 DEF AskStep, AcquireSlot, SlotsFull, FailOpen, StartProducer, StartFails, Mark,
              ProducerEnds, EndStream, Join, ReleaseSlot, LoseRelease, WorkerDies
<1> QED
  BY <1>1, <1>2

\* An ask neither frees nor takes the lock, and leaves the marker alone.
LEMMA AskStepLeavesLesson ==
  ASSUME NEW r \in Asks, AskStep(r)
  PROVE  UNCHANGED <<lock, marker, expired, stranded>>
BY RequestsAssumption
   DEF AskStep, AcquireSlot, SlotsFull, FailOpen, StartProducer, StartFails, Mark,
       ProducerEnds, EndStream, Join, ReleaseSlot, LoseRelease, WorkerDies, Strand

\* A lesson run owns the lock until it releases it or its time runs out.
THEOREM LockKept == Spec => []LockHeldUntilReleased
<1> USE RequestsAssumption DEF Requests, Holding, Admitted
<1>1. Init => LockHeldUntilReleased
  BY DEF Init, LockHeldUntilReleased
<1>2. TypeOK /\ LockHeldUntilReleased /\ [Next]_vars => LockHeldUntilReleased'
  <2> SUFFICES ASSUME TypeOK, LockHeldUntilReleased, [Next]_vars
               PROVE  LockHeldUntilReleased'
    OBVIOUS
  <2> USE DEF LockHeldUntilReleased
  <2>1. ASSUME NEW r \in Lessons, LessonStep(r) PROVE LockHeldUntilReleased'
    <3>1. \A s \in Lessons : s # r => thread'[s] = thread[s]
      BY <2>1, OthersStay
    <3>2. CASE AcquireLock(r)
      BY <3>1, <3>2 DEF AcquireLock, Goes, TypeOK
    <3>3. CASE ReleaseLock(r) \/ LoseUnlock(r)
      <4>1. lock' \in {lock, Unlocked(r)} /\ expired' = expired
        BY <3>3 DEF ReleaseLock, LoseUnlock
      <4>2. thread'[r] = "clearing"
        BY <3>3 DEF ReleaseLock, LoseUnlock, Goes, TypeOK
      <4> QED
        BY <3>1, <4>1, <4>2 DEF Unlocked
    <3>6. CASE LoseAcquire(r)
      <4>1. expired' = expired /\ (lock = NoRun \/ lock' = lock) /\ thread'[r] = "aborted"
        BY <3>6 DEF LoseAcquire, Goes, TypeOK
      <4> QED
        BY <3>1, <4>1
    <3>4. CASE \/ LockBusy(r) \/ StartFails(r) \/ ClearMarker(r) \/ LoseClear(r)
               \/ ProducerEnds(r) \/ WorkerDies(r)
      BY <3>1, <3>4 DEF LockBusy, StartFails, ClearMarker, LoseClear, ProducerEnds,
                        WorkerDies, Goes, TypeOK
    <3>5. CASE StartProducer(r) \/ Mark(r) \/ Refresh(r) \/ EndStream(r) \/ Join(r)
      <4>1. /\ thread[r] \in Admitted
            /\ UNCHANGED <<lock, expired>>
        BY <3>5 DEF StartProducer, Mark, Refresh, EndStream, Join, Goes
      <4> QED
        BY <3>1, <4>1
    <3> QED
      BY <2>1, <3>2, <3>3, <3>4, <3>5, <3>6 DEF LessonStep
  <2>2. ASSUME NEW r \in Asks, AskStep(r) PROVE LockHeldUntilReleased'
    <3>1. \A s \in Lessons : thread'[s] = thread[s]
      BY <2>2, OthersStay
    <3> QED
      BY <2>2, <3>1, AskStepLeavesLesson
  <2>3. CASE Outage
    BY <2>3 DEF Outage, LockExpires, SlotsExpire, MarkerExpires
  <2>4. CASE UNCHANGED vars
    BY <2>4 DEF vars
  <2> QED
    BY <2>1, <2>2, <2>3, <2>4 DEF Next, Outage
<1> QED
  BY <1>1, <1>2, TypeCorrect, PTL DEF Spec

\* Each key of a lesson was written by a run that is still to clear it, or
\* that a fault kept from doing so.
THEOREM KeysOwned == Spec => []KeysHaveARun
<1> USE RequestsAssumption DEF Requests
<1> DEFINE CanClear == {"streaming", "stopping", "releasing", "clearing"}
<1>1. Init => KeysHaveARun
  BY DEF Init, KeysHaveARun
<1>2. TypeOK /\ KeysHaveARun /\ [Next]_vars => KeysHaveARun'
  <2> SUFFICES ASSUME TypeOK, KeysHaveARun, [Next]_vars
               PROVE  KeysHaveARun'
    OBVIOUS
  <2> USE DEF KeysHaveARun
  <2>1. ASSUME NEW r \in Lessons, LessonStep(r)
        PROVE  KeysHaveARun'
    <3>1. \A s \in Lessons : s # r => thread'[s] = thread[s]
      BY <2>1, OthersStay
    <3>2. lock \in Lessons \cup {NoRun} /\ marker \in Lessons \cup {NoRun}
      BY DEF TypeOK
    <3>3. CASE Mark(r) \/ Refresh(r)
      <4>1. /\ marker' = r /\ UNCHANGED <<lock, stranded>>
            /\ thread'[r] = "streaming" /\ thread[r] \in Admitted
        BY <3>3 DEF Mark, Refresh, Goes, TypeOK, Admitted
      <4> QED
        BY <3>1, <3>2, <4>1 DEF Admitted
    <3>4. CASE AcquireLock(r)
      <4>1. /\ lock' = r /\ UNCHANGED <<marker, stranded>>
            /\ thread'[r] = "admitted" /\ thread[r] = "new"
        BY <3>4 DEF AcquireLock, Goes, TypeOK
      <4> QED
        BY <3>1, <3>2, <4>1 DEF Admitted
    <3>5. CASE \/ StartFails(r) \/ LoseAcquire(r) \/ LoseUnlock(r) \/ LoseClear(r)
               \/ WorkerDies(r)
      <4>1. Strand(r) /\ marker' = marker /\ lock' \in {lock, r, NoRun}
        BY <3>5 DEF StartFails, LoseAcquire, LoseUnlock, LoseClear, WorkerDies, Unlocked
      <4>2. stranded' = stranded \cup {r}
        BY <4>1, StrandType
      <4> QED
        BY <3>1, <3>2, <4>1, <4>2
    <3>6. CASE ReleaseLock(r)
      <4>1. /\ lock' = Unlocked(r) /\ UNCHANGED <<marker, stranded>>
            /\ thread'[r] = "clearing" /\ thread[r] = "releasing"
        BY <3>6 DEF ReleaseLock, Goes, TypeOK
      <4> QED
        BY <3>1, <3>2, <4>1 DEF Unlocked
    <3>7. CASE ClearMarker(r)
      <4>1. /\ marker' = NoRun /\ UNCHANGED <<lock, stranded>>
            /\ thread[r] = "clearing"
        BY <3>7 DEF ClearMarker, Goes, TypeOK
      <4> QED
        BY <3>1, <3>2, <4>1 DEF Admitted
    <3>8. CASE \/ LockBusy(r) \/ StartProducer(r) \/ ProducerEnds(r) \/ EndStream(r)
               \/ Join(r)
      <4>1. /\ UNCHANGED <<lock, marker, stranded>>
            /\ thread[r] \in CanClear => thread'[r] \in CanClear
            /\ thread[r] \in Admitted => thread'[r] \in Admitted
        BY <3>8 DEF LockBusy, StartProducer, ProducerEnds, EndStream, Join, Goes, TypeOK,
                    Admitted
      <4> QED
        BY <3>1, <3>2, <4>1
    <3> QED
      BY <2>1, <3>3, <3>4, <3>5, <3>6, <3>7, <3>8 DEF LessonStep
  <2>2. ASSUME NEW r \in Asks, AskStep(r)
        PROVE  KeysHaveARun'
    <3>1. \A s \in Lessons : thread'[s] = thread[s]
      BY <2>2, OthersStay
    <3>2. lock \in Lessons \cup {NoRun} /\ marker \in Lessons \cup {NoRun}
      BY DEF TypeOK
    <3> QED
      BY <2>2, <3>1, <3>2, AskStepLeavesLesson
  <2>3. CASE Outage
    BY <2>3 DEF Outage, LockExpires, SlotsExpire, MarkerExpires
  <2>4. CASE UNCHANGED vars
    BY <2>4 DEF vars
  <2> QED
    BY <2>1, <2>2, <2>3, <2>4 DEF Next, Outage
<1> QED
  BY <1>1, <1>2, TypeCorrect, PTL DEF Spec

\* No step of an ask touches the lesson's lock or marker.
THEOREM AskKeepsApart == Spec => AskLeavesLessonAlone
<1>1. TypeOK /\ [Next]_vars =>
        [\A r \in Asks : thread'[r] # thread[r] => UNCHANGED <<lock, marker>>]_vars
  <2> SUFFICES ASSUME TypeOK, Next, NEW r \in Asks, thread'[r] # thread[r]
               PROVE  UNCHANGED <<lock, marker>>
    OBVIOUS
  <2> USE RequestsAssumption DEF Requests
  <2>1. ASSUME NEW s \in Lessons, LessonStep(s) PROVE UNCHANGED <<lock, marker>>
    BY <2>1, OthersStay
  <2>2. ASSUME NEW s \in Asks, AskStep(s) PROVE UNCHANGED <<lock, marker>>
    BY <2>2, AskStepLeavesLesson
  <2>3. CASE Outage
    BY <2>3 DEF Outage, LockExpires, SlotsExpire, MarkerExpires
  <2> QED
    BY <2>1, <2>2, <2>3 DEF Next, Outage
<1> QED
  BY <1>1, TypeCorrect, PTL DEF Spec, AskLeavesLessonAlone

------------------------------------------------------------------------------
(* The semaphore of the asks.                                              *)

\* How a step of an ask moves the set of admitted asks.
LEMMA HoldingMoves ==
  ASSUME TypeOK, NEW r \in Asks, AskStep(r)
  PROVE  /\ AcquireSlot(r) => /\ r \notin Holding(Asks)
                              /\ Holding(Asks)' = Holding(Asks) \cup {r}
         /\ ReleaseSlot(r) => /\ r \in Holding(Asks)
                              /\ Holding(Asks)' = Holding(Asks) \ {r}
         /\ \/ AcquireSlot(r) \/ ReleaseSlot(r) \/ drifted' = TRUE
            \/ Holding(Asks)' = Holding(Asks) /\ UNCHANGED <<slots, drifted>>
<1> USE RequestsAssumption DEF Requests, Holding, Admitted
<1>1. \A s \in Asks : s # r => thread'[s] = thread[s]
  BY OthersStay
<1>2. ASSUME AcquireSlot(r)
      PROVE  r \notin Holding(Asks) /\ Holding(Asks)' = Holding(Asks) \cup {r}
  BY <1>1, <1>2 DEF AcquireSlot, Goes, TypeOK
<1>3. ASSUME ReleaseSlot(r)
      PROVE  r \in Holding(Asks) /\ Holding(Asks)' = Holding(Asks) \ {r}
  BY <1>1, <1>3 DEF ReleaseSlot, Goes, TypeOK
<1>4. CASE FailOpen(r) \/ StartFails(r) \/ LoseRelease(r) \/ WorkerDies(r)
  <2>1. drifted' = TRUE
    BY <1>4, StrandType DEF FailOpen, StartFails, LoseRelease, WorkerDies
  <2> QED
    BY <1>2, <1>3, <2>1
<1>5. CASE ~(\/ AcquireSlot(r) \/ ReleaseSlot(r)
            \/ FailOpen(r) \/ StartFails(r) \/ LoseRelease(r) \/ WorkerDies(r))
  <2>1. UNCHANGED <<slots, drifted>>
    BY <1>5 DEF AskStep, SlotsFull, StartProducer, Mark, ProducerEnds, EndStream, Join
  <2>2. thread[r] \in Admitted <=> thread'[r] \in Admitted
    BY <1>5 DEF AskStep, SlotsFull, StartProducer, Mark, ProducerEnds, EndStream,
                Join, Goes, TypeOK
  <2> QED
    BY <1>1, <1>5, <2>1, <2>2
<1> QED
  BY <1>2, <1>3, <1>4, <1>5

\* The semaphore counts the admitted asks exactly and stays within its
\* maximum until an outage disturbs it.
THEOREM SlotsExact == Spec => []AskSlotsExact
<1> USE RequestsAssumption
<1>1. Init => AskSlotsExact
  <2> SUFFICES ASSUME Init PROVE slots = Cardinality(Holding(Asks)) /\ slots <= MaxAsks
    BY DEF AskSlotsExact
  <2>1. Holding(Asks) = {}
    BY DEF Init, Holding, Admitted, Requests
  <2> QED
    BY <2>1, FS_EmptySet DEF Init
<1>2. TypeOK /\ AskSlotsExact /\ [Next]_vars => AskSlotsExact'
  <2> SUFFICES ASSUME TypeOK, AskSlotsExact, [Next]_vars, ~drifted'
               PROVE  slots' = Cardinality(Holding(Asks)') /\ slots' <= MaxAsks
    BY DEF AskSlotsExact
  <2>1. IsFiniteSet(Holding(Asks)) /\ Cardinality(Holding(Asks)) \in Nat /\ slots \in Nat
    <3>1. Holding(Asks) \subseteq Requests
      BY DEF Holding, Requests
    <3> QED
      BY <3>1, FS_Subset, FS_CardinalityType DEF TypeOK
  <2>2. CASE Holding(Asks)' = Holding(Asks) /\ UNCHANGED <<slots, drifted>>
    BY <2>2 DEF AskSlotsExact
  <2>3. ASSUME NEW r \in Asks, AskStep(r)
        PROVE  slots' = Cardinality(Holding(Asks)') /\ slots' <= MaxAsks
    <3>1. CASE AcquireSlot(r)
      <4>1. Cardinality(Holding(Asks) \cup {r}) = Cardinality(Holding(Asks)) + 1
        BY <2>1, <2>3, <3>1, HoldingMoves, FS_AddElement
      <4>2. Holding(Asks)' = Holding(Asks) \cup {r}
        BY <2>3, <3>1, HoldingMoves
      <4>3. ~drifted
        BY <3>1 DEF AcquireSlot
      <4>4. slots = Cardinality(Holding(Asks))
        BY <4>3 DEF AskSlotsExact
      <4>5. slots < MaxAsks /\ slots' = slots + 1
        BY <3>1 DEF AcquireSlot
      <4> QED
        BY <2>1, <4>1, <4>2, <4>4, <4>5
    <3>2. CASE ReleaseSlot(r)
      <4>1. Cardinality(Holding(Asks) \ {r}) = Cardinality(Holding(Asks)) - 1
        BY <2>1, <2>3, <3>2, HoldingMoves, FS_RemoveElement
      <4>2. IsFiniteSet(Holding(Asks) \ {r})
        BY <2>1, FS_Subset
      <4>3. Cardinality(Holding(Asks)) > 0
        BY <2>1, <4>1, <4>2, FS_CardinalityType
      <4>4. Holding(Asks)' = Holding(Asks) \ {r}
        BY <2>3, <3>2, HoldingMoves
      <4>5. ~drifted
        BY <3>2 DEF ReleaseSlot
      <4>6. slots = Cardinality(Holding(Asks)) /\ slots <= MaxAsks
        BY <4>5 DEF AskSlotsExact
      <4>7. slots' = slots - 1
        BY <2>1, <3>2, <4>3, <4>6 DEF ReleaseSlot, SlotGivenBack
      <4> QED
        BY <2>1, <4>1, <4>4, <4>6, <4>7
    <3> QED
      BY <2>2, <2>3, <3>1, <3>2, HoldingMoves
  <2>4. ASSUME NEW r \in Lessons, LessonStep(r)
        PROVE  Holding(Asks)' = Holding(Asks) /\ UNCHANGED <<slots, drifted>>
    <3>1. \A s \in Asks : thread'[s] = thread[s]
      BY <2>4, OthersStay DEF Requests
    <3>2. CASE \/ StartFails(r) \/ LoseAcquire(r) \/ LoseUnlock(r) \/ LoseClear(r)
               \/ WorkerDies(r)
      <4>1. Strand(r) /\ slots' = slots
        BY <3>2 DEF StartFails, LoseAcquire, LoseUnlock, LoseClear, WorkerDies
      <4>2. drifted' = drifted
        BY <4>1, StrandType DEF Requests
      <4> QED
        BY <3>1, <4>1, <4>2 DEF Holding
    <3>3. CASE ~(\/ StartFails(r) \/ LoseAcquire(r) \/ LoseUnlock(r) \/ LoseClear(r)
                 \/ WorkerDies(r))
      <4>1. UNCHANGED <<slots, drifted>>
        BY <2>4, <3>3
           DEF LessonStep, AcquireLock, LockBusy, StartProducer, Mark, Refresh,
               ProducerEnds, EndStream, Join, ReleaseLock, ClearMarker, Requests
      <4> QED
        BY <3>1, <4>1 DEF Holding
    <3> QED
      BY <3>2, <3>3
  <2>5. CASE Outage
    BY <2>2, <2>5 DEF Outage, LockExpires, SlotsExpire, MarkerExpires, Holding
  <2>6. CASE UNCHANGED vars
    BY <2>2, <2>6 DEF vars, Holding
  <2> QED
    BY <2>2, <2>3, <2>4, <2>5, <2>6 DEF Next, Outage
<1> QED
  BY <1>1, <1>2, TypeCorrect, PTL DEF Spec

------------------------------------------------------------------------------
(* The stream of a run: its inductive invariant.                           *)

\* The producer has not begun to close its generator.
Working == producer \in {"none", "engine", "yielded", "passed"}

\* The request thread still reads the queue; it has turned to its end.
Listening == consumer \in {"poll", "sleep", "beat", "send"}
Left == consumer \in {"finally", "joining", "closed"}

StreamTyped == StreamTypeOK /\ (consumer = "send" => hand # DoneMark)

\* What the engine has yielded is numbered; a readiness event and the DONE
\* follow a commit of all before them, and nothing follows the DONE.
EngineSound ==
    /\ \A i \in 1 .. Len(made) :
          /\ made[i][2] = i
          /\ made[i][1] = "ready" => Committed(i)
          /\ made[i][1] = "fin" =>
                i = Len(made) /\ gen = "over" /\ Committed(i) /\ ~failed
    /\ gen \in {"reloadReady", "ready"} => Committed(Len(made))
    /\ Working /\ gen = "over" => made # <<>> /\ made[Len(made)][1] = "fin"
    /\ producer = "none" => made = <<>>
    /\ producer \in {"yielded", "passed"} => made # <<>>

\* How the producer ended, and what becomes of its connection.
ProducerSound ==
    /\ Working => ~failed /\ ~exhausted /\ ~dirty /\ conn = "out"
    /\ conn = "pooled" => ~dirty
    /\ conn = "out" /\ dirty => ~exhausted \/ failed
    /\ ~stop /\ ~Working => exhausted = ~failed
    /\ ~stop /\ exhausted => Committed(Len(made)) /\ gen = "over"

\* Once stopped, the engine is resumed for one message, which is not passed on.
StopSound ==
    /\ stop => Left
    /\ \/ late = 0
       \/ late = 1 /\ stop /\ producer \in {"yielded", "closing", "ended"}

\* The producer has put n messages, of which the request thread took t.
Counts(n, t) ==
    /\ t <= n
    /\ n \in {Len(made), Len(made) - 1}
    /\ producer \in {"none", "engine"} => n = Len(made)
    /\ producer \in {"yielded", "passed"} => n = Len(made) - 1
    /\ ~stop /\ ~Working => n = Len(made)

\* The queue holds the other n - t of them, then an error, then the mark.
Queued(n, t) ==
    /\ Len(queue) >= n - t
    /\ \A i \in 1 .. Len(queue) :
          /\ i <= n - t => queue[i] = made[t + i]
          /\ i > n - t => queue[i] \in {Error, DoneMark}
          /\ queue[i] = DoneMark => i = Len(queue) /\ producer = "ended"
          /\ queue[i] = Error => failed /\ i = n - t + 1
    /\ Listening /\ failed => Len(queue) > n - t /\ queue[n - t + 1] = Error

Ours(m) == m \notin {Error, Fin}

\* What the client took is among the first t messages, in their order ...
Sent(t) ==
    /\ \A i \in 1 .. Len(sent) :
          Ours(sent[i]) =>
              /\ sent[i][2] \in 1 .. t
              /\ sent[i] = made[sent[i][2]]
              /\ sent[i][1] # "quiet"
              /\ consumer = "send" => sent[i][2] < t
    /\ \A i, j \in 1 .. Len(sent) :
          i < j /\ Ours(sent[i]) /\ Ours(sent[j]) => sent[i][2] < sent[j][2]
    /\ consumer = "send" => t > 0 /\ hand = made[t] /\ hand[1] # "quiet"

\* ... and all of those it was to see, but the one at hand.
Took(k) == made[k][1] = "quiet" \/ \E i \in 1 .. Len(sent) : sent[i] = made[k]
Complete(t) ==
    Listening \/ (consumer = "tellDone" /\ ~Told("error"))
    => \A k \in 1 .. t : Took(k) \/ (consumer = "send" /\ k = t)

\* At its end the stream is drained.
Drained(n, t) ==
    /\ Listening /\ Told("fin") => t = Len(made) /\ consumer # "send"
    /\ consumer = "tellDone" /\ ~Told("error") =>
          producer = "ended" /\ queue = <<>> /\ ~failed /\ t = n

Flow(n, t) == Counts(n, t) /\ Queued(n, t) /\ Sent(t) /\ Complete(t) /\ Drained(n, t)

\* What the learner has been told by the time the stream ends.
EndSound ==
    /\ producer = "none" => consumer \in {"tellError", "tellDone", "closed"}
    /\ consumer = "tellError" =>
          ~Told("fin") /\ ~Told("error") /\ (producer = "none" \/ failed)
    /\ Told("error") =>
          /\ consumer = "tellDone" \/ Left
          /\ producer = "none" \/ failed
    /\ Told("error") /\ consumer = "tellDone" =>
          /\ ~Told("fin")
          /\ \A i \in 1 .. Len(sent) : sent[i][1] = "error" => i = Len(sent)
    /\ producer = "none" /\ consumer = "tellDone" => Told("error")
    /\ Told("fin") /\ (failed \/ producer = "none") => Told("error")
    /\ Told("fin") /\ ~Told("error") => gen = "over"

StreamIInv ==
    /\ StreamTyped
    /\ EngineSound
    /\ ProducerSound
    /\ StopSound
    /\ \E n, t \in Nat : Flow(n, t)
    /\ EndSound
    /\ StreamShape
    /\ DoneMeansDelivered

Step == StreamNext \/ UNCHANGED streamVars

------------------------------------------------------------------------------
\* Adding a message at the end of a sequence and taking one from its front.
LEMMA Appended ==
    ASSUME NEW S, NEW s \in Seq(S), NEW e \in S
    PROVE  /\ Append(s, e) \in Seq(S)
           /\ Len(s) \in Nat
           /\ Len(Append(s, e)) = Len(s) + 1
           /\ Append(s, e)[Len(s) + 1] = e
           /\ \A i \in 1 .. Len(s) : Append(s, e)[i] = s[i]
OBVIOUS

LEMMA Taken ==
    ASSUME NEW S, NEW s \in Seq(S), s # <<>>
    PROVE  /\ Head(s) \in S /\ Head(s) = s[1]
           /\ Tail(s) \in Seq(S)
           /\ Len(s) \in Nat /\ Len(s) >= 1
           /\ Len(Tail(s)) = Len(s) - 1
           /\ \A i \in 1 .. Len(s) - 1 : Tail(s)[i] = s[i + 1]
OBVIOUS

\* The three marks are no messages of the engine.
LEMMA MarksApart ==
    ASSUME NEW m \in Kinds \X (1 .. MaxItems)
    PROVE  /\ m \notin {Error, Fin, DoneMark}
           /\ m[1] \in Kinds
           /\ m \in Messages
BY StreamAssumption DEF Error, Fin, DoneMark, Kinds, Messages

LEMMA MarkKinds ==
    /\ Error[1] = "error" /\ Fin[1] = "fin" /\ DoneMark[1] = "done"
    /\ Error # Fin /\ Error # DoneMark /\ Fin # DoneMark
BY DEF Error, Fin, DoneMark

\* What can be in the queue and is not an error or a mark is a message.
LEMMA MessageKinds ==
    ASSUME NEW m \in Messages
    PROVE  /\ m # DoneMark
           /\ m[1] \in Kinds \cup {"error"}
           /\ m[1] = "error" <=> m = Error
BY StreamAssumption DEF Messages, Error, Fin, DoneMark, Kinds

\* The engine yields a message.
LEMMA YieldTyped ==
    ASSUME StreamTyped, NEW kind \in Kinds, Yield(kind), gen' \in GenStates
    PROVE  StreamTyped'
<1> DEFINE m == <<kind, Len(made) + 1>>
<1>1. Len(made) + 1 \in 1 .. MaxItems
  BY StreamAssumption DEF Yield, StreamTyped, StreamTypeOK
<1>2. m \in Kinds \X (1 .. MaxItems)
  BY <1>1
<1>3. made \in Seq(Kinds \X (1 .. MaxItems)) /\ durable \in 0 .. Len(made)
  BY DEF StreamTyped, StreamTypeOK
<1>4. made' = Append(made, m) /\ durable' = durable
  BY DEF Yield
<1> HIDE DEF m
<1>5. made' \in Seq(Kinds \X (1 .. MaxItems)) /\ durable' \in 0 .. Len(made')
  BY <1>2, <1>3, <1>4, Appended
<1>6. late' \in Nat
  BY DEF Yield, StreamTyped, StreamTypeOK
<1>7. producer' \in ProducerStates
  BY DEF Yield, ProducerStates
<1> QED
  BY <1>5, <1>6, <1>7
     DEF Yield, StreamTyped, StreamTypeOK, consumerVars

\* The producer queues a message or a mark.
LEMMA QueueTyped ==
    ASSUME StreamTyped, NEW m \in Messages \cup {DoneMark}
    PROVE  Append(queue, m) \in Seq(Messages \cup {DoneMark})
BY DEF StreamTyped, StreamTypeOK

\* Every reachable state of a stream is well typed.
LEMMA StepTyped ==
    ASSUME StreamTyped, Step, producer \in {"yielded", "passed"} => made # <<>>
    PROVE  StreamTyped'
<1> USE DEF engineVars, producerVars, consumerVars
<1>1. CASE YieldItem
  <2>1. PICK kind \in {"data", "quiet"} : Yield(kind)
    BY <1>1 DEF YieldItem
  <2> QED
    BY <1>1, <2>1, YieldTyped DEF YieldItem, Kinds, StreamTyped, StreamTypeOK
<1>2. CASE YieldReady
  BY <1>2, YieldTyped DEF YieldReady, Kinds, StreamTyped, StreamTypeOK
<1>3. CASE YieldFin
  BY <1>3, YieldTyped DEF YieldFin, Kinds, GenStates
<1>4. CASE Commit
  <2>1. Len(made) \in Nat
    BY DEF StreamTyped, StreamTypeOK
  <2> QED
    BY <1>4, <2>1 DEF Commit, StreamTyped, StreamTypeOK, GenStates
<1>5. CASE EndReload
  BY <1>5 DEF EndReload, StreamTyped, StreamTypeOK, GenStates
<1>6. CASE Exhaust
  BY <1>6 DEF Exhaust, StreamTyped, StreamTypeOK, GenStates, ProducerStates
<1>7. CASE Cancel
  BY <1>7 DEF Cancel, StreamTyped, StreamTypeOK, GenStates, ProducerStates
<1>8. CASE FallBack
  BY <1>8 DEF FallBack, StreamTyped, StreamTypeOK
<1>9. CASE EngineFails \/ BudgetExceeded
  <2>1. Append(queue, Error) \in Seq(Messages \cup {DoneMark})
    BY QueueTyped DEF Messages
  <2>2. queue' \in Seq(Messages \cup {DoneMark})
    BY <1>9, <2>1 DEF EngineFails, BudgetExceeded, Fail, StreamTyped, StreamTypeOK
  <2>3. durable' \in 0 .. Len(made) /\ made' = made
    BY <1>9 DEF EngineFails, BudgetExceeded, Fail, StreamTyped, StreamTypeOK
  <2>4. conn' \in {"out", "pooled", "discarded"} /\ dirty' \in BOOLEAN
    BY <1>9 DEF EngineFails, BudgetExceeded, StreamTyped, StreamTypeOK
  <2>5. failed' \in BOOLEAN /\ producer' \in ProducerStates
    BY <1>9 DEF EngineFails, BudgetExceeded, Fail, ProducerStates
  <2>6. UNCHANGED <<engine, late, made, gen, exhausted, consumerVars, stop>>
    BY <1>9 DEF EngineFails, BudgetExceeded, Fail
  <2> QED
    BY <2>2, <2>3, <2>4, <2>5, <2>6 DEF StreamTyped, StreamTypeOK
<1>10. CASE PassStopTest
  BY <1>10 DEF PassStopTest, StreamTyped, StreamTypeOK, ProducerStates
<1>11. CASE Put
  <2>1. made[Len(made)] \in Kinds \X (1 .. MaxItems)
    BY <1>11 DEF Put, StreamTyped, StreamTypeOK
  <2>2. Append(queue, Last(made)) \in Seq(Messages \cup {DoneMark})
    BY <2>1, QueueTyped, MarksApart DEF Last
  <2> QED
    BY <1>11, <2>2 DEF Put, StreamTyped, StreamTypeOK, ProducerStates
<1>12. CASE Break
  BY <1>12 DEF Break, StreamTyped, StreamTypeOK, GenStates, ProducerStates
<1>13. CASE Close
  <2>1. Append(queue, DoneMark) \in Seq(Messages \cup {DoneMark})
    BY QueueTyped
  <2>2. conn' \in {"out", "pooled", "discarded"}
    BY <1>13 DEF Close, StreamTyped, StreamTypeOK
  <2> QED
    BY <1>13, <2>1, <2>2 DEF Close, StreamTyped, StreamTypeOK, ProducerStates
<1>14. CASE Take
  <2>1. Head(queue) \in Messages \cup {DoneMark} /\ Tail(queue) \in Seq(Messages \cup {DoneMark})
    BY <1>14, Taken DEF Take, StreamTyped, StreamTypeOK
  <2>2. consumer' \in {"poll", "tellError", "tellDone", "send"}
    BY <1>14 DEF Take, Dispatch
  <2>3. consumer' = "send" => Head(queue) # DoneMark
    BY <1>14, MarkKinds DEF Take, Dispatch
  <2>4. consumer' \in ConsumerStates
    BY <2>2 DEF ConsumerStates
  <2> QED
    BY <1>14, <2>1, <2>3, <2>4 DEF Take, StreamTyped, StreamTypeOK
<1>15. CASE Idle \/ EnterFinally \/ JoinProducer \/ AcceptBeat \/ Leave \/ LeaveAtEnd
  <2>1. consumer' \in ConsumerStates /\ consumer' # "send"
    BY <1>15
       DEF Idle, EnterFinally, JoinProducer, AcceptBeat, Leave, LeaveAtEnd, Leaving, ConsumerStates
  <2>2. stop' \in BOOLEAN
    BY <1>15
       DEF Idle, EnterFinally, JoinProducer, AcceptBeat, Leave, LeaveAtEnd, StreamTyped, StreamTypeOK
  <2>3. UNCHANGED <<engineVars, producerVars, queue, hand, sent>>
    BY <1>15 DEF Idle, EnterFinally, JoinProducer, AcceptBeat, Leave, LeaveAtEnd
  <2> QED
    BY <2>1, <2>2, <2>3 DEF StreamTyped, StreamTypeOK
<1>16. CASE Accept \/ AcceptError \/ Finish
  <2>1. consumer' \in ConsumerStates /\ consumer' # "send"
    BY <1>16 DEF Accept, AcceptError, Finish, Leaving, ConsumerStates
  <2>2. Error \in Messages /\ Fin \in Messages
    BY DEF Messages
  <2>3. CASE Accept
    BY <2>1, <2>3 DEF Accept, StreamTyped, StreamTypeOK
  <2>4. CASE AcceptError
    BY <2>1, <2>2, <2>4 DEF AcceptError, StreamTyped, StreamTypeOK
  <2>5. CASE Finish
    BY <2>1, <2>2, <2>5 DEF Finish, StreamTyped, StreamTypeOK
  <2> QED
    BY <1>16, <2>3, <2>4, <2>5
<1>17. CASE UNCHANGED streamVars
  BY <1>17 DEF streamVars, StreamTyped, StreamTypeOK
<1> QED
  BY <1>1, <1>2, <1>3, <1>4, <1>5, <1>6, <1>7, <1>8, <1>9, <1>10, <1>11, <1>12, <1>13,
     <1>14, <1>15, <1>16, <1>17
     DEF Step, StreamNext, Engine, Producer, Request, Client, Departure

------------------------------------------------------------------------------
\* The fields of a well-typed state the proofs below read.
LEMMA Shape ==
    ASSUME StreamTyped
    PROVE  /\ made \in Seq(Kinds \X (1 .. MaxItems)) /\ Len(made) \in Nat
           /\ durable \in Nat /\ durable <= Len(made)
           /\ sent \in Seq(Messages) /\ Len(sent) \in Nat
           /\ queue \in Seq(Messages \cup {DoneMark}) /\ Len(queue) \in Nat
           /\ failed \in BOOLEAN /\ exhausted \in BOOLEAN /\ dirty \in BOOLEAN /\ stop \in BOOLEAN
           /\ \A i \in 1 .. Len(made) : made[i] \in Kinds \X (1 .. MaxItems)
           /\ \A i \in 1 .. Len(sent) : sent[i] \in Messages
BY DEF StreamTyped, StreamTypeOK

\* What a yield makes of the messages.
LEMMA Yielded ==
    ASSUME StreamTyped, EngineSound, NEW kind \in Kinds, Yield(kind)
    PROVE  /\ Len(made') = Len(made) + 1
           /\ made'[Len(made) + 1] = <<kind, Len(made) + 1>>
           /\ made' # <<>>
           /\ \A i \in 1 .. Len(made) : made'[i] = made[i]
           /\ \A i \in 1 .. Len(made') : made'[i][2] = i
           /\ \A i \in 1 .. Len(made) : Committed(i) => Committed(i)'
           /\ made'[Len(made')][1] = kind
           /\ Committed(Len(made)) /\ kind \notin {"data", "quiet"} => Committed(Len(made))'
<1> DEFINE m == <<kind, Len(made) + 1>>
<1>1. made \in Seq(Kinds \X (1 .. MaxItems)) /\ Len(made) \in Nat
  BY Shape
<1>2. Len(made) + 1 \in 1 .. MaxItems
  BY <1>1, StreamAssumption DEF Yield
<1>3. m \in Kinds \X (1 .. MaxItems)
  BY <1>2
<1>4. made' = Append(made, m) /\ durable' = durable
  BY DEF Yield
<1>5. m[1] = kind /\ m[2] = Len(made) + 1
  OBVIOUS
<1> HIDE DEF m
<1>6. /\ made' \in Seq(Kinds \X (1 .. MaxItems)) /\ Len(made') = Len(made) + 1
      /\ made'[Len(made) + 1] = m
      /\ \A i \in 1 .. Len(made) : made'[i] = made[i]
  BY <1>1, <1>3, <1>4, Appended
<1>7. made' # <<>>
  BY <1>1, <1>6
<1>8. \A i \in 1 .. Len(made') : i \in 1 .. Len(made) \/ i = Len(made) + 1
  BY <1>1, <1>6
<1>9. \A i \in 1 .. Len(made') : made'[i][2] = i
  BY <1>5, <1>6, <1>8 DEF EngineSound
<1>10. \A i \in 1 .. Len(made) : \A j \in 1 .. i : j \in 1 .. Len(made)
  BY <1>1
<1>11. \A i \in 1 .. Len(made) : Committed(i) => Committed(i)'
  BY <1>4, <1>6, <1>10 DEF Committed
<1>12. ASSUME Committed(Len(made)), kind \notin {"data", "quiet"}
       PROVE  Committed(Len(made))'
  BY <1>4, <1>5, <1>6, <1>8, <1>12 DEF Committed
<1>13. made'[Len(made')][1] = kind
  BY <1>5, <1>6
<1> QED
  BY <1>6, <1>7, <1>9, <1>11, <1>12, <1>13 DEF m

\* A commit can only add to what is committed.
LEMMA CommitKeeps ==
    ASSUME StreamTyped, made' = made, durable' \in {durable, Len(made)}
    PROVE  /\ \A i \in 1 .. Len(made) : Committed(i) => Committed(i)'
           /\ Committed(Len(made)) => Committed(Len(made))'
           /\ durable' = Len(made) => \A i \in 1 .. Len(made) : Committed(i)'
           /\ durable' = Len(made) => Committed(Len(made))'
BY Shape DEF Committed

\* The engine keeps what it vouches for.
LEMMA EngineStep ==
    ASSUME StreamTyped, EngineSound, ProducerSound, Step
    PROVE  EngineSound'
<1> USE DEF engineVars, producerVars, consumerVars
<1>0. Len(made) \in Nat
  BY Shape
<1>1. CASE YieldItem
  <2>1. PICK kind \in {"data", "quiet"} : Yield(kind)
    BY <1>1 DEF YieldItem
  <2>2. kind \in Kinds /\ kind # "ready" /\ kind # "fin"
    BY DEF Kinds
  <2>3. /\ gen \in {"reload", "steps"} /\ gen' = gen /\ producer' = "yielded"
    BY <1>1, <2>1 DEF YieldItem, Yield
  <2>4. \A i \in 1 .. Len(made) : made[i][1] # "fin"
    BY <2>3 DEF EngineSound
  <2>5. \A i \in 1 .. Len(made') : i \in 1 .. Len(made) \/ i = Len(made) + 1
    BY <1>0, <2>1, <2>2, Yielded
  <2>6. made'[Len(made) + 1][1] = kind
    BY <2>1, <2>2, Yielded
  <2>7. \A i \in 1 .. Len(made') : made'[i][1] # "fin"
    BY <2>1, <2>2, <2>4, <2>5, <2>6, Yielded
  <2>8. \A i \in 1 .. Len(made') : made'[i][1] = "ready" => Committed(i)'
    BY <2>1, <2>2, <2>5, <2>6, Yielded DEF EngineSound
  <2> QED
    BY <2>1, <2>2, <2>3, <2>7, <2>8, Yielded DEF EngineSound
<1>2. CASE YieldReady
  <2>1. Yield("ready") /\ gen \in {"reloadReady", "ready"} /\ gen' = gen /\ producer' = "yielded"
    BY <1>2 DEF YieldReady, Yield
  <2>2. "ready" \in Kinds
    BY DEF Kinds
  <2>3. Committed(Len(made))'
    BY <2>1, <2>2, Yielded DEF EngineSound
  <2>4. \A i \in 1 .. Len(made) : made[i][1] # "fin"
    BY <2>1 DEF EngineSound
  <2>5. \A i \in 1 .. Len(made') : i \in 1 .. Len(made) \/ i = Len(made) + 1
    BY <1>0, <2>1, <2>2, Yielded
  <2>6. made'[Len(made) + 1][1] = "ready" /\ Len(made') = Len(made) + 1
    BY <2>1, <2>2, Yielded
  <2>7. \A i \in 1 .. Len(made') : made'[i][1] # "fin"
    BY <2>1, <2>2, <2>4, <2>5, <2>6, Yielded
  <2>8. \A i \in 1 .. Len(made') : made'[i][1] = "ready" => Committed(i)'
    <3>1. \A i \in 1 .. Len(made) : made'[i][1] = "ready" => Committed(i)'
      BY <2>1, <2>2, Yielded DEF EngineSound
    <3>2. \A i : i = Len(made') => Committed(i)'
      BY <2>3
    <3> QED
      BY <2>5, <2>6, <3>1, <3>2
  <2> QED
    BY <2>1, <2>2, <2>3, <2>6, <2>7, <2>8, Yielded DEF EngineSound
<1>3. CASE YieldFin
  <2>1. Yield("fin") /\ gen = "ready" /\ gen' = "over"
    BY <1>3 DEF YieldFin
  <2>2. producer = "engine" /\ producer' = "yielded" /\ failed' = failed
    BY <2>1 DEF Yield
  <2>3. "fin" \in Kinds
    BY DEF Kinds
  <2>4. Committed(Len(made))'
    BY <2>1, <2>3, Yielded DEF EngineSound
  <2>5. \A i \in 1 .. Len(made) : made[i][1] # "fin"
    BY <2>1 DEF EngineSound
  <2>6. \A i \in 1 .. Len(made') : i \in 1 .. Len(made) \/ i = Len(made) + 1
    BY <1>0, <2>1, <2>3, Yielded
  <2>7. made'[Len(made) + 1][1] = "fin" /\ Len(made') = Len(made) + 1
    BY <2>1, <2>3, Yielded
  <2>8. ~failed'
    BY <2>2 DEF ProducerSound, Working
  <2>9. \A i \in 1 .. Len(made') : made'[i][1] = "ready" => Committed(i)'
    BY <2>1, <2>3, <2>6, <2>7, Yielded DEF EngineSound
  <2>10. \A i \in 1 .. Len(made') :
            made'[i][1] = "fin" => i = Len(made') /\ Committed(i)'
    <3>1. \A i : i = Len(made') => Committed(i)'
      BY <2>4
    <3> QED
      BY <2>1, <2>3, <2>5, <2>6, <2>7, <3>1, Yielded
  <2> QED
    BY <2>1, <2>2, <2>3, <2>7, <2>8, <2>9, <2>10, Yielded DEF EngineSound
<1>4. CASE Commit \/ BudgetExceeded
  <2>1. /\ made' = made /\ durable' = Len(made)
        /\ gen \in {"reload", "steps"} /\ gen' # "over"
        /\ producer' \notin {"none", "yielded", "passed"}
    BY <1>4 DEF Commit, BudgetExceeded, Fail
  <2>2. \A i \in 1 .. Len(made) : made[i][1] # "fin"
    BY <2>1 DEF EngineSound
  <2> QED
    BY <2>1, <2>2, CommitKeeps DEF EngineSound
<1>5. CASE EndReload \/ FallBack
  <2>1. /\ UNCHANGED <<made, durable, producer, failed>> /\ producer = "engine"
        /\ gen # "over" /\ gen' \in {"steps", gen}
    BY <1>5 DEF EndReload, FallBack
  <2> QED
    BY <2>1, CommitKeeps DEF EngineSound
<1>6. CASE Exhaust \/ Cancel \/ EngineFails \/ Break
  <2>1. /\ UNCHANGED <<made, durable>> /\ producer' = "closing"
        /\ \/ gen' = "over" /\ failed' = failed
           \/ gen' = gen /\ gen # "over"
    BY <1>6 DEF Exhaust, Cancel, EngineFails, Break, Fail
  <2>2. \A i \in 1 .. Len(made) : made[i][1] = "fin" => gen' = "over" /\ ~failed'
    BY <2>1 DEF EngineSound
  <2> QED
    BY <2>1, <2>2, CommitKeeps DEF EngineSound, Working
<1>7. CASE PassStopTest \/ Put \/ Close
  <2>1. /\ UNCHANGED <<made, durable, gen, failed>>
        /\ \/ producer = "yielded" /\ producer' = "passed"
           \/ producer = "passed" /\ producer' = "engine"
           \/ producer = "closing" /\ producer' = "ended"
    BY <1>7 DEF PassStopTest, Put, Close
  <2> QED
    BY <2>1, CommitKeeps DEF EngineSound, Working
<1>8. CASE Request \/ Client \/ Departure \/ UNCHANGED streamVars
  <2>1. UNCHANGED <<made, durable, gen, failed, producer>>
    BY <1>8
       DEF Request, Client, Departure, Take, Idle, EnterFinally, JoinProducer, Accept, AcceptBeat,
           AcceptError, Finish, Leave, LeaveAtEnd, streamVars
  <2> QED
    BY <2>1, CommitKeeps DEF EngineSound, Working
<1> QED
  BY <1>1, <1>2, <1>3, <1>4, <1>5, <1>6, <1>7, <1>8 DEF Step, StreamNext, Engine, Producer

\* Steps of the engine that leave the producer in its loop.
Looping ==
    YieldItem \/ YieldReady \/ YieldFin \/ Commit \/ EndReload \/ FallBack \/ PassStopTest \/ Put

\* Steps of the request thread, and none.
Serving == Request \/ Client \/ Departure \/ UNCHANGED streamVars

LEMMA LoopingKeeps ==
    ASSUME Looping
    PROVE  /\ Working /\ Working' /\ producer # "none"
           /\ UNCHANGED <<failed, exhausted, conn, dirty, consumerVars, stop>>
BY DEF Looping, YieldItem, YieldReady, YieldFin, Yield, Commit, EndReload, FallBack,
       PassStopTest, Put, Working, producerVars, consumerVars

LEMMA ServingKeeps ==
    ASSUME Serving
    PROVE  /\ UNCHANGED <<engineVars, producerVars>>
           /\ stop' = stop \/ (Leave \/ EnterFinally)
BY DEF Serving, Request, Client, Departure, Take, Idle, EnterFinally, JoinProducer, Accept,
       AcceptBeat, AcceptError, Finish, Leave, LeaveAtEnd, streamVars, consumerVars

\* The producer keeps what it knows of its own end.
LEMMA ProducerStep ==
    ASSUME StreamTyped, EngineSound, ProducerSound, Step
    PROVE  ProducerSound'
<1>0. /\ failed \in BOOLEAN /\ exhausted \in BOOLEAN /\ dirty \in BOOLEAN /\ stop \in BOOLEAN
      /\ Len(made) \in Nat
  BY Shape
<1>1. CASE Looping
  BY <1>1, LoopingKeeps DEF ProducerSound
<1>2. CASE Exhaust
  <2>1. /\ Working /\ ~Working'
        /\ gen \in {"ready", "over"} /\ gen' = "over" /\ exhausted' = TRUE
        /\ UNCHANGED <<made, durable, failed, dirty, stop>>
        /\ conn' \in {"pooled", conn}
    BY <1>2 DEF Exhaust, Working, consumerVars
  <2>2. Committed(Len(made))
    <3>1. CASE gen = "ready"
      BY <3>1 DEF EngineSound
    <3>2. CASE gen = "over"
      <4>1. made # <<>> /\ made[Len(made)][1] = "fin"
        BY <2>1, <3>2 DEF EngineSound
      <4>2. Len(made) \in 1 .. Len(made)
        BY <4>1, <1>0, Shape
      <4> QED
        BY <4>1, <4>2 DEF EngineSound
    <3> QED
      BY <2>1, <3>1, <3>2
  <2>3. Committed(Len(made))'
    BY <2>1, <2>2 DEF Committed
  <2>4. ~failed /\ ~dirty
    BY <2>1 DEF ProducerSound
  <2> QED
    BY <2>1, <2>3, <2>4 DEF ProducerSound
<1>3. CASE Cancel
  <2>1. /\ stop /\ stop' = stop /\ ~Working' /\ conn' = "discarded"
    BY <1>3 DEF Cancel, Working
  <2> QED
    BY <2>1 DEF ProducerSound
<1>4. CASE EngineFails \/ BudgetExceeded
  <2>1. /\ Working /\ ~Working' /\ failed' = TRUE /\ exhausted' = exhausted
    BY <1>4 DEF EngineFails, BudgetExceeded, Fail, Working
  <2>2. ~dirty /\ ~exhausted /\ conn = "out"
    BY <2>1 DEF ProducerSound
  <2>3. conn' = "pooled" => dirty' = dirty
    BY <1>4, <2>2 DEF EngineFails, BudgetExceeded
  <2>4. exhausted' = FALSE /\ (conn' = "pooled" => ~dirty')
    BY <1>0, <2>1, <2>2, <2>3
  <2> QED
    BY <2>1, <2>4 DEF ProducerSound
<1>5. CASE Break
  <2>1. /\ Working /\ ~Working' /\ stop /\ stop' = stop
        /\ exhausted' = exhausted /\ conn' \in {"discarded", conn}
    BY <1>5 DEF Break, Working
  <2>2. conn = "out" /\ ~exhausted
    BY <2>1 DEF ProducerSound
  <2> QED
    BY <2>1, <2>2 DEF ProducerSound
<1>6. CASE Close
  <2>1. /\ ~Working /\ ~Working'
        /\ UNCHANGED <<made, durable, gen, failed, exhausted, dirty, stop>>
        /\ conn' # "out" \/ conn' = conn
        /\ conn' = "pooled" => conn = "pooled" \/ (conn = "out" /\ exhausted /\ ~failed)
    BY <1>6 DEF Close, Working, engineVars
  <2>2. Committed(Len(made))' <=> Committed(Len(made))
    BY <2>1 DEF Committed
  <2> QED
    BY <2>1, <2>2 DEF ProducerSound
<1>7. CASE Serving
  <2>1. UNCHANGED <<engineVars, producerVars>> /\ (stop' = stop \/ stop' = TRUE)
    BY <1>7, ServingKeeps DEF Leave, EnterFinally
  <2>2. Committed(Len(made))' <=> Committed(Len(made))
    BY <2>1 DEF Committed, engineVars
  <2> QED
    BY <2>1, <2>2 DEF ProducerSound, Working, engineVars, producerVars
<1> QED
  BY <1>1, <1>2, <1>3, <1>4, <1>5, <1>6, <1>7
     DEF Step, StreamNext, Engine, Producer, Looping, Serving

\* Nothing resumes the engine twice once the client has left.
LEMMA StopStep ==
    ASSUME StreamTyped, StopSound, Step
    PROVE  StopSound'
<1>1. CASE YieldItem \/ YieldReady \/ YieldFin
  <2>1. /\ producer = "engine" /\ producer' = "yielded" /\ UNCHANGED <<stop, consumer>>
        /\ late' = IF stop THEN late + 1 ELSE late
    BY <1>1 DEF YieldItem, YieldReady, YieldFin, Yield, consumerVars
  <2>2. late = 0
    BY <2>1 DEF StopSound
  <2> QED
    BY <2>1, <2>2 DEF StopSound, Left
<1>2. CASE Commit \/ EndReload \/ FallBack \/ PassStopTest \/ Put
  <2>1. /\ UNCHANGED <<stop, consumer, late>>
        /\ ~stop \/ producer \notin {"yielded", "closing", "ended"}
    BY <1>2 DEF Commit, EndReload, FallBack, PassStopTest, Put, engineVars, consumerVars
  <2> QED
    BY <2>1 DEF StopSound, Left
<1>3. CASE Exhaust \/ Cancel \/ EngineFails \/ BudgetExceeded \/ Break \/ Close
  <2>1. /\ UNCHANGED <<stop, consumer, late>> /\ producer' \in {"closing", "ended"}
    BY <1>3 DEF Exhaust, Cancel, EngineFails, BudgetExceeded, Fail, Break, Close, engineVars, consumerVars
  <2> QED
    BY <2>1 DEF StopSound, Left
<1>4. CASE Leave \/ EnterFinally
  <2>1. Left' /\ stop' = TRUE /\ UNCHANGED <<late, producer>>
    BY <1>4 DEF Leave, EnterFinally, Left, engineVars, producerVars
  <2> QED
    BY <2>1 DEF StopSound
<1>5. CASE Serving /\ ~Leave /\ ~EnterFinally
  <2>1. UNCHANGED <<late, producer, stop>>
    BY <1>5, ServingKeeps DEF engineVars, producerVars
  <2>2. Left => Left'
    BY <1>5
       DEF Serving, Request, Client, Departure, Take, Idle, JoinProducer, Accept,
           AcceptBeat, AcceptError, Finish, LeaveAtEnd, streamVars, consumerVars, Left
  <2> QED
    BY <2>1, <2>2 DEF StopSound
<1> QED
  BY <1>1, <1>2, <1>3, <1>4, <1>5
     DEF Step, StreamNext, Engine, Producer, Serving

------------------------------------------------------------------------------
(* What is under way between the two threads.                              *)

\* The producer's side moves; the request thread has its messages as before.
LEMMA ProducerSide ==
    ASSUME StreamTyped, EndSound, NEW n \in Nat, NEW t \in Nat, Flow(n, t),
           UNCHANGED consumerVars, producer # "ended",
           \A i \in 1 .. Len(made) : made'[i] = made[i],
           made' = made \/ gen # "over",
           NEW k
    PROVE  Sent(t)' /\ Complete(t)' /\ Drained(k, t)'
<1> USE DEF consumerVars
<1>1. t \in 0 .. Len(made)
  BY Shape DEF Flow, Counts
<1>2. Sent(t)'
  <2>1. Sent(t)
    BY DEF Flow
  <2>2. \A i \in 1 .. t : i \in 1 .. Len(made)
    BY <1>1, Shape
  <2>3. \A i \in 1 .. t : made'[i] = made[i]
    BY <2>2
  <2>4. t > 0 => t \in 1 .. t
    OBVIOUS
  <2> QED
    BY <2>1, <2>3, <2>4 DEF Sent, Ours
<1>3. Told("fin")' = Told("fin") /\ Told("error")' = Told("error")
  BY DEF Told, SentKinds
<1>4. Complete(t)'
  <2>1. \A i \in 1 .. t : i \in 1 .. Len(made)
    BY <1>1, Shape
  <2>2. \A i \in 1 .. t : made'[i] = made[i]
    BY <2>1
  <2> QED
    BY <1>3, <2>2 DEF Flow, Complete, Took, Listening
<1>5. Drained(k, t)'
  <2>1. consumer = "tellDone" => Told("error")
    BY DEF Flow, Drained
  <2>2. Listening /\ Told("fin") => gen = "over"
    BY DEF EndSound, Listening, Left
  <2>3. Listening /\ Told("fin") => t = Len(made) /\ consumer # "send"
    BY DEF Flow, Drained
  <2> QED
    BY <1>3, <2>1, <2>2, <2>3 DEF Drained, Listening
<1> QED
  BY <1>2, <1>4, <1>5

\* The producer moves on without touching the queue.
LEMMA QueueKept ==
    ASSUME StreamTyped, NEW n \in Nat, NEW t \in Nat, Flow(n, t),
           queue' = queue, consumer' = consumer, producer # "ended",
           \A i \in 1 .. Len(made) : made'[i] = made[i],
           failed' = failed \/ ~Listening, failed => failed'
    PROVE  Queued(n, t)'
<1>1. n <= Len(made) /\ Len(made) \in Nat /\ Queued(n, t)
  BY Shape DEF Flow, Counts
<1>2. \A i \in 1 .. Len(queue) : i <= n - t => t + i \in 1 .. Len(made)
  <2>1. PICK m \in Nat : m = Len(made) /\ n <= m
    BY <1>1
  <2>2. \A i \in Nat \ {0} : i <= n - t => t + i \in 1 .. m
    BY <2>1
  <2>3. \A i \in 1 .. Len(queue) : i \in Nat \ {0}
    BY Shape
  <2> QED
    BY <2>1, <2>2, <2>3
<1>3. \A i \in 1 .. Len(queue) : queue[i] # DoneMark
  BY <1>1 DEF Queued
<1>4. Listening' = Listening
  BY DEF Listening
<1>5. \A i \in 1 .. Len(queue') :
          /\ i <= n - t => queue'[i] = made'[t + i]
          /\ i > n - t => queue'[i] \in {Error, DoneMark}
  BY <1>1, <1>2 DEF Queued
<1>6. \A i \in 1 .. Len(queue') :
          queue'[i] # DoneMark /\ (queue'[i] = Error => failed' /\ i = n - t + 1)
  BY <1>1, <1>3 DEF Queued
<1>7. Listening' /\ failed' => Len(queue') > n - t /\ queue'[n - t + 1] = Error
  BY <1>1, <1>4 DEF Queued
<1>8. Len(queue') >= n - t
  BY <1>1 DEF Queued
<1> QED
  BY <1>5, <1>6, <1>7, <1>8 DEF Queued

\* It yields a message: one more is under way.
LEMMA FlowYield ==
    ASSUME StreamTyped, EngineSound, ProducerSound, EndSound,
           NEW n \in Nat, NEW t \in Nat, Flow(n, t),
           NEW kind \in Kinds, Yield(kind), gen # "over"
    PROVE  Flow(n, t)'
<1>1. /\ producer = "engine" /\ producer' = "yielded"
      /\ UNCHANGED <<consumerVars, queue, stop, failed>>
  BY DEF Yield
<1>2. \A i \in 1 .. Len(made) : made'[i] = made[i]
  BY Yielded
<1>3. Counts(n, t)'
  BY <1>1, Yielded, Shape DEF Flow, Counts, Working
<1>4. Queued(n, t)'
  BY <1>1, <1>2, QueueKept DEF consumerVars
<1>5. Sent(t)' /\ Complete(t)' /\ Drained(n, t)'
  BY <1>1, <1>2, ProducerSide
<1> QED
  BY <1>3, <1>4, <1>5 DEF Flow

\* It moves on with what it has; or fails, or breaks, when nobody reads on.
LEMMA FlowMove ==
    ASSUME StreamTyped, StopSound, EndSound,
           NEW n \in Nat, NEW t \in Nat, Flow(n, t),
           UNCHANGED <<made, consumerVars, queue, stop>>, producer # "ended",
           failed' = failed \/ stop, failed => failed',
           Counts(n, t)'
    PROVE  Flow(n, t)'
<1>1. stop => ~Listening
  BY DEF StopSound, Listening, Left
<1>2. Queued(n, t)'
  BY <1>1, QueueKept DEF consumerVars
<1>3. Sent(t)' /\ Complete(t)' /\ Drained(n, t)'
  BY ProducerSide
<1> QED
  BY <1>2, <1>3 DEF Flow

LEMMA FlowMoves ==
    ASSUME StreamTyped, ProducerSound, StopSound, EndSound,
           NEW n \in Nat, NEW t \in Nat, Flow(n, t),
           \/ Commit \/ EndReload \/ FallBack \/ PassStopTest \/ Exhaust \/ Cancel \/ Break
           \/ (stop /\ (EngineFails \/ BudgetExceeded))
    PROVE  Flow(n, t)'
<1>1. UNCHANGED <<made, consumerVars, queue, stop>> /\ producer # "ended"
  BY DEF Commit, EndReload, FallBack, PassStopTest, Exhaust, Cancel, Break, EngineFails,
         BudgetExceeded, Fail, producerVars, engineVars
<1>2. (failed' = failed \/ stop) /\ (failed => failed')
  BY DEF Commit, EndReload, FallBack, PassStopTest, Exhaust, Cancel, Break, EngineFails,
         BudgetExceeded, Fail, producerVars
<1>3. \/ producer' = producer
      \/ producer = "yielded" /\ producer' = "passed"
      \/ producer = "engine" /\ producer' = "closing"
      \/ stop /\ producer' = "closing"
  BY DEF Commit, EndReload, FallBack, PassStopTest, Exhaust, Cancel, Break, EngineFails,
         BudgetExceeded, Fail, producerVars
<1>4. Counts(n, t)'
  BY <1>1, <1>3 DEF Flow, Counts, Working
<1> QED
  BY <1>1, <1>2, <1>4, FlowMove

\* It puts a message ...
LEMMA FlowPut ==
    ASSUME StreamTyped, EngineSound, ProducerSound, EndSound,
           NEW n \in Nat, NEW t \in Nat, Flow(n, t), Put
    PROVE  Flow(n + 1, t)'
<1>1. /\ producer = "passed" /\ producer' = "engine" /\ queue' = Append(queue, made[Len(made)])
      /\ UNCHANGED <<made, gen, failed, consumerVars, stop>>
  BY DEF Put, Last, engineVars
<1>2. /\ n + 1 = Len(made) /\ t <= n /\ ~failed
  BY <1>1, Shape DEF Flow, Counts, ProducerSound, Working
<1>3. Len(queue) = n - t
  <2>1. \A i \in 1 .. Len(queue) : ~(i > n - t)
    BY <1>1, <1>2 DEF Flow, Queued
  <2>2. Len(queue) >= n - t /\ Len(queue) \in Nat /\ n - t \in Nat
    BY <1>2, Shape DEF Flow, Queued
  <2> QED
    BY <2>1, <2>2
<1>4. made[n + 1] \in Kinds \X (1 .. MaxItems) /\ made[n + 1] = made[Len(made)]
  <2>1. Len(made) \in 1 .. Len(made)
    BY <1>2, Shape
  <2> QED
    BY <1>2, <2>1, Shape
<1>5. made[n + 1] \in Messages \cup {DoneMark} /\ made[n + 1] \notin {Error, DoneMark}
  BY <1>4, MarksApart
<1>6. /\ Len(queue') = Len(queue) + 1 /\ queue'[Len(queue) + 1] = made[n + 1]
      /\ \A i \in 1 .. Len(queue) : queue'[i] = queue[i]
  BY <1>1, <1>4, <1>5, Appended, Shape
<1>7. Queued(n + 1, t)'
  <2>1. Len(queue') = n + 1 - t
    BY <1>2, <1>3, <1>6
  <2>2. ASSUME NEW i \in 1 .. Len(queue')
        PROVE  /\ queue'[i] = made'[t + i]
               /\ i <= n + 1 - t
               /\ queue'[i] \notin {Error, DoneMark}
    <3>1. CASE i = Len(queue) + 1
      BY <1>1, <1>2, <1>3, <1>5, <1>6, <2>1, <3>1
    <3>2. CASE i \in 1 .. Len(queue)
      <4>1. queue[i] = made[t + i] /\ t + i \in 1 .. Len(made)
        BY <1>2, <1>3, <3>2 DEF Flow, Queued
      <4>2. made[t + i] \notin {Error, DoneMark}
        BY <4>1, MarksApart, Shape
      <4> QED
        BY <1>1, <1>3, <1>6, <2>1, <3>2, <4>1, <4>2
    <3>3. i \in 1 .. Len(queue) \/ i = Len(queue) + 1
      <4>1. Len(queue) \in Nat
        BY Shape
      <4> QED
        BY <1>6, <4>1
    <3>4. i <= n + 1 - t
      BY <2>1
    <3> QED
      BY <3>1, <3>2, <3>3, <3>4
  <2> QED
    BY <1>1, <1>2, <2>1, <2>2 DEF Queued
<1>8. Counts(n + 1, t)'
  BY <1>1, <1>2 DEF Counts, Working
<1>9. Sent(t)' /\ Complete(t)' /\ Drained(n + 1, t)'
  BY <1>1, ProducerSide
<1> QED
  BY <1>7, <1>8, <1>9 DEF Flow

\* ... an error ...
LEMMA FlowFail ==
    ASSUME StreamTyped, ProducerSound, EndSound,
           NEW n \in Nat, NEW t \in Nat, Flow(n, t),
           ~stop, EngineFails \/ BudgetExceeded
    PROVE  Flow(n, t)'
<1>1. /\ producer = "engine" /\ producer' = "closing" /\ queue' = Append(queue, Error)
      /\ failed' = TRUE
      /\ UNCHANGED <<made, consumerVars, stop>>
  BY DEF EngineFails, BudgetExceeded, Fail
<1>2. n = Len(made) /\ t <= n /\ ~failed
  BY <1>1 DEF Flow, Counts, ProducerSound, Working
<1>3. Len(queue) = n - t
  <2>1. \A i \in 1 .. Len(queue) : ~(i > n - t)
    BY <1>1, <1>2 DEF Flow, Queued
  <2>2. Len(queue) >= n - t /\ Len(queue) \in Nat /\ n - t \in Nat
    BY <1>2, Shape DEF Flow, Queued
  <2> QED
    BY <2>1, <2>2
<1>4. /\ Len(queue') = Len(queue) + 1 /\ queue'[Len(queue) + 1] = Error
      /\ \A i \in 1 .. Len(queue) : queue'[i] = queue[i]
  <2>1. Error \in Messages \cup {DoneMark}
    BY DEF Messages
  <2> QED
    BY <1>1, <2>1, Appended, Shape
<1>5. Queued(n, t)'
  <2>1. Len(queue') = n - t + 1 /\ n - t \in Nat
    BY <1>2, <1>3, <1>4, Shape
  <2>2. ASSUME NEW i \in 1 .. Len(queue')
        PROVE  /\ i <= n - t => queue'[i] = made'[t + i] /\ queue'[i] \notin {Error, DoneMark}
               /\ i > n - t => queue'[i] = Error /\ i = n - t + 1
    <3>1. CASE i = Len(queue) + 1
      BY <1>3, <1>4, <2>1, <3>1
    <3>2. CASE i \in 1 .. Len(queue)
      <4>1. queue[i] = made[t + i] /\ t + i \in 1 .. Len(made)
        BY <1>2, <1>3, <2>1, <3>2 DEF Flow, Queued
      <4>2. made[t + i] \notin {Error, DoneMark}
        BY <4>1, MarksApart, Shape
      <4> QED
        BY <1>1, <1>3, <1>4, <2>1, <3>2, <4>1, <4>2
    <3>3. i \in 1 .. Len(queue) \/ i = Len(queue) + 1
      <4>1. Len(queue) \in Nat
        BY Shape
      <4> QED
        BY <1>4, <4>1
    <3> QED
      BY <3>1, <3>2, <3>3
  <2>3. queue'[n - t + 1] = Error
    BY <1>3, <1>4
  <2> QED
    BY <1>1, <2>1, <2>2, <2>3, MarkKinds DEF Queued
<1>6. Counts(n, t)'
  BY <1>1, <1>2 DEF Flow, Counts, Working
<1>7. Sent(t)' /\ Complete(t)' /\ Drained(n, t)'
  BY <1>1, ProducerSide
<1> QED
  BY <1>5, <1>6, <1>7 DEF Flow

\* ... and at last the mark.
LEMMA FlowClose ==
    ASSUME StreamTyped, ProducerSound, EndSound,
           NEW n \in Nat, NEW t \in Nat, Flow(n, t), Close
    PROVE  Flow(n, t)'
<1>1. /\ producer = "closing" /\ producer' = "ended" /\ queue' = Append(queue, DoneMark)
      /\ UNCHANGED <<made, gen, failed, consumerVars, stop>>
  BY DEF Close, engineVars
<1>2. t <= n /\ n <= Len(made) /\ n - t \in Nat /\ Queued(n, t) /\ Len(queue) \in Nat
  BY Shape DEF Flow, Counts
<1>3. /\ Len(queue') = Len(queue) + 1 /\ queue'[Len(queue) + 1] = DoneMark
      /\ \A i \in 1 .. Len(queue) : queue'[i] = queue[i]
  BY <1>1, Appended, Shape
<1>4. Queued(n, t)'
  <2>1. Len(queue) >= n - t
    BY <1>2 DEF Queued
  <2>2. ASSUME NEW i \in 1 .. Len(queue')
        PROVE  /\ i <= n - t => queue'[i] = made'[t + i]
               /\ i > n - t => queue'[i] \in {Error, DoneMark}
               /\ queue'[i] = DoneMark => i = Len(queue')
               /\ queue'[i] = Error => failed' /\ i = n - t + 1
    <3>1. CASE i = Len(queue) + 1
      BY <1>2, <1>3, <2>1, <3>1, MarkKinds
    <3>2. CASE i \in 1 .. Len(queue)
      <4>1. queue[i] # DoneMark
        BY <1>1, <1>2, <3>2 DEF Queued
      <4> QED
        BY <1>1, <1>2, <1>3, <3>2, <4>1 DEF Queued
    <3>3. i \in 1 .. Len(queue) \/ i = Len(queue) + 1
      <4>1. Len(queue) \in Nat
        BY <1>2
      <4> QED
        BY <1>3, <4>1
    <3> QED
      BY <3>1, <3>2, <3>3
  <2>3. ASSUME Listening', failed'
        PROVE  Len(queue') > n - t /\ queue'[n - t + 1] = Error
    <3>1. Len(queue) > n - t /\ queue[n - t + 1] = Error
      BY <1>1, <1>2, <2>3 DEF Queued, Listening, consumerVars
    <3>2. n - t + 1 \in 1 .. Len(queue)
      BY <1>2, <3>1
    <3>3. Len(queue') > n - t
      BY <1>2, <1>3, <3>1
    <3> QED
      BY <1>3, <3>1, <3>2, <3>3
  <2>4. Len(queue') >= n - t
    BY <1>2, <1>3, <2>1
  <2> QED
    BY <1>1, <2>2, <2>3, <2>4 DEF Queued
<1>5. Counts(n, t)'
  BY <1>1 DEF Flow, Counts, Working
<1>6. Sent(t)' /\ Complete(t)' /\ Drained(n, t)'
  BY <1>1, ProducerSide
<1> QED
  BY <1>4, <1>5, <1>6 DEF Flow

\* The request thread takes a message of the engine ...
LEMMA FlowTakeMessage ==
    ASSUME StreamTyped, EngineSound, EndSound,
           NEW n \in Nat, NEW t \in Nat, Flow(n, t), Take, t < n
    PROVE  Flow(n, t + 1)'
<1> DEFINE m == made[t + 1]
<1>1. /\ consumer \in {"poll", "sleep"} /\ queue # <<>>
      /\ hand' = Head(queue) /\ queue' = Tail(queue) /\ Dispatch(Head(queue))
      /\ UNCHANGED <<engineVars, producerVars, sent, stop>>
  BY DEF Take
<1>2. /\ n <= Len(made) /\ Len(made) \in Nat /\ n - t \in Nat /\ n - t >= 1
      /\ Queued(n, t) /\ Len(queue) \in Nat
  BY Shape DEF Flow, Counts
<1>3. /\ Head(queue) = queue[1] /\ Len(queue') = Len(queue) - 1 /\ Len(queue) >= 1
      /\ \A i \in 1 .. Len(queue) - 1 : queue'[i] = queue[i + 1]
  BY <1>1, Taken, Shape
<1>4. queue[1] = m
  BY <1>2, <1>3 DEF Queued
<1>5. m \in Kinds \X (1 .. MaxItems) /\ m[1] \in Kinds
  BY <1>2, MarksApart, Shape
<1>6. /\ hand' = m
      /\ \/ consumer' = "poll" /\ m[1] = "quiet"
         \/ consumer' = "send" /\ m[1] # "quiet"
  <2> HIDE DEF m
  <2>1. hand' = m /\ Dispatch(m)
    BY <1>1, <1>3, <1>4
  <2>2. m[1] \in {"data", "quiet", "ready", "fin"}
    BY <1>5 DEF Kinds
  <2> QED
    BY <2>1, <2>2 DEF Dispatch
<1>7. Listening /\ consumer # "send" /\ Listening' /\ ~Told("fin")
  BY <1>1, <1>2, <1>6 DEF Listening, Flow, Drained
<1>8. Counts(n, t + 1)'
  BY <1>1, <1>2 DEF Flow, Counts, Working, engineVars, producerVars
<1>9. Queued(n, t + 1)'
  <2>1. Len(queue') >= n - (t + 1)
    BY <1>2, <1>3 DEF Queued
  <2>2. ASSUME NEW i \in 1 .. Len(queue')
        PROVE  /\ i <= n - (t + 1) => queue'[i] = made'[t + 1 + i]
               /\ i > n - (t + 1) => queue'[i] \in {Error, DoneMark}
               /\ queue'[i] = DoneMark => i = Len(queue') /\ producer' = "ended"
               /\ queue'[i] = Error => failed' /\ i = n - (t + 1) + 1
    <3>1. i + 1 \in 1 .. Len(queue) /\ queue'[i] = queue[i + 1] /\ i \in Nat
      BY <1>2, <1>3
    <3>2. i <= n - (t + 1) => queue'[i] = made'[t + 1 + i]
      <4>1. i <= n - (t + 1) => i + 1 <= n - t
        BY <1>2, <3>1
      <4>2. t + (i + 1) = t + 1 + i
        BY <3>1
      <4>3. i <= n - (t + 1) => queue[i + 1] = made[t + (i + 1)]
        BY <1>2, <3>1, <4>1 DEF Queued
      <4> QED
        BY <1>1, <3>1, <4>2, <4>3 DEF engineVars
    <3>3. i > n - (t + 1) => queue'[i] \in {Error, DoneMark}
      <4>1. i > n - (t + 1) => i + 1 > n - t
        BY <1>2, <3>1
      <4> QED
        BY <1>2, <3>1, <4>1 DEF Queued
    <3>4. queue'[i] = DoneMark => i = Len(queue') /\ producer' = "ended"
      <4>1. queue'[i] = DoneMark => i + 1 = Len(queue) /\ producer = "ended"
        BY <1>2, <3>1 DEF Queued
      <4>2. i + 1 = Len(queue) => i = Len(queue')
        BY <1>2, <1>3, <3>1
      <4>3. producer' = producer
        BY <1>1 DEF producerVars
      <4> QED
        BY <4>1, <4>2, <4>3
    <3>5. queue'[i] = Error => failed' /\ i = n - (t + 1) + 1
      <4>1. queue'[i] = Error => failed /\ i + 1 = n - t + 1
        BY <1>2, <3>1 DEF Queued
      <4> QED
        BY <1>1, <1>2, <3>1, <4>1 DEF producerVars
    <3> QED
      BY <3>2, <3>3, <3>4, <3>5
  <2>3. ASSUME failed' PROVE Len(queue') > n - (t + 1) /\ queue'[n - (t + 1) + 1] = Error
    <3>1. Len(queue) > n - t /\ queue[n - t + 1] = Error
      BY <1>1, <1>2, <1>7, <2>3 DEF Queued, producerVars
    <3>2. n - t \in 1 .. Len(queue) - 1 /\ n - (t + 1) + 1 = n - t
      BY <1>2, <3>1
    <3> QED
      BY <1>2, <1>3, <3>1, <3>2
  <2> QED
    BY <2>1, <2>2, <2>3 DEF Queued
<1>10. Sent(t + 1)'
  <2>1. ASSUME NEW i \in 1 .. Len(sent), Ours(sent[i])
        PROVE  /\ sent[i][2] \in 1 .. t + 1 /\ sent[i][2] < t + 1
               /\ sent[i] = made[sent[i][2]]
               /\ sent[i][1] # "quiet"
    <3>1. sent[i][2] \in 1 .. t /\ sent[i] = made[sent[i][2]] /\ sent[i][1] # "quiet"
      BY <2>1 DEF Flow, Sent
    <3> QED
      BY <3>1
  <2>2. \A i, j \in 1 .. Len(sent) :
            i < j /\ Ours(sent[i]) /\ Ours(sent[j]) => sent[i][2] < sent[j][2]
    BY DEF Flow, Sent
  <2>3. t + 1 > 0
    OBVIOUS
  <2> QED
    BY <1>1, <1>6, <2>1, <2>2, <2>3 DEF Sent, Ours, engineVars
<1>11. Complete(t + 1)'
  <2>1. \A k \in 1 .. t : Took(k)
    BY <1>7 DEF Flow, Complete
  <2>2. \A k \in 1 .. t + 1 : k \in 1 .. t \/ k = t + 1
    OBVIOUS
  <2>3. Took(t + 1) \/ consumer' = "send"
    BY <1>6 DEF Took
  <2>4. \A k \in 1 .. t + 1 : Took(k)' \/ (consumer' = "send" /\ k = t + 1)
    BY <1>1, <2>1, <2>2, <2>3 DEF Took, engineVars
  <2> QED
    BY <2>4 DEF Complete
<1>12. Drained(n, t + 1)'
  BY <1>1, <1>6, <1>7 DEF Drained, Told, SentKinds
<1> QED
  BY <1>8, <1>9, <1>10, <1>11, <1>12 DEF Flow

\* ... or, when it took them all, the error or the mark behind them.
LEMMA FlowTakeMark ==
    ASSUME StreamTyped, NEW n \in Nat, NEW t \in Nat, Flow(n, t), Take, t = n
    PROVE  Flow(n, t)'
<1>1. /\ consumer \in {"poll", "sleep"} /\ queue # <<>>
      /\ hand' = Head(queue) /\ queue' = Tail(queue) /\ Dispatch(Head(queue))
      /\ UNCHANGED <<engineVars, producerVars, sent, stop>>
  BY DEF Take
<1>2. n <= Len(made) /\ Queued(n, n) /\ Len(queue) \in Nat
  BY Shape DEF Flow, Counts
<1>3. /\ Head(queue) = queue[1] /\ Len(queue') = Len(queue) - 1 /\ Len(queue) >= 1
      /\ \A i \in 1 .. Len(queue) - 1 : queue'[i] = queue[i + 1]
  BY <1>1, Taken, Shape
<1>4. n - n = 0
  OBVIOUS
<1>5. Head(queue) \in {Error, DoneMark}
  BY <1>2, <1>3, <1>4 DEF Queued
<1>6. \/ Head(queue) = Error /\ consumer' = "tellError"
      \/ Head(queue) = DoneMark /\ consumer' = "tellDone"
  BY <1>1, <1>5, MarkKinds DEF Dispatch
<1>7. ~Listening' /\ Listening /\ consumer' # "send" /\ consumer # "send"
  BY <1>1, <1>6 DEF Listening
<1>8. Counts(n, t)'
  BY <1>1 DEF Flow, Counts, Working, engineVars, producerVars
<1>9. Queued(n, t)'
  <2>1. ASSUME NEW i \in 1 .. Len(queue')
        PROVE  /\ queue'[i] = DoneMark
               /\ i = Len(queue') /\ producer' = "ended"
    <3>1. i + 1 \in 1 .. Len(queue) /\ queue'[i] = queue[i + 1] /\ i \in Nat /\ i >= 1
      BY <1>2, <1>3
    <3>2. queue[i + 1] \in {Error, DoneMark} /\ queue[i + 1] # Error
      <4>1. i + 1 > 0 /\ i + 1 # 0 + 1
        BY <3>1
      <4> QED
        BY <1>2, <1>4, <3>1, <4>1 DEF Queued
    <3>3. i + 1 = Len(queue) /\ producer = "ended"
      BY <1>2, <3>1, <3>2 DEF Queued
    <3>4. i = Len(queue')
      BY <1>2, <1>3, <3>1, <3>3
    <3>5. producer' = producer
      BY <1>1 DEF producerVars
    <3> QED
      BY <3>1, <3>2, <3>3, <3>4, <3>5
  <2>2. Len(queue') >= 0
    BY <1>2, <1>3
  <2>3. \A i \in 1 .. Len(queue') : ~(i <= 0)
    BY <1>2, <1>3
  <2> QED
    BY <1>4, <1>7, <2>1, <2>2, <2>3, MarkKinds DEF Queued
<1>10. Sent(t)'
  BY <1>1, <1>7 DEF Flow, Sent, Ours, engineVars
<1>11. \A k \in 1 .. t : Took(k)
  BY <1>7 DEF Flow, Complete
<1>12. Complete(t)'
  BY <1>1, <1>11 DEF Complete, Took, engineVars
<1>13. Drained(n, t)'
  <2>1. ASSUME consumer' = "tellDone"
        PROVE  producer' = "ended" /\ queue' = <<>> /\ ~failed'
    <3>1. queue[1] = DoneMark /\ DoneMark # Error
      BY <1>3, <1>6, <2>1, MarkKinds
    <3>2. 1 = Len(queue) /\ producer = "ended"
      BY <1>2, <1>3, <3>1 DEF Queued
    <3>3. ~failed
      <4>1. failed => queue[n - n + 1] = Error
        BY <1>2, <1>7 DEF Queued
      <4>2. n - n + 1 = 1
        OBVIOUS
      <4> QED
        BY <3>1, <4>1, <4>2
    <3>4. Len(Tail(queue)) = 0 /\ Tail(queue) \in Seq(Messages \cup {DoneMark})
      BY <1>1, <3>2, Taken, Shape
    <3> QED
      BY <1>1, <3>2, <3>3, <3>4 DEF producerVars
  <2> QED
    BY <1>7, <2>1 DEF Drained
<1> QED
  BY <1>8, <1>9, <1>10, <1>12, <1>13 DEF Flow

\* The client takes the message at hand.
LEMMA FlowAccept ==
    ASSUME StreamTyped, EngineSound, EndSound, 
           NEW n \in Nat, NEW t \in Nat, Flow(n, t), Accept
    PROVE  Flow(n, t)'
<1>1. /\ consumer = "send" /\ consumer' = "poll" /\ sent' = Append(sent, hand)
      /\ UNCHANGED <<engineVars, producerVars, queue, hand, stop>>
  BY DEF Accept
<1>2. t > 0 /\ hand = made[t] /\ hand[1] # "quiet" /\ t \in 1 .. Len(made) /\ t <= n /\ n <= Len(made)
  BY <1>1, Shape DEF Flow, Sent, Counts
<1>3. hand \in Messages /\ Ours(hand) /\ hand[2] = t
  BY <1>2, MarksApart, Shape DEF Ours, EngineSound
<1>4. /\ Len(sent) \in Nat /\ Len(sent') = Len(sent) + 1 /\ sent'[Len(sent) + 1] = hand
      /\ \A i \in 1 .. Len(sent) : sent'[i] = sent[i]
  BY <1>1, <1>3, Appended, Shape
<1>5. Listening /\ Listening' /\ consumer' # "send"
  BY <1>1 DEF Listening
<1>6. \A i \in 1 .. Len(sent') : i \in 1 .. Len(sent) \/ i = Len(sent) + 1
  BY <1>4
<1>7. Counts(n, t)'
  BY <1>1 DEF Flow, Counts, Working, engineVars, producerVars
<1>8. Queued(n, t)'
  BY <1>1, <1>5 DEF Flow, Queued, engineVars, producerVars
<1>9. Sent(t)'
  <2>1. \A i \in 1 .. Len(sent) : Ours(sent[i]) => sent[i][2] < t
    BY <1>1 DEF Flow, Sent
  <2>2. ASSUME NEW i \in 1 .. Len(sent'), Ours(sent'[i])
        PROVE  sent'[i][2] \in 1 .. t /\ sent'[i] = made[sent'[i][2]] /\ sent'[i][1] # "quiet"
    <3>1. CASE i \in 1 .. Len(sent)
      BY <1>4, <2>2, <3>1 DEF Flow, Sent, Ours
    <3>2. CASE i = Len(sent) + 1
      BY <1>2, <1>3, <1>4, <3>2
    <3> QED
      BY <1>6, <2>2, <3>1, <3>2
  <2>3. ASSUME NEW i \in 1 .. Len(sent'), NEW j \in 1 .. Len(sent'),
               i < j, Ours(sent'[i]), Ours(sent'[j])
        PROVE  sent'[i][2] < sent'[j][2]
    <3>1. i \in 1 .. Len(sent)
      BY <1>4, <2>3
    <3>2. CASE j \in 1 .. Len(sent)
      BY <1>4, <2>3, <3>1, <3>2 DEF Flow, Sent, Ours
    <3>3. CASE j = Len(sent) + 1
      BY <1>3, <1>4, <2>1, <2>3, <3>1, <3>3 DEF Ours
    <3> QED
      BY <1>6, <2>3, <3>2, <3>3
  <2> QED
    BY <1>1, <1>5, <2>2, <2>3 DEF Sent, Ours, engineVars
<1>10. Complete(t)'
  <2>1. \A k \in 1 .. t : Took(k) \/ k = t
    BY <1>5 DEF Flow, Complete
  <2>2. \A k \in 1 .. t : Took(k) => Took(k)'
    BY <1>1, <1>4, <1>6 DEF Took, engineVars
  <2>3. Took(t)'
    <3>1. Len(sent) + 1 \in 1 .. Len(sent')
      BY <1>4
    <3> QED
      BY <1>1, <1>2, <1>4, <3>1 DEF Took, engineVars
  <2>4. \A k : k = t => Took(k)'
    BY <2>3
  <2> QED
    BY <2>1, <2>2, <2>4 DEF Complete
<1>11. Drained(n, t)'
  <2>1. ASSUME Told("fin")'
        PROVE  t = Len(made)
    <3>1. ~Told("fin")
      BY <1>1, <1>5 DEF Flow, Drained
    <3>2. hand[1] = "fin"
      <4>1. PICK i \in 1 .. Len(sent') : sent'[i][1] = "fin"
        BY <2>1 DEF Told, SentKinds
      <4>2. i \notin 1 .. Len(sent)
        BY <1>4, <3>1, <4>1 DEF Told, SentKinds
      <4> QED
        BY <1>4, <1>6, <4>1, <4>2
    <3> QED
      BY <1>2, <3>2 DEF EngineSound
  <2> QED
    BY <1>1, <1>5, <2>1 DEF Drained, engineVars
<1> QED
  BY <1>7, <1>8, <1>9, <1>10, <1>11 DEF Flow

\* A terminal event is none of the engine's messages.
LEMMA SentMarked ==
    ASSUME StreamTyped, NEW t \in Nat, Sent(t), NEW e \in {Error, Fin},
           sent' = sent \/ sent' = Append(sent, e), made' = made, consumer' # "send"
    PROVE  Sent(t)'
<1>1. ASSUME NEW i \in 1 .. Len(sent'), Ours(sent'[i])
      PROVE  i \in 1 .. Len(sent) /\ sent'[i] = sent[i]
  <2>1. CASE sent' = sent
    BY <1>1, <2>1
  <2>2. CASE sent' = Append(sent, e)
    <3>1. e \in Messages /\ ~Ours(e)
      BY DEF Messages, Ours
    <3>2. /\ Len(sent) \in Nat /\ Len(sent') = Len(sent) + 1 /\ sent'[Len(sent) + 1] = e
          /\ \A k \in 1 .. Len(sent) : sent'[k] = sent[k]
      BY <2>2, <3>1, Appended, Shape
    <3>3. i # Len(sent) + 1
      BY <1>1, <3>1, <3>2 DEF Ours
    <3> QED
      BY <3>2, <3>3
  <2> QED
    BY <2>1, <2>2
<1>2. \A i \in 1 .. Len(sent') : Ours(sent'[i]) => i \in 1 .. Len(sent) /\ sent'[i] = sent[i]
  BY <1>1
<1> QED
  BY <1>2 DEF Sent, Ours

\* The client takes a terminal event.
LEMMA FlowTell ==
    ASSUME StreamTyped, EndSound, NEW n \in Nat, NEW t \in Nat, Flow(n, t),
           AcceptError \/ Finish
    PROVE  Flow(n, t)'
<1>1. /\ UNCHANGED <<engineVars, producerVars, queue, hand, stop>>
      /\ \/ consumer' = "tellDone" /\ sent' = Append(sent, Error)
         \/ Left' /\ sent' \in {sent, Append(sent, Fin)}
  BY DEF AcceptError, Finish, Leaving, Left
<1>2. ~Listening' /\ consumer' # "send"
  BY <1>1 DEF Listening, Left
<1>3. consumer' = "tellDone" => Told("error")'
  <2>1. ASSUME sent' = Append(sent, Error) PROVE Told("error")'
    <3>1. Error \in Messages
      BY DEF Messages
    <3>2. Len(sent) + 1 \in 1 .. Len(sent') /\ sent'[Len(sent) + 1] = Error
      BY <2>1, <3>1, Appended, Shape
    <3> QED
      BY <3>2, MarkKinds DEF Told, SentKinds
  <2> QED
    BY <1>1, <2>1 DEF Left
<1>4. Counts(n, t)'
  BY <1>1 DEF Flow, Counts, Working, engineVars, producerVars
<1>5. Queued(n, t)'
  BY <1>1, <1>2 DEF Flow, Queued, engineVars, producerVars
<1>6. Sent(t)'
  BY <1>1, <1>2, SentMarked DEF Flow, engineVars
<1>7. Complete(t)' /\ Drained(n, t)'
  BY <1>2, <1>3 DEF Complete, Drained
<1> QED
  BY <1>4, <1>5, <1>6, <1>7 DEF Flow

\* The request thread waits, or leaves.
LEMMA FlowWait ==
    ASSUME StreamTyped, NEW n \in Nat, NEW t \in Nat, Flow(n, t),
           Idle \/ AcceptBeat \/ EnterFinally \/ JoinProducer \/ Departure \/ UNCHANGED streamVars
    PROVE  Flow(n, t)'
<1>1. /\ UNCHANGED <<engineVars, producerVars, queue, hand, sent>>
      /\ stop => stop'
      /\ \/ consumer' = consumer
         \/ Listening /\ consumer # "send" /\ Listening' /\ consumer' # "send"
         \/ Left'
  BY DEF Idle, AcceptBeat, EnterFinally, JoinProducer, Departure, Leave, LeaveAtEnd, Leaving,
         streamVars, consumerVars, Listening, Left
<1>2. Told("fin")' = Told("fin") /\ Told("error")' = Told("error")
  BY <1>1 DEF Told, SentKinds
<1>3. Counts(n, t)'
  BY <1>1 DEF Flow, Counts, Working, engineVars, producerVars
<1>4. Left' => ~Listening' /\ consumer' # "send" /\ consumer' # "tellDone"
  BY DEF Left, Listening
<1>5. Queued(n, t)'
  BY <1>1, <1>4 DEF Flow, Queued, engineVars, producerVars, Listening
<1>6. Sent(t)'
  BY <1>1, <1>4 DEF Flow, Sent, Ours, engineVars
<1>7. \A k : Took(k)' = Took(k)
  BY <1>1 DEF Took, engineVars
<1>8. Complete(t)'
  BY <1>1, <1>2, <1>4, <1>7 DEF Flow, Complete, Listening
<1>9. Drained(n, t)'
  BY <1>1, <1>2, <1>4 DEF Flow, Drained, Listening, engineVars, producerVars
<1> QED
  BY <1>3, <1>5, <1>6, <1>8, <1>9 DEF Flow

\* Whatever happens, nothing under way is lost, doubled or swapped.
LEMMA FlowStep ==
    ASSUME StreamTyped, EngineSound, ProducerSound, StopSound, EndSound,
           NEW n \in Nat, NEW t \in Nat, Flow(n, t), Step
    PROVE  \E k, l \in Nat : Flow(k, l)'
<1>1. CASE YieldItem \/ YieldReady \/ YieldFin
  <2>1. PICK kind \in Kinds : Yield(kind)
    BY <1>1 DEF YieldItem, YieldReady, YieldFin, Kinds
  <2>2. gen # "over"
    BY <1>1 DEF YieldItem, YieldReady, YieldFin
  <2> QED
    BY <2>1, <2>2, FlowYield
<1>2. CASE \/ Commit \/ EndReload \/ FallBack \/ PassStopTest \/ Exhaust \/ Cancel \/ Break
           \/ (stop /\ (EngineFails \/ BudgetExceeded))
  BY <1>2, FlowMoves
<1>3. CASE ~stop /\ (EngineFails \/ BudgetExceeded)
  BY <1>3, FlowFail
<1>4. CASE Put
  <2>1. n + 1 \in Nat
    OBVIOUS
  <2> QED
    BY <1>4, <2>1, FlowPut
<1>5. CASE Close
  BY <1>5, FlowClose
<1>6. CASE Take
  <2>1. t < n \/ t = n
    BY DEF Flow, Counts
  <2>2. t + 1 \in Nat
    OBVIOUS
  <2> QED
    BY <1>6, <2>1, <2>2, FlowTakeMessage, FlowTakeMark
<1>7. CASE Accept
  BY <1>7, FlowAccept
<1>8. CASE AcceptError \/ Finish
  BY <1>8, FlowTell
<1>9. CASE Idle \/ AcceptBeat \/ EnterFinally \/ JoinProducer \/ Departure \/ UNCHANGED streamVars
  BY <1>9, FlowWait
<1> QED
  BY <1>1, <1>2, <1>3, <1>4, <1>5, <1>6, <1>7, <1>8, <1>9
     DEF Step, StreamNext, Engine, Producer, Request, Client

------------------------------------------------------------------------------
(* What the learner is told.                                               *)

\* What one more event adds.
LEMMA ToldMore ==
    ASSUME StreamTyped, NEW e \in Messages, sent' = Append(sent, e)
    PROVE  /\ Len(sent) \in Nat /\ Len(sent') = Len(sent) + 1 /\ sent'[Len(sent) + 1] = e
           /\ \A i \in 1 .. Len(sent) : sent'[i] = sent[i]
           /\ \A kind : Told(kind)' <=> (Told(kind) \/ e[1] = kind)
<1>1. /\ Len(sent) \in Nat /\ Len(sent') = Len(sent) + 1 /\ sent'[Len(sent) + 1] = e
      /\ \A i \in 1 .. Len(sent) : sent'[i] = sent[i]
  BY Appended, Shape
<1>2. ASSUME NEW kind PROVE Told(kind)' <=> (Told(kind) \/ e[1] = kind)
  <2>1. ASSUME Told(kind)' PROVE Told(kind) \/ e[1] = kind
    <3>1. PICK i \in 1 .. Len(sent') : sent'[i][1] = kind
      BY <2>1 DEF Told, SentKinds
    <3>2. i \in 1 .. Len(sent) \/ i = Len(sent) + 1
      BY <1>1
    <3> QED
      BY <1>1, <3>1, <3>2 DEF Told, SentKinds
  <2>2. ASSUME Told(kind) PROVE Told(kind)'
    <3>1. PICK i \in 1 .. Len(sent) : sent[i][1] = kind
      BY <2>2 DEF Told, SentKinds
    <3>2. i \in 1 .. Len(sent') /\ sent'[i][1] = kind
      BY <1>1, <3>1
    <3> QED
      BY <3>2 DEF Told, SentKinds
  <2>3. ASSUME e[1] = kind PROVE Told(kind)'
    <3>1. Len(sent) + 1 \in 1 .. Len(sent')
      BY <1>1
    <3> QED
      BY <1>1, <2>3, <3>1 DEF Told, SentKinds
  <2> QED
    BY <2>1, <2>2, <2>3
<1> QED
  BY <1>1, <1>2

\* What is known when the client takes a message ...
LEMMA AtAccept ==
    ASSUME StreamTyped, EngineSound, EndSound, NEW n \in Nat, NEW t \in Nat, Flow(n, t), Accept
    PROVE  /\ hand \in Messages /\ t \in 1 .. Len(made) /\ hand = made[t]
           /\ hand[1] \in {"data", "ready", "fin"}
           /\ ~Told("fin") /\ ~Told("error") /\ producer # "none"
           /\ hand[1] = "fin" => t = Len(made) /\ gen = "over" /\ ~failed /\ Committed(Len(made))
<1>1. consumer = "send" /\ Listening
  BY DEF Accept, Listening
<1>2. t \in 1 .. Len(made) /\ hand = made[t] /\ hand[1] # "quiet"
  BY <1>1, Shape DEF Flow, Sent, Counts
<1>3. hand \in Messages /\ hand[1] \in Kinds
  BY <1>2, MarksApart, Shape
<1>4. ~Told("fin") /\ ~Told("error")
  BY <1>1 DEF Flow, Drained, EndSound, Left
<1>5. producer # "none"
  BY <1>1 DEF EndSound
<1> QED
  BY <1>2, <1>3, <1>4, <1>5 DEF EngineSound, Kinds

\* ... and when the stream finishes without an error.
LEMMA AtFinish ==
    ASSUME StreamTyped, ProducerSound, StopSound, EndSound,
           NEW n \in Nat, NEW t \in Nat, Flow(n, t), Finish, ~Told("error")
    PROVE  /\ producer = "ended" /\ ~failed /\ ~stop
           /\ t = Len(made) /\ gen = "over" /\ Committed(Len(made))
           /\ \A k \in 1 .. t : Took(k)
<1>1. consumer = "tellDone" /\ ~Left
  BY DEF Finish, Left
<1>2. producer = "ended" /\ ~failed /\ t = n /\ ~Working
  BY <1>1 DEF Flow, Drained, Working
<1>3. ~stop
  BY <1>1 DEF StopSound
<1>4. exhausted
  BY <1>2, <1>3, Shape DEF ProducerSound
<1>5. \A k \in 1 .. t : Took(k)
  BY <1>1 DEF Flow, Complete
<1> QED
  BY <1>2, <1>3, <1>4, <1>5 DEF Flow, Counts, ProducerSound

\* A stream that told DONE finishes without another one.
LEMMA FinishOnce ==
    ASSUME StreamTyped, StreamShape, Finish
    PROVE  \/ sent' = sent /\ Told("fin")
           \/ sent' = Append(sent, Fin) /\ ~Told("fin")
<1>1. Told("fin") => ClosedByEngine
  <2> SUFFICES ASSUME Told("fin") PROVE ClosedByEngine
    OBVIOUS
  <2>1. PICK i \in 1 .. Len(sent) : sent[i][1] = "fin"
    BY DEF Told, SentKinds
  <2>2. i = Len(sent)
    BY <2>1 DEF StreamShape
  <2>3. sent # <<>>
    BY <2>1
  <2> QED
    BY <2>1, <2>2, <2>3 DEF ClosedByEngine, Last
<1>2. ClosedByEngine => Told("fin")
  <2> SUFFICES ASSUME ClosedByEngine PROVE Told("fin")
    OBVIOUS
  <2>1. sent # <<>> /\ sent[Len(sent)][1] = "fin"
    BY DEF ClosedByEngine, Last
  <2>2. Len(sent) \in 1 .. Len(sent)
    BY <2>1, Shape
  <2> QED
    BY <2>1, <2>2 DEF Told, SentKinds
<1>3. sent' = IF ClosedByEngine THEN sent ELSE Append(sent, Fin)
  BY DEF Finish
<1> QED
  BY <1>1, <1>2, <1>3

\* Steps that tell the client nothing.
Silent ==
    \/ Engine \/ Producer \/ Request \/ AcceptBeat \/ Departure \/ UNCHANGED streamVars

LEMMA SilentKeeps ==
    ASSUME Silent
    PROVE  /\ sent' = sent
           /\ \A kind : Told(kind)' <=> Told(kind)
<1>1. sent' = sent
  BY DEF Silent, Engine, Producer, Request, Departure, YieldItem, YieldReady, YieldFin, Yield, Commit,
         EndReload, Exhaust, Cancel, FallBack, EngineFails, BudgetExceeded, Fail, PassStopTest,
         Put, Break, Close, Take, Idle, EnterFinally, JoinProducer, AcceptBeat, Leave,
         LeaveAtEnd, streamVars, consumerVars
<1> QED
  BY <1>1 DEF Told, SentKinds

\* DONE comes once and last, an error right before it.
LEMMA ShapeStep ==
    ASSUME StreamTyped, EngineSound, EndSound, StreamShape,
           NEW n \in Nat, NEW t \in Nat, Flow(n, t), Step
    PROVE  StreamShape'
<1>1. CASE Silent
  BY <1>1, SilentKeeps DEF StreamShape
<1>2. ASSUME NEW e \in Messages, sent' = Append(sent, e), ~Told("fin"),
             \A i \in 1 .. Len(sent) : sent[i][1] = "error" => i = Len(sent)
      PROVE  StreamShape'
  <2>1. /\ Len(sent) \in Nat /\ Len(sent') = Len(sent) + 1
        /\ \A i \in 1 .. Len(sent) : sent'[i] = sent[i]
    BY <1>2, ToldMore
  <2>2. \A i \in 1 .. Len(sent) : sent[i][1] # "fin"
    BY <1>2 DEF Told, SentKinds
  <2>3. ASSUME NEW i \in 1 .. Len(sent')
        PROVE  /\ sent'[i][1] = "fin" => i = Len(sent')
               /\ sent'[i][1] = "error" => i >= Len(sent') - 1
    <3>1. CASE i = Len(sent) + 1
      BY <2>1, <3>1
    <3>2. CASE i \in 1 .. Len(sent)
      BY <1>2, <2>1, <2>2, <3>2
    <3> QED
      BY <2>1, <3>1, <3>2
  <2> QED
    BY <2>3 DEF StreamShape
<1>3. ~Told("error") => \A i \in 1 .. Len(sent) : sent[i][1] # "error"
  BY DEF Told, SentKinds
<1>4. CASE Accept
  <2>1. sent' = Append(sent, hand)
    BY <1>4 DEF Accept
  <2> QED
    BY <1>2, <1>3, <1>4, <2>1, AtAccept
<1>5. CASE AcceptError
  <2>1. /\ sent' = Append(sent, Error) /\ Error \in Messages
        /\ ~Told("fin") /\ ~Told("error")
    BY <1>5 DEF AcceptError, EndSound, Messages
  <2> QED
    BY <1>2, <1>3, <2>1
<1>6. CASE Finish
  <2>1. Fin \in Messages /\ consumer = "tellDone"
    BY <1>6 DEF Messages, Finish
  <2>2. \A i \in 1 .. Len(sent) : sent[i][1] = "error" => i = Len(sent)
    BY <1>3, <2>1 DEF EndSound
  <2>3. CASE sent' = sent
    BY <2>3 DEF StreamShape
  <2> QED
    BY <1>2, <1>6, <2>1, <2>2, <2>3, FinishOnce
<1> QED
  BY <1>1, <1>4, <1>5, <1>6 DEF Step, StreamNext, Client, Silent

\* What the learner was told agrees with how the run went.
LEMMA EndStep ==
    ASSUME StreamTyped, EngineSound, ProducerSound, StopSound, EndSound, StreamShape,
           NEW n \in Nat, NEW t \in Nat, Flow(n, t), Step
    PROVE  EndSound'
<1>1. CASE Engine \/ Producer
  <2>1. /\ UNCHANGED consumer
        /\ producer # "none" /\ producer' # "none"
    BY <1>1
       DEF Engine, Producer, YieldItem, YieldReady, YieldFin, Yield, Commit, EndReload, Exhaust,
           Cancel, FallBack, EngineFails, BudgetExceeded, Fail, PassStopTest, Put, Break, Close,
           consumerVars, producerVars
  <2>2. /\ failed => failed'
        /\ gen = "over" => gen' = "over" /\ failed' = failed
    BY <1>1
       DEF Engine, Producer, YieldItem, YieldReady, YieldFin, Yield, Commit, EndReload, Exhaust,
           Cancel, FallBack, EngineFails, BudgetExceeded, Fail, PassStopTest, Put, Break, Close,
           producerVars, engineVars
  <2>3. sent' = sent /\ \A kind : Told(kind)' <=> Told(kind)
    BY <1>1, SilentKeeps DEF Silent
  <2> QED
    BY <2>1, <2>2, <2>3 DEF EndSound, Left
<1>2. CASE Take
  <2>1. Listening /\ UNCHANGED <<failed, gen, producer>>
    BY <1>2 DEF Take, Listening, engineVars, producerVars
  <2>2. consumer' \in {"poll", "send", "tellError", "tellDone"}
    BY <1>2 DEF Take, Dispatch
  <2>3. ~Told("error") /\ producer # "none" /\ (Told("fin") => ~failed)
    BY <2>1 DEF EndSound, Listening, Left
  <2>4. consumer' = "tellError" => failed
    <3> SUFFICES ASSUME consumer' = "tellError" PROVE failed
      OBVIOUS
    <3>1. queue # <<>> /\ Head(queue)[1] = "error"
      BY <1>2 DEF Take, Dispatch
    <3>2. queue[1] = Head(queue) /\ Head(queue) \in Messages \cup {DoneMark} /\ 1 \in 1 .. Len(queue)
      BY <3>1, Taken, Shape
    <3>3. Head(queue) = Error
      BY <3>1, <3>2, MessageKinds, MarkKinds
    <3> QED
      BY <3>2, <3>3 DEF Flow, Queued
  <2>5. consumer' = "tellError" => ~Told("fin")
    BY <2>3, <2>4
  <2>6. sent' = sent /\ \A kind : Told(kind)' <=> Told(kind)
    BY <1>2, SilentKeeps DEF Silent, Request
  <2> QED
    BY <2>1, <2>2, <2>3, <2>4, <2>5, <2>6 DEF EndSound
<1>3. CASE Idle \/ AcceptBeat \/ EnterFinally \/ JoinProducer \/ Departure \/ UNCHANGED streamVars
  <2>1. /\ UNCHANGED <<failed, gen, producer>>
        /\ \/ consumer' = consumer
           \/ consumer' \in {"poll", "sleep", "beat"} /\ Listening
           \/ Left' /\ (producer = "none" => consumer' = "closed" \/ consumer \notin {"tellError", "tellDone"})
    BY <1>3
       DEF Idle, AcceptBeat, EnterFinally, JoinProducer, Departure, Leave, LeaveAtEnd, Leaving,
           streamVars, engineVars, producerVars, consumerVars, Left, Listening
  <2>2. sent' = sent /\ \A kind : Told(kind)' <=> Told(kind)
    BY <1>3, SilentKeeps DEF Silent, Request
  <2>3. producer = "none" => consumer' \in {"tellError", "tellDone", "closed"}
    BY <1>3 
       DEF EndSound, Idle, AcceptBeat, EnterFinally, JoinProducer, Departure, Leave, LeaveAtEnd, Leaving,
           streamVars, consumerVars
  <2>4. Listening => ~Told("error")
    BY DEF EndSound, Listening, Left
  <2>5. Left' => consumer' # "tellError" /\ consumer' # "tellDone"
    BY DEF Left
  <2> QED
    BY <2>1, <2>2, <2>3, <2>4, <2>5 DEF EndSound, Left
<1>4. CASE Accept
  <2>1. /\ consumer' = "poll" /\ sent' = Append(sent, hand)
        /\ UNCHANGED <<failed, gen, producer>>
    BY <1>4 DEF Accept, engineVars, producerVars
  <2>2. /\ Told("fin")' => gen = "over" /\ ~failed
        /\ ~Told("error")' /\ producer # "none"
    BY <1>4, <2>1, AtAccept, ToldMore
  <2> QED
    BY <2>1, <2>2 DEF EndSound
<1>5. CASE AcceptError
  <2>1. /\ consumer = "tellError" /\ consumer' = "tellDone" /\ sent' = Append(sent, Error)
        /\ UNCHANGED <<failed, gen, producer>>
    BY <1>5 DEF AcceptError, engineVars, producerVars
  <2>2. ~Told("fin") /\ ~Told("error") /\ (producer = "none" \/ failed)
    BY <2>1 DEF EndSound
  <2>3. Error \in Messages
    BY DEF Messages
  <2>4. Told("error")' /\ ~Told("fin")'
    BY <2>1, <2>2, <2>3, ToldMore, MarkKinds
  <2>5. \A i \in 1 .. Len(sent') : sent'[i][1] = "error" => i = Len(sent')
    <3>1. \A i \in 1 .. Len(sent) : sent[i][1] # "error"
      BY <2>2 DEF Told, SentKinds
    <3> QED
      BY <2>1, <2>3, <3>1, ToldMore
  <2> QED
    BY <2>1, <2>2, <2>4, <2>5 DEF EndSound
<1>6. CASE Finish
  <2>1. /\ consumer = "tellDone" /\ Left'
        /\ producer = "none" => consumer' = "closed"
        /\ UNCHANGED <<failed, gen, producer>>
    BY <1>6 DEF Finish, Leaving, Left, engineVars, producerVars
  <2>2. Fin \in Messages
    BY DEF Messages
  <2>3. Told("error")' <=> Told("error")
    <3>1. CASE sent' = sent
      BY <3>1 DEF Told, SentKinds
    <3> QED
      BY <1>6, <2>2, <3>1, FinishOnce, ToldMore, MarkKinds
  <2>4. ~Told("error") => ~failed /\ producer = "ended" /\ gen = "over"
    BY <1>6, AtFinish
  <2>5. consumer' # "tellError" /\ consumer' # "tellDone"
    BY <2>1 DEF Left
  <2>6. Told("error") => producer = "none" \/ failed
    BY DEF EndSound
  <2> QED
    BY <2>1, <2>3, <2>4, <2>5, <2>6 DEF EndSound
<1> QED
  BY <1>1, <1>2, <1>3, <1>4, <1>5, <1>6 DEF Step, StreamNext, Request, Client

\* A learner told DONE has all of what was shown, in order, and committed.
LEMMA DoneStep ==
    ASSUME StreamTyped, EngineSound, ProducerSound, StopSound, EndSound, StreamShape, DoneMeansDelivered,
           NEW n \in Nat, NEW t \in Nat, Flow(n, t), Step
    PROVE  DoneMeansDelivered'
<1> SUFFICES ASSUME Told("fin")', ~Told("error")'
             PROVE  /\ {sent'[i] : i \in 1 .. Len(sent') - 1}
                          = {made'[i] : i \in {j \in 1 .. Len(made') : made'[j][1] \in {"data", "ready"}}}
                    /\ \A i, j \in 1 .. Len(sent') - 1 : i < j => sent'[i][2] < sent'[j][2]
                    /\ Committed(Len(made))'
  BY DEF DoneMeansDelivered
<1>1. ASSUME Told("fin"), sent' = sent
      PROVE  /\ {sent'[i] : i \in 1 .. Len(sent') - 1}
                   = {made'[i] : i \in {j \in 1 .. Len(made') : made'[j][1] \in {"data", "ready"}}}
             /\ \A i, j \in 1 .. Len(sent') - 1 : i < j => sent'[i][2] < sent'[j][2]
             /\ Committed(Len(made))'
  <2>1. ~Told("error")
    BY <1>1 DEF Told, SentKinds
  <2>2. gen = "over"
    BY <1>1, <2>1 DEF EndSound
  <2>3. UNCHANGED <<made, durable>>
    BY <2>2
       DEF Step, StreamNext, Engine, Producer, Request, Client, Departure, YieldItem, YieldReady, YieldFin,
           Commit, EndReload, Exhaust, Cancel, FallBack, EngineFails, BudgetExceeded, Fail, PassStopTest,
           Put, Break, Close, Take, Idle, EnterFinally, JoinProducer, Accept, AcceptBeat, AcceptError,
           Finish, Leave, LeaveAtEnd, streamVars, engineVars
  <2>4. Committed(Len(made)) => Committed(Len(made))'
    BY <2>3 DEF Committed
  <2>5. /\ {sent[i] : i \in 1 .. Len(sent) - 1}
             = {made[i] : i \in {j \in 1 .. Len(made) : made[j][1] \in {"data", "ready"}}}
        /\ \A i, j \in 1 .. Len(sent) - 1 : i < j => sent[i][2] < sent[j][2]
        /\ Committed(Len(made))
    BY <1>1, <2>1 DEF DoneMeansDelivered
  <2>6. {sent'[i] : i \in 1 .. Len(sent') - 1}
          = {made'[i] : i \in {j \in 1 .. Len(made') : made'[j][1] \in {"data", "ready"}}}
    BY <1>1, <2>3, <2>5, Zenon
  <2>7. \A i, j \in 1 .. Len(sent') - 1 : i < j => sent'[i][2] < sent'[j][2]
    BY <1>1, <2>5, Zenon
  <2> QED
    BY <2>4, <2>5, <2>6, <2>7
<1>2. ASSUME NEW e \in Messages, sent' = Append(sent, e), UNCHANGED <<made, durable>>,
             ~Told("fin"), ~Told("error"),
             \A k \in 1 .. Len(made) : made[k][1] \in {"data", "ready"} => Took(k),
             Committed(Len(made))
      PROVE  /\ {sent'[i] : i \in 1 .. Len(sent') - 1}
                   = {made'[i] : i \in {j \in 1 .. Len(made') : made'[j][1] \in {"data", "ready"}}}
             /\ \A i, j \in 1 .. Len(sent') - 1 : i < j => sent'[i][2] < sent'[j][2]
             /\ Committed(Len(made))'
  <2>1. /\ Len(sent) \in Nat /\ Len(sent') = Len(sent) + 1
        /\ \A i \in 1 .. Len(sent) : sent'[i] = sent[i]
    BY <1>2, ToldMore
  <2>2. Len(sent') - 1 = Len(sent)
    BY <2>1
  <2>3. ASSUME NEW i \in 1 .. Len(sent)
        PROVE  /\ Ours(sent[i]) /\ sent[i][1] \in {"data", "ready"}
               /\ sent[i][2] \in 1 .. Len(made) /\ sent[i] = made[sent[i][2]]
    <3>1. sent[i][1] # "fin" /\ sent[i][1] # "error"
      BY <1>2 DEF Told, SentKinds
    <3>2. Ours(sent[i])
      BY <3>1, MarkKinds DEF Ours
    <3>3. sent[i][2] \in 1 .. t /\ sent[i] = made[sent[i][2]] /\ sent[i][1] # "quiet"
      <4>1. Sent(t)
        BY DEF Flow
      <4> QED
        BY <3>2, <4>1 DEF Sent
    <3>4. sent[i][2] \in 1 .. Len(made)
      BY <3>3, Shape DEF Flow, Counts
    <3>5. sent[i][1] \in Kinds
      BY <3>3, <3>4, MarksApart, Shape
    <3> QED
      BY <3>1, <3>2, <3>3, <3>4, <3>5 DEF Kinds
  <2>4. {sent[i] : i \in 1 .. Len(sent)}
          = {made[i] : i \in {j \in 1 .. Len(made) : made[j][1] \in {"data", "ready"}}}
    <3>1. ASSUME NEW i \in 1 .. Len(sent)
          PROVE  \E k \in {j \in 1 .. Len(made) : made[j][1] \in {"data", "ready"}} : sent[i] = made[k]
      BY <2>3
    <3>2. ASSUME NEW k \in 1 .. Len(made), made[k][1] \in {"data", "ready"}
          PROVE  \E i \in 1 .. Len(sent) : made[k] = sent[i]
      BY <1>2, <3>2 DEF Took
    <3>3. \A k \in {j \in 1 .. Len(made) : made[j][1] \in {"data", "ready"}} :
              \E i \in 1 .. Len(sent) : made[k] = sent[i]
      BY <3>2
    <3> DEFINE D == {j \in 1 .. Len(made) : made[j][1] \in {"data", "ready"}}
    <3>4. \A i \in 1 .. Len(sent) : \E k \in D : sent[i] = made[k]
      BY <3>1
    <3>5. \A k \in D : \E i \in 1 .. Len(sent) : made[k] = sent[i]
      BY <3>3
    <3> HIDE DEF D
    <3>6. {sent[i] : i \in 1 .. Len(sent)} = {made[i] : i \in D}
      <4>1. ASSUME NEW m \in {sent[i] : i \in 1 .. Len(sent)} PROVE m \in {made[i] : i \in D}
        BY <3>4
      <4>2. ASSUME NEW m \in {made[i] : i \in D} PROVE m \in {sent[i] : i \in 1 .. Len(sent)}
        BY <3>5
      <4> QED
        BY <4>1, <4>2
    <3> QED
      BY <3>6 DEF D
  <2>5. {sent'[i] : i \in 1 .. Len(sent)} = {sent[i] : i \in 1 .. Len(sent)}
    BY <2>1
  <2>6. \A i, j \in 1 .. Len(sent) : i < j => sent[i][2] < sent[j][2]
    BY <2>3 DEF Flow, Sent
  <2>7. Committed(Len(made))'
    BY <1>2 DEF Committed
  <2>8. {sent'[i] : i \in 1 .. Len(sent') - 1}
          = {made'[i] : i \in {j \in 1 .. Len(made') : made'[j][1] \in {"data", "ready"}}}
    <3>1. {sent'[i] : i \in 1 .. Len(sent') - 1} = {sent'[i] : i \in 1 .. Len(sent)}
      BY <2>2
    <3>2. made' = made
      BY <1>2
    <3> QED
      BY <2>4, <2>5, <3>1, <3>2, Zenon
  <2>9. \A i, j \in 1 .. Len(sent') - 1 : i < j => sent'[i][2] < sent'[j][2]
    BY <2>1, <2>2, <2>6
  <2> QED
    BY <2>7, <2>8, <2>9
<1>3. CASE Silent
  BY <1>1, <1>3, SilentKeeps
<1>4. CASE Accept
  <2>1. sent' = Append(sent, hand) /\ UNCHANGED <<made, durable>> /\ Listening
    BY <1>4 DEF Accept, engineVars, Listening
  <2>2. hand \in Messages /\ ~Told("fin") /\ ~Told("error")
    BY <1>4, AtAccept
  <2>3. hand[1] = "fin"
    BY <2>1, <2>2, ToldMore
  <2>4. t = Len(made) /\ hand = made[t] /\ Committed(Len(made))
    BY <1>4, <2>3, AtAccept
  <2>5. \A k \in 1 .. Len(made) : made[k][1] \in {"data", "ready"} => Took(k)
    BY <2>1, <2>3, <2>4 DEF Flow, Complete
  <2> QED
    BY <1>2, <2>1, <2>2, <2>4, <2>5
<1>5. CASE AcceptError
  <2>1. sent' = Append(sent, Error) /\ Error \in Messages
    BY <1>5 DEF AcceptError, Messages
  <2> QED
    BY <2>1, ToldMore, MarkKinds
<1>6. CASE Finish
  <2>1. Fin \in Messages /\ UNCHANGED <<made, durable>>
    BY <1>6 DEF Messages, Finish, engineVars
  <2>2. CASE sent' = Append(sent, Fin) /\ ~Told("fin")
    <3>1. ~Told("error")
      BY <2>1, <2>2, ToldMore
    <3>2. t = Len(made) /\ Committed(Len(made)) /\ \A k \in 1 .. t : Took(k)
      BY <1>6, <3>1, AtFinish
    <3> QED
      BY <1>2, <2>1, <2>2, <3>1, <3>2
  <2> QED
    BY <1>1, <1>6, <2>2, FinishOnce
<1> QED
  BY <1>3, <1>4, <1>5, <1>6 DEF Step, StreamNext, Client, Silent

------------------------------------------------------------------------------
\* A stream starts in order.
LEMMA StreamStarts == StreamInit => StreamIInv
<1> SUFFICES ASSUME StreamInit PROVE StreamIInv
  OBVIOUS
<1>1. made = <<>> /\ sent = <<>> /\ queue = <<>> /\ Len(made) = 0 /\ Len(sent) = 0 /\ Len(queue) = 0
  BY DEF StreamInit
<1>2. \A kind : ~Told(kind)
  BY <1>1 DEF Told, SentKinds
<1>3. /\ producer \in {"engine", "none"} /\ gen \in {"steps", "reload"} /\ durable = 0
      /\ failed = FALSE /\ exhausted = FALSE /\ dirty = FALSE /\ stop = FALSE /\ conn = "out"
      /\ late = 0 /\ hand = Fin /\ engine \in Engines
  BY DEF StreamInit
<1>4. /\ consumer \in {"poll", "tellError"}
      /\ producer = "none" <=> consumer = "tellError"
  BY DEF StreamInit
<1>5. Fin # DoneMark /\ Fin \in Messages
  BY MarkKinds DEF Messages
<1>6. StreamTyped
  <2>1. /\ made \in Seq(Kinds \X (1 .. MaxItems)) /\ sent \in Seq(Messages)
        /\ queue \in Seq(Messages \cup {DoneMark})
    BY <1>1
  <2>2. producer \in ProducerStates /\ gen \in GenStates /\ consumer \in ConsumerStates
    BY <1>3, <1>4 DEF GenStates, ProducerStates, ConsumerStates
  <2>3. durable \in 0 .. Len(made) /\ late \in Nat /\ engine \in Engines \cup {"legacy"}
    BY <1>1, <1>3
  <2> QED
    BY <1>3, <1>4, <1>5, <2>1, <2>2, <2>3 DEF StreamTyped, StreamTypeOK
<1>7. EngineSound /\ ProducerSound
  BY <1>1, <1>3 DEF EngineSound, ProducerSound, Working
<1>8. StopSound
  BY <1>3 DEF StopSound
<1>9. Flow(0, 0)
  <2>1. Counts(0, 0)
    BY <1>1, <1>3 DEF Counts, Working
  <2>2. Queued(0, 0)
    BY <1>1, <1>3 DEF Queued
  <2>3. Sent(0)
    BY <1>1, <1>4 DEF Sent
  <2>4. Complete(0) /\ Drained(0, 0)
    BY <1>2, <1>4 DEF Complete, Drained
  <2> QED
    BY <2>1, <2>2, <2>3, <2>4 DEF Flow
<1>10. EndSound
  BY <1>2, <1>3, <1>4 DEF EndSound
<1>11. StreamShape /\ DoneMeansDelivered
  BY <1>1, <1>2 DEF StreamShape, DoneMeansDelivered
<1> QED
  BY <1>6, <1>7, <1>8, <1>9, <1>10, <1>11 DEF StreamIInv

\* The invariant of a stream is inductive.
THEOREM StreamInvariant == StreamSpec => []StreamIInv
<1>1. StreamIInv /\ [StreamNext]_streamVars => StreamIInv'
  <2> SUFFICES ASSUME StreamIInv, [StreamNext]_streamVars PROVE StreamIInv'
    OBVIOUS
  <2>1. Step
    BY DEF Step
  <2>2. PICK n \in Nat, t \in Nat : Flow(n, t)
    BY DEF StreamIInv
  <2>3. StreamTyped'
    BY <2>1, StepTyped DEF StreamIInv, EngineSound
  <2>4. EngineSound' /\ ProducerSound' /\ StopSound'
    BY <2>1, EngineStep, ProducerStep, StopStep DEF StreamIInv
  <2>5. \E k, l \in Nat : Flow(k, l)'
    BY <2>1, <2>2, FlowStep DEF StreamIInv
  <2>6. EndSound' /\ StreamShape' /\ DoneMeansDelivered'
    BY <2>1, <2>2, EndStep, ShapeStep, DoneStep DEF StreamIInv
  <2> QED
    BY <2>3, <2>4, <2>5, <2>6 DEF StreamIInv
<1> QED
  BY <1>1, StreamStarts, PTL DEF StreamSpec

\* Every reachable state of a stream is well typed.
THEOREM StreamTypeCorrect == StreamSpec => []StreamTypeOK
<1>1. StreamIInv => StreamTypeOK
  BY DEF StreamIInv, StreamTyped
<1> QED
  BY <1>1, StreamInvariant, PTL

\* The browser sees one DONE, at the end, and an error only right before it.
THEOREM ShapeKept == StreamSpec => []StreamShape
<1>1. StreamIInv => StreamShape
  BY DEF StreamIInv
<1> QED
  BY <1>1, StreamInvariant, PTL

\* A learner told DONE without an error received all that was shown, in
\* order, and it is committed.
THEOREM DoneDelivers == StreamSpec => []DoneMeansDelivered
<1>1. StreamIInv => DoneMeansDelivered
  BY DEF StreamIInv
<1> QED
  BY <1>1, StreamInvariant, PTL

\* The rows before a readiness event are committed before it is yielded.
THEOREM ReadyIsDurable == StreamSpec => []ReadyMeansDurable
<1>1. StreamIInv => ReadyMeansDurable
  BY DEF StreamIInv, EngineSound, ReadyMeansDurable
<1> QED
  BY <1>1, StreamInvariant, PTL

\* A connection that may have lost its protocol state is discarded.
THEOREM NoDirtyConnection == StreamSpec => []DirtyConnectionNeverPooled
<1>1. StreamIInv => DirtyConnectionNeverPooled
  BY DEF StreamIInv, ProducerSound, DirtyConnectionNeverPooled
<1> QED
  BY <1>1, StreamInvariant, PTL

\* Whoever stays to the end of a failed or refused run is told of it.
THEOREM FailureTold == StreamSpec => []FailureIsTold
<1>1. StreamIInv => FailureIsTold
  BY DEF StreamIInv, EndSound, FailureIsTold
<1> QED
  BY <1>1, StreamInvariant, PTL

\* The engine yields at most one message after the client has left.
THEOREM EngineStops == StreamSpec => []EngineStopsWithClient
<1>1. StreamIInv => EngineStopsWithClient
  BY DEF StreamIInv, StopSound, EngineStopsWithClient
<1> QED
  BY <1>1, StreamInvariant, PTL
==============================================================================
