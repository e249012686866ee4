-------------------------- MODULE TurnBridgeProofs --------------------------
(***************************************************************************)
(* Proofs about TurnBridge, for any finite set of turns and any limits.    *)
(* The inductive invariant is the type invariant, the coupling of the two  *)
(* threads of a turn, and the slot accounting.                             *)
(***************************************************************************)
EXTENDS TurnBridge, FiniteSetTheorems, TLAPS

\* A turn has a producer exactly when its request thread got past _spawn.
Coupling ==
    \A t \in Turns :
        producer[t] = "none" <=>
            consumer[t] \in {"idle", "refused", "failed", "admitted"}

IInv == TypeOK /\ Coupling /\ SlotAccounting

\* Every step of one turn, the two threads and their environment.
Step(t) == Spawn(t) \/ Poll(t) \/ Closing(t) \/ Produce(t) \/ Environment(t)

\* Every reachable state of the bridge is well typed.
THEOREM TypeCorrect == Spec => []TypeOK
<1> USE LimitsAssumption
<1>1. Init => TypeOK
  BY DEF Init, TypeOK, ConsumerStates, ProducerStates
<1>2. TypeOK /\ [Next]_vars => TypeOK'
  <2> SUFFICES ASSUME TypeOK, [Next]_vars PROVE TypeOK'
    OBVIOUS
  <2> USE DEF ConsumerGoes, ProducerGoes, ConsumerStates, ProducerStates, shared
  <2>1. ASSUME NEW t \in Turns, Spawn(t) PROVE TypeOK'
    BY <2>1 DEF Spawn, TypeOK
  <2>2. ASSUME NEW t \in Turns, Poll(t) PROVE TypeOK'
    <3>1. CASE TakeEvent(t)
      <4>1. /\ events[t] \in Seq(Nat \cup {Done}) /\ events[t] # <<>>
            /\ Head(events[t]) \in Nat /\ Tail(events[t]) \in Seq(Nat \cup {Done})
        BY <3>1 DEF TakeEvent, TypeOK
      <4>2. Append(delivered[t], Head(events[t])) \in Seq(Nat)
        BY <4>1 DEF TypeOK
      <4> QED
        BY <3>1, <4>1, <4>2 DEF TakeEvent, TypeOK
    <3>2. CASE TakeDone(t)
      <4>1. Tail(events[t]) \in Seq(Nat \cup {Done})
        BY <3>2 DEF TakeDone, TypeOK
      <4> QED
        BY <3>2, <4>1 DEF TakeDone, TypeOK
    <3>3. CASE FindEmpty(t)
      BY <3>3 DEF FindEmpty, TypeOK
    <3>4. CASE CheckRunning(t)
      BY <3>4 DEF CheckRunning, TypeOK
    <3>5. CASE CheckEmpty(t)
      BY <3>5 DEF CheckEmpty, TypeOK
    <3>6. CASE Sleep(t)
      BY <3>6 DEF Sleep, TypeOK
    <3> QED
      BY <2>2, <3>1, <3>2, <3>3, <3>4, <3>5, <3>6 DEF Poll
  <2>3. ASSUME NEW t \in Turns, Closing(t) PROVE TypeOK'
    <3>1. CASE SetStop(t)
      BY <3>1 DEF SetStop, TypeOK
    <3>2. CASE RequestCancel(t)
      BY <3>2 DEF RequestCancel, TypeOK
    <3>3. CASE CallCancel(t)
      BY <3>3 DEF CallCancel, TypeOK
    <3>4. CASE EndDrain(t)
      BY <3>4 DEF EndDrain, Finish, TypeOK
    <3> QED
      BY <2>3, <3>1, <3>2, <3>3, <3>4 DEF Closing
  <2>4. ASSUME NEW t \in Turns, Produce(t) PROVE TypeOK'
    <3>1. CASE MakeEvents(t)
      BY <3>1 DEF MakeEvents, TypeOK
    <3>2. CASE PublishCancel(t)
      BY <3>2 DEF PublishCancel, TypeOK
    <3>3. CASE RunLoop(t)
      BY <3>3 DEF RunLoop, TypeOK
    <3>4. CASE CancelEngine(t)
      BY <3>4 DEF CancelEngine, TypeOK
    <3>5. CASE PutEvent(t)
      <4>1. Append(events[t], emitted[t]) \in Seq(Nat \cup {Done})
        BY DEF TypeOK
      <4> QED
        BY <3>5, <4>1 DEF PutEvent, TypeOK
    <3>6. CASE SeeStop(t)
      BY <3>6 DEF SeeStop, TypeOK
    <3>7. CASE CancelBackOff(t)
      BY <3>7 DEF CancelBackOff, TypeOK
    <3>8. CASE Unwind(t)
      BY <3>8 DEF Unwind, TypeOK
    <3>9. CASE CancelUnwind(t)
      BY <3>9 DEF CancelUnwind, TypeOK
    <3>10. CASE Teardown(t)
      BY <3>10 DEF Teardown, TypeOK
    <3>11. CASE ReleaseSlot(t)
      BY <3>11 DEF ReleaseSlot, Release, TypeOK
    <3>12. CASE PutDone(t)
      <4>1. Append(events[t], Done) \in Seq(Nat \cup {Done})
        BY DEF TypeOK
      <4> QED
        BY <3>12, <4>1 DEF PutDone, TypeOK
    <3>13. CASE Exit(t)
      BY <3>13 DEF Exit, TypeOK
    <3> QED
      BY <2>4, <3>1, <3>2, <3>3, <3>4, <3>5, <3>6, <3>7, <3>8, <3>9, <3>10,
         <3>11, <3>12, <3>13 DEF Produce
  <2>5. ASSUME NEW t \in Turns, Environment(t) PROVE TypeOK'
    <3>1. CASE Admit(t)
      BY <3>1 DEF Admit, TypeOK
    <3>9. CASE Refuse(t)
      BY <3>9 DEF Refuse, TypeOK
    <3>2. CASE SpawnFails(t)
      BY <3>2 DEF SpawnFails, Release, TypeOK
    <3>3. CASE Resume(t) \/ Leave(t)
      BY <3>3 DEF Resume, Leave, TypeOK
    <3>4. CASE Drain(t)
      <4>1. <<>> \in Seq(Nat \cup {Done})
        OBVIOUS
      <4> QED
        BY <3>4, <4>1 DEF Drain, TypeOK
    <3>5. CASE LoopFails(t) \/ MakeEventsFails(t)
      BY <3>5 DEF LoopFails, MakeEventsFails, TypeOK
    <3>6. CASE Emit(t)
      BY <3>6 DEF Emit, TypeOK
    <3>7. CASE EngineEnds(t)
      BY <3>7 DEF EngineEnds, TypeOK
    <3>8. CASE Block(t) \/ Unblock(t)
      BY <3>8 DEF Block, Unblock, TypeOK
    <3> QED
      BY <2>5, <3>1, <3>2, <3>3, <3>4, <3>5, <3>6, <3>7, <3>8, <3>9 DEF Environment
  <2>6. CASE UNCHANGED vars
    BY <2>6 DEF vars, TypeOK
  <2> QED
    BY <2>1, <2>2, <2>3, <2>4, <2>5, <2>6 DEF Next
<1> QED
  BY <1>1, <1>2, PTL DEF Spec

------------------------------------------------------------------------------
(* Slots.                                                                  *)

\* What any step of turn t does to the slots: take one, be refused one, give
\* one back, lose one, or none of these.
SlotStep(t) ==
    \/ /\ t \notin Holders \cup Lost \cup Refused \cup Over
       /\ inFlight < MaxTurns
       /\ inFlight' = inFlight + 1
       /\ Holders' = Holders \cup {t}
       /\ Lost' = Lost /\ Refused' = Refused /\ Over' = Over
    \/ /\ t \notin Holders \cup Lost \cup Refused \cup Over
       /\ inFlight >= MaxTurns
       /\ inFlight' = inFlight
       /\ Refused' = Refused \cup {t}
       /\ Holders' = Holders /\ Lost' = Lost /\ Over' = Over
    \/ /\ t \in Holders \ Lost
       /\ Release
       /\ Holders' = Holders \ {t}
       /\ Over' = Over \cup {t}
       /\ Lost' = Lost /\ Refused' = Refused
    \/ /\ t \in Holders
       /\ inFlight' = inFlight
       /\ Holders' = Holders \ {t}
       /\ Lost' = Lost \cup {t}
       /\ Refused' = Refused /\ Over' = Over
    \/ /\ inFlight' = inFlight
       /\ Holders' = Holders /\ Lost' = Lost /\ Refused' = Refused /\ Over' = Over

\* A move of the request thread after _spawn concerns no slot.
LEMMA ConsumerMoveKeepsSlots ==
  ASSUME TypeOK, Coupling, NEW t \in Turns, NEW from, NEW to,
         ConsumerGoes(t, from, to), producer' = producer, inFlight' = inFlight,
         from \notin {"idle", "refused", "failed", "admitted"},
         to \in ConsumerStates \ {"idle", "refused", "failed", "admitted"}
  PROVE  Coupling' /\ SlotStep(t)
BY DEF ConsumerGoes, ConsumerStates, Unreleased, Holders, Lost, Refused, Over, TypeOK,
       Coupling, SlotStep

\* Nor does a move of the producer that gives nothing back.
LEMMA ProducerMoveKeepsSlots ==
  ASSUME TypeOK, Coupling, NEW t \in Turns, NEW from, NEW to,
         ProducerGoes(t, from, to), consumer' = consumer, inFlight' = inFlight,
         from # "none", to # "none", from \in Unreleased <=> to \in Unreleased,
         from = "lost" <=> to = "lost",
         from \in {"released", "exiting", "dead"} <=> to \in {"released", "exiting", "dead"}
  PROVE  Coupling' /\ SlotStep(t)
<1>1. /\ producer[t] = from /\ producer'[t] = to
      /\ \A u \in Turns : u # t => producer'[u] = producer[u]
  BY DEF ProducerGoes, TypeOK
<1>2. Coupling'
  BY <1>1 DEF Coupling
<1>3. \A u \in Turns :
        /\ producer'[u] \in Unreleased <=> producer[u] \in Unreleased
        /\ producer'[u] = "lost" <=> producer[u] = "lost"
        /\ producer'[u] \in {"released", "exiting", "dead"} <=>
                producer[u] \in {"released", "exiting", "dead"}
  BY <1>1
<1>4. Holders' = Holders /\ Lost' = Lost /\ Refused' = Refused /\ Over' = Over
  BY <1>3 DEF Holders, Lost, Refused, Over
<1> QED
  BY <1>2, <1>4 DEF SlotStep

\* Each action of each thread is one of the five slot steps, and keeps the two
\* threads of the turn coupled.
LEMMA StepIsSlotStep ==
  ASSUME TypeOK, Coupling, NEW t \in Turns, Step(t)
  PROVE  Coupling' /\ SlotStep(t)
<1> USE DEF ConsumerGoes, ProducerGoes, ConsumerStates, ProducerStates, shared,
            Unreleased, Holders, Lost, Refused, Over, TypeOK, Coupling, SlotStep
<1>1. CASE Spawn(t)
  BY <1>1 DEF Spawn
<1>2. CASE Poll(t)
  <2>1. producer' = producer /\ inFlight' = inFlight
    BY <1>2 DEF Poll, TakeEvent, TakeDone, FindEmpty, CheckRunning, CheckEmpty, Sleep
  <2>2. PICK from \in {"poll", "checkRunning", "checkEmpty", "sleep"},
             to \in {"poll", "checkRunning", "checkEmpty", "sleep", "yielded",
                     "closing"} : ConsumerGoes(t, from, to)
    BY <1>2 DEF Poll, TakeEvent, TakeDone, FindEmpty, CheckRunning, CheckEmpty, Sleep
  <2>3. /\ from \notin {"idle", "refused", "failed", "admitted"}
        /\ to \in ConsumerStates \ {"idle", "refused", "failed", "admitted"}
    OBVIOUS
  <2> HIDE DEF ConsumerGoes, ConsumerStates, Unreleased, Holders, Lost, Refused, Over,
               TypeOK, Coupling, SlotStep
  <2> QED
    BY <2>1, <2>2, <2>3, ConsumerMoveKeepsSlots
<1>3. CASE Closing(t)
  <2>1. /\ producer' = producer /\ inFlight' = inFlight
        /\ \E from \in {"closing", "cancelling", "cancelCall", "draining"},
              to \in {"cancelling", "cancelCall", "draining", "returned"} :
                  ConsumerGoes(t, from, to)
    BY <1>3 DEF Closing, SetStop, RequestCancel, CallCancel, EndDrain, Finish
  <2> QED
    BY <2>1, ConsumerMoveKeepsSlots
<1>4. CASE Produce(t)
  <2>1. CASE ReleaseSlot(t)
    BY <2>1 DEF ReleaseSlot, Release
  <2>2. CASE ~ReleaseSlot(t)
    <3>1. consumer' = consumer /\ inFlight' = inFlight
      BY <1>4, <2>2 DEF Produce, MakeEvents, PublishCancel, RunLoop, CancelEngine,
         PutEvent, SeeStop, CancelBackOff, Unwind, CancelUnwind, Teardown, PutDone, Exit
    <3>2. \/ \E from, to \in Unreleased : ProducerGoes(t, from, to)
          \/ \E from, to \in {"released", "exiting", "dead"} : ProducerGoes(t, from, to)
      BY <1>4, <2>2 DEF Produce, MakeEvents, PublishCancel, RunLoop, CancelEngine,
         PutEvent, SeeStop, CancelBackOff, Unwind, CancelUnwind, Teardown, PutDone, Exit
    <3> HIDE DEF ProducerGoes, TypeOK, Coupling, SlotStep
    <3> QED
      BY <3>1, <3>2, ProducerMoveKeepsSlots
  <2> QED
    BY <2>1, <2>2
<1>5. CASE Environment(t)
  <2>1. CASE Admit(t)
    BY <2>1 DEF Admit
  <2>2. CASE Refuse(t)
    BY <2>2 DEF Refuse
  <2>3. CASE SpawnFails(t)
    BY <2>3 DEF SpawnFails, Release
  <2>4. CASE Resume(t) \/ Leave(t) \/ Drain(t)
    <3>1. /\ producer' = producer /\ inFlight' = inFlight
          /\ \E from \in {"yielded", "sleep", "draining"},
                to \in {"poll", "closing", "draining"} : ConsumerGoes(t, from, to)
      BY <2>4 DEF Resume, Leave, Drain
    <3>2. /\ \A from \in {"yielded", "sleep", "draining"} :
                  from \notin {"idle", "refused", "failed", "admitted"}
          /\ \A to \in {"poll", "closing", "draining"} :
                  to \in ConsumerStates \ {"idle", "refused", "failed", "admitted"}
      OBVIOUS
    <3> HIDE DEF ConsumerGoes, ConsumerStates, TypeOK, Coupling, SlotStep
    <3> QED
      BY <3>1, <3>2, ConsumerMoveKeepsSlots
  <2>5. CASE MakeEventsFails(t) \/ Emit(t) \/ EngineEnds(t) \/ Block(t) \/ Unblock(t)
    <3>1. /\ consumer' = consumer /\ inFlight' = inFlight
          /\ \E from, to \in Unreleased : ProducerGoes(t, from, to)
      BY <2>5 DEF MakeEventsFails, Emit, EngineEnds, Block, Unblock
    <3> HIDE DEF ProducerGoes, TypeOK, Coupling, SlotStep
    <3> QED
      BY <3>1, ProducerMoveKeepsSlots
  <2>6. CASE LoopFails(t)
    BY <2>6 DEF LoopFails
  <2> QED
    BY <1>5, <2>1, <2>2, <2>3, <2>4, <2>5, <2>6 DEF Environment
<1> QED
  BY <1>1, <1>2, <1>3, <1>4, <1>5 DEF Step

\* The turns that take up a slot are finitely many.
LEMMA HoldersFinite ==
  /\ IsFiniteSet(Holders) /\ Cardinality(Holders) \in Nat
  /\ IsFiniteSet(Holders \cup Lost) /\ Cardinality(Holders \cup Lost) \in Nat
  /\ Cardinality(Holders) <= Cardinality(Holders \cup Lost)
<1>1. /\ Holders \cup Lost \in SUBSET Turns
      /\ Holders \in SUBSET (Holders \cup Lost)
  BY DEF Holders, Lost
<1>2. IsFiniteSet(Holders \cup Lost)
  BY <1>1, TurnsFinite, FS_Subset
<1> QED
  BY <1>1, <1>2, FS_Subset, FS_CardinalityType

\* A slot step keeps the count equal to the number of slots taken up and
\* within the ceiling: taking adds a turn that had none, giving back removes
\* one, losing one leaves it taken.
LEMMA SlotStepKeepsAccounting ==
  ASSUME SlotAccounting, inFlight \in Nat, NEW t \in Turns, SlotStep(t)
  PROVE  SlotAccounting'
<1> DEFINE Slot == Holders \cup Lost
<1>0. IsFiniteSet(Slot) /\ Cardinality(Slot) \in Nat
  BY HoldersFinite
<1>1. CASE /\ t \notin Holders \cup Lost \cup Refused \cup Over
           /\ inFlight < MaxTurns /\ inFlight' = inFlight + 1
           /\ Holders' = Holders \cup {t} /\ Lost' = Lost
  <2>1. t \notin Slot /\ (Holders \cup Lost)' = Slot \cup {t}
    BY <1>1
  <2>3. inFlight = Cardinality(Slot)
    BY DEF SlotAccounting
  <2> HIDE DEF Slot
  <2>2. Cardinality(Slot \cup {t}) = Cardinality(Slot) + 1
    BY <1>0, <2>1, FS_AddElement
  <2>4. Cardinality((Holders \cup Lost)') = Cardinality(Slot) + 1
    BY <2>1, <2>2
  <2>5. inFlight' = inFlight + 1 /\ inFlight + 1 <= MaxTurns
    BY <1>1, LimitsAssumption
  <2> QED
    BY <2>3, <2>4, <2>5 DEF SlotAccounting
<1>2. CASE t \in Holders \ Lost /\ Release /\ Holders' = Holders \ {t} /\ Lost' = Lost
  <2>1. t \in Slot /\ (Holders \cup Lost)' = Slot \ {t}
    BY <1>2
  <2>4. inFlight = Cardinality(Slot) /\ inFlight <= MaxTurns
    BY DEF SlotAccounting
  <2> HIDE DEF Slot
  <2>2. Cardinality(Slot \ {t}) = Cardinality(Slot) - 1
    BY <1>0, <2>1, FS_RemoveElement
  <2>3. Cardinality(Slot) # 0
    BY <1>0, <2>1, FS_EmptySet
  <2>5. Cardinality((Holders \cup Lost)') = Cardinality(Slot) - 1
    BY <2>1, <2>2
  <2>6. inFlight' = inFlight - 1 /\ inFlight - 1 <= MaxTurns
    BY <1>0, <1>2, <2>3, <2>4, LimitsAssumption DEF Release
  <2> QED
    BY <2>4, <2>5, <2>6 DEF SlotAccounting
<1>3. CASE inFlight' = inFlight /\ (Holders \cup Lost)' = Slot
  BY <1>3 DEF SlotAccounting
<1>4. CASE /\ t \in Holders /\ inFlight' = inFlight
           /\ Holders' = Holders \ {t} /\ Lost' = Lost \cup {t}
  BY <1>3, <1>4
<1> QED
  BY <1>1, <1>2, <1>3, <1>4 DEF SlotStep

\* The inductive invariant holds in every reachable state.
THEOREM BridgeInvariant == Spec => []IInv
<1>1. Init => Coupling /\ SlotAccounting
  <2> SUFFICES ASSUME Init PROVE Coupling /\ SlotAccounting
    OBVIOUS
  <2>1. Holders \cup Lost = {}
    BY DEF Init, Holders, Lost, Unreleased
  <2>2. Cardinality(Holders \cup Lost) = 0
    BY <2>1, FS_EmptySet
  <2> QED
    BY <2>2, LimitsAssumption DEF Init, Coupling, SlotAccounting
<1>2. TypeOK /\ Coupling /\ SlotAccounting /\ [Next]_vars
      => (Coupling /\ SlotAccounting)'
  <2> SUFFICES ASSUME TypeOK, Coupling, SlotAccounting, [Next]_vars
               PROVE  Coupling' /\ SlotAccounting'
    OBVIOUS
  <2>1. ASSUME NEW t \in Turns, Step(t) PROVE Coupling' /\ SlotAccounting'
    <3>1. Coupling' /\ SlotStep(t)
      BY <2>1, StepIsSlotStep
    <3>2. inFlight \in Nat
      BY DEF TypeOK
    <3> QED
      BY <3>1, <3>2, SlotStepKeepsAccounting
  <2>2. CASE UNCHANGED vars
    BY <2>2 DEF vars, Coupling, SlotAccounting, Holders, Lost
  <2> QED
    BY <2>1, <2>2 DEF Next, Step
<1> QED
  BY <1>1, <1>2, TypeCorrect, PTL DEF Spec, IInv

\* The count of turns in flight is exact and bounded for any number of turns.
THEOREM SlotsExact == Spec => []SlotAccounting
<1>1. IInv => SlotAccounting
  BY DEF IInv
<1> QED
  BY <1>1, BridgeInvariant, PTL

\* A turn that was admitted never waits in spawn for a turn still running.
THEOREM SpawnFindsRoom == Spec => []SpawnWaitsForNoRunningTurn
<1>1. IInv => SpawnWaitsForNoRunningTurn
  <2> SUFFICES ASSUME IInv, NEW t \in Turns, consumer[t] = "admitted"
               PROVE  Cardinality({u \in Turns : producer[u] \in Unreleased}) < MaxTurns
    BY DEF SpawnWaitsForNoRunningTurn
  <2> DEFINE S == {u \in Turns : producer[u] \in Unreleased}
  <2>1. producer[t] = "none"
    BY DEF IInv, Coupling
  <2>2. t \in Holders /\ t \notin S /\ S \in SUBSET (Holders \ {t})
    BY <2>1 DEF Holders, Unreleased
  <2>3. /\ IsFiniteSet(Holders \ {t})
        /\ Cardinality(Holders \ {t}) = Cardinality(Holders) - 1
    BY <2>2, HoldersFinite, FS_RemoveElement
  <2>4. Cardinality(S) <= Cardinality(Holders \ {t}) /\ Cardinality(S) \in Nat
    BY <2>2, <2>3, FS_Subset, FS_CardinalityType
  <2>5. Cardinality(Holders) <= MaxTurns
    BY HoldersFinite, LimitsAssumption DEF IInv, SlotAccounting
  <2> QED
    BY <2>3, <2>4, <2>5, HoldersFinite, LimitsAssumption
<1> QED
  BY <1>1, BridgeInvariant, PTL

\* Admission, release and refusal implement the abstract slots.
THEOREM BridgeImplementsSlots == Spec => ImplementsSlots
<1>1. Init => Slots!Init
  BY DEF Init, Slots!Init, Holders, Lost, Refused, Over, Unreleased
<1>2. IInv /\ [Next]_vars => [Slots!Next]_(Slots!slots)
  <2> SUFFICES ASSUME IInv, [Next]_vars PROVE [Slots!Next]_(Slots!slots)
    OBVIOUS
  <2>1. ASSUME NEW t \in Turns, Step(t) PROVE [Slots!Next]_(Slots!slots)
    <3>1. SlotStep(t)
      BY <2>1, StepIsSlotStep DEF IInv
    <3>2. /\ inFlight = Cardinality(Holders \cup Lost) /\ inFlight <= MaxTurns
          /\ inFlight \in Nat
      BY DEF IInv, SlotAccounting, TypeOK
    <3>3. Slots!Taken = inFlight
      BY <3>2, Zenon DEF Slots!Taken, Slots!Cardinality, Cardinality
    <3>4. \/ Slots!Take(t) \/ Slots!Refuse(t) \/ Slots!GiveBack(t) \/ Slots!Lose(t)
          \/ UNCHANGED <<Holders, Lost, Refused, Over>>
      BY <3>1, <3>2, <3>3, LimitsAssumption
         DEF SlotStep, Slots!Known, Slots!Take, Slots!Refuse, Slots!GiveBack, Slots!Lose
    <3>5. CASE UNCHANGED <<Holders, Lost, Refused, Over>>
      BY <3>5 DEF Slots!slots
    <3>6. CASE Slots!Take(t) \/ Slots!Refuse(t) \/ Slots!GiveBack(t) \/ Slots!Lose(t)
      BY <3>6 DEF Slots!Next
    <3> QED
      BY <3>4, <3>5, <3>6
  <2>2. CASE UNCHANGED vars
    BY <2>2 DEF vars, Slots!slots, Holders, Lost, Refused, Over
  <2> QED
    BY <2>1, <2>2 DEF Next, Step
<1> QED
  BY <1>1, <1>2, BridgeInvariant, PTL DEF Spec, ImplementsSlots, Slots!Spec

------------------------------------------------------------------------------
(* Unwinding and back-pressure.                                            *)

\* A slot is never free while the engine generator of its turn is open.
THEOREM EngineUnwound == Spec => []EngineClosedBeforeSlotIsFree
<1> DEFINE Safe == EngineClosedBeforeSlotIsFree
<1>1. Init => Safe
  BY DEF Init, EngineClosedBeforeSlotIsFree
<1>2. TypeOK /\ Safe /\ [Next]_vars => Safe'
  <2> SUFFICES ASSUME TypeOK, Safe, [Next]_vars PROVE Safe'
    OBVIOUS
  <2> USE DEF TypeOK, EngineClosedBeforeSlotIsFree, ConsumerGoes, ProducerGoes,
              ProducerStates
  <2>1. ASSUME NEW t \in Turns, Spawn(t) \/ Poll(t) \/ Closing(t) PROVE Safe'
    BY <2>1 DEF Spawn, Poll, TakeEvent, TakeDone, FindEmpty, CheckRunning,
       CheckEmpty, Sleep, Closing, SetStop, RequestCancel, CallCancel, EndDrain, Finish
  <2>2. ASSUME NEW t \in Turns, Produce(t) PROVE Safe'
    BY <2>2 DEF Produce, MakeEvents, PublishCancel, RunLoop, CancelEngine,
       PutEvent, SeeStop, CancelBackOff, Unwind, CancelUnwind, Teardown,
       ReleaseSlot, PutDone, Exit
  <2>3. ASSUME NEW t \in Turns, Environment(t) PROVE Safe'
    BY <2>3 DEF Environment, Admit, Refuse, SpawnFails, Resume, Leave, Drain,
       LoopFails, MakeEventsFails, Emit, EngineEnds, Block, Unblock
  <2>4. CASE UNCHANGED vars
    BY <2>4 DEF vars
  <2> QED
    BY <2>1, <2>2, <2>3, <2>4 DEF Next
<1> QED
  BY <1>1, <1>2, TypeCorrect, PTL DEF Spec

\* The queue of a turn never outgrows BUFFER_LIMIT events and the sentinel.
THEOREM BackPressure == Spec => []BufferBounded
<1> DEFINE Safe == BufferBounded
<1>1. Init => Safe
  BY LimitsAssumption DEF Init, BufferBounded
<1>2. IInv /\ Safe /\ [Next]_vars => Safe'
  <2> SUFFICES ASSUME IInv, TypeOK, Safe, [Next]_vars PROVE Safe'
    BY DEF IInv
  <2> USE LimitsAssumption DEF ConsumerGoes, ProducerGoes, shared
  <2>1. ASSUME NEW t \in Turns, TakeEvent(t) \/ TakeDone(t) PROVE Safe'
    <3>1. /\ events[t] \in Seq(Nat \cup {Done}) /\ events[t] # <<>>
          /\ events' = [events EXCEPT ![t] = Tail(@)] /\ producer' = producer
      BY <2>1 DEF TakeEvent, TakeDone, TypeOK
    <3>2. Len(Tail(events[t])) = Len(events[t]) - 1 /\ Len(events[t]) \in Nat
      BY <3>1
    <3> QED
      BY <3>1, <3>2 DEF TypeOK, BufferBounded
  <2>2. ASSUME NEW t \in Turns, Drain(t) PROVE Safe'
    BY <2>2 DEF Drain, TypeOK, BufferBounded
  <2>3. ASSUME NEW t \in Turns, PutEvent(t) PROVE Safe'
    <3>1. /\ events[t] \in Seq(Nat \cup {Done}) /\ emitted[t] \in Nat
          /\ Len(events[t]) < BufferLimit /\ producer[t] = "have"
          /\ events' = [events EXCEPT ![t] = Append(@, emitted[t])]
          /\ producer' = [producer EXCEPT ![t] = "await"]
      BY <2>3 DEF PutEvent, TypeOK
    <3>2. Len(Append(events[t], emitted[t])) = Len(events[t]) + 1
          /\ Len(events[t]) \in Nat
      BY <3>1
    <3> QED
      BY <3>1, <3>2 DEF TypeOK, BufferBounded
  <2>4. ASSUME NEW t \in Turns, PutDone(t) PROVE Safe'
    <3>1. /\ events[t] \in Seq(Nat \cup {Done}) /\ producer[t] = "released"
          /\ events' = [events EXCEPT ![t] = Append(@, Done)]
          /\ producer' = [producer EXCEPT ![t] = "exiting"]
      BY <2>4 DEF PutDone, TypeOK
    <3>2. Len(Append(events[t], Done)) = Len(events[t]) + 1 /\ Len(events[t]) \in Nat
      BY <3>1
    <3> QED
      BY <3>1, <3>2 DEF TypeOK, BufferBounded
  <2>5. ASSUME events' = events,
               \A u \in Turns : producer[u] \in {"exiting", "dead"}
                                => producer'[u] \in {"exiting", "dead"}
        PROVE  Safe'
    BY <2>5 DEF TypeOK, BufferBounded
  <2>6. ASSUME NEW t \in Turns, Step(t),
               ~TakeEvent(t), ~TakeDone(t), ~Drain(t), ~PutEvent(t), ~PutDone(t)
        PROVE  Safe'
    <3> USE <2>6 DEF TypeOK, ProducerStates
    <3>1. CASE Spawn(t)
      <4>1. producer[t] = "none"
        BY <3>1 DEF Spawn, IInv, Coupling
      <4> QED
        BY <3>1, <4>1, <2>5 DEF Spawn
    <3>2. CASE Poll(t)
      BY <3>2, <2>5 DEF Poll, FindEmpty, CheckRunning, CheckEmpty, Sleep
    <3>3. CASE Closing(t)
      BY <3>3, <2>5 DEF Closing, SetStop, RequestCancel, CallCancel, EndDrain, Finish
    <3>4. CASE Produce(t)
      <4>1. events' = events
        BY <3>4 DEF Produce, MakeEvents, PublishCancel, RunLoop, CancelEngine,
           SeeStop, CancelBackOff, Unwind, CancelUnwind, Teardown, ReleaseSlot, Exit
      <4>2. \E to \in ProducerStates :
               /\ producer' = [producer EXCEPT ![t] = to]
               /\ producer[t] \in {"exiting", "dead"} => to = "dead"
        BY <3>4 DEF Produce, MakeEvents, PublishCancel, RunLoop, CancelEngine,
           SeeStop, CancelBackOff, Unwind, CancelUnwind, Teardown, ReleaseSlot, Exit
      <4> QED
        BY <4>1, <4>2, <2>5
    <3>5. CASE Environment(t)
      <4>1. events' = events
        BY <3>5 DEF Environment, Admit, Refuse, SpawnFails, Resume, Leave,
           LoopFails, MakeEventsFails, Emit, EngineEnds, Block, Unblock
      <4>2. \/ producer' = producer
            \/ \E to \in ProducerStates :
                  /\ producer' = [producer EXCEPT ![t] = to]
                  /\ producer[t] \notin {"exiting", "dead"}
        BY <3>5 DEF Environment, Admit, Refuse, SpawnFails, Resume, Leave,
           LoopFails, MakeEventsFails, Emit, EngineEnds, Block, Unblock
      <4> QED
        BY <4>1, <4>2, <2>5
    <3> QED
      BY <3>1, <3>2, <3>3, <3>4, <3>5 DEF Step
  <2>7. CASE UNCHANGED vars
    BY <2>5, <2>7 DEF vars
  <2> QED
    BY <2>1, <2>2, <2>3, <2>4, <2>6, <2>7 DEF Next, Step
<1> QED
  BY <1>1, <1>2, BridgeInvariant, PTL DEF Spec

------------------------------------------------------------------------------
(* The events of a turn, from the engine to the caller.                    *)

\* The caller has not been told to stop, nor has it left.
Listening(t) ==
    consumer[t] \notin {"closing", "cancelling", "cancelCall", "draining", "returned"}
\* _DONE was put, and is the last thing to come.
Past(t) == producer[t] \in {"exiting", "dead"}
\* The thread died before it had an event loop: nothing will come at all.
Mute(t) == producer[t] = "lost"
InHand(t) == IF producer[t] = "have" THEN 1 ELSE 0

\* Events are yielded in order, and the queue holds what comes next.
InOrder(t) == \A i \in 1 .. Len(delivered[t]) : delivered[t][i] = i
\* The first n items of q count on from l.
Run(q, l, n) == \A j \in 1 .. n : q[j] = l + j
Waiting(t, n) == Run(events[t], Len(delivered[t]), n)

\* While the caller listens every event is yielded, queued or in hand.
Flow(t) == Listening(t) =>
    /\ ~stop[t] /\ ~cancelled[t] /\ result[t] = "none"
    /\ consumer[t] = "checkEmpty" => Past(t) \/ Mute(t)
    /\ ~Past(t) =>
        /\ emitted[t] = Len(delivered[t]) + Len(events[t]) + InHand(t)
        /\ Waiting(t, Len(events[t]))
    /\ Past(t) =>
        /\ Len(events[t]) > 0 /\ events[t][Len(events[t])] = Done
        /\ emitted[t] = Len(delivered[t]) + (Len(events[t]) - 1)
        /\ Waiting(t, Len(events[t]) - 1)

\* A caller that did not leave stops at _DONE, when all was yielded, or finds
\* the thread gone before it had anything to yield.
Stayed(t) == ~Listening(t) /\ result[t] # "left" =>
    /\ (Past(t) \/ Mute(t)) /\ Len(delivered[t]) = emitted[t]
    /\ result[t] = "ended" => ~error[t]

Told(t) == InOrder(t) /\ Flow(t) /\ Stayed(t)
Lossless == \A t \in Turns : Told(t)

\* Before produce() has made its events there are none.
NothingYet ==
    \A t \in Turns : producer[t] \in {"none", "spawned", "lost"} =>
        events[t] = <<>> /\ delivered[t] = <<>> /\ emitted[t] = 0

\* A thread that has not come to its engine has queued nothing.
LEMMA NothingBeforeTheEngine ==
  ASSUME TypeOK, Coupling, NothingYet, [Next]_vars
  PROVE  NothingYet'
<1> USE DEF TypeOK, NothingYet, ConsumerGoes, ProducerGoes, shared
<1>1. ASSUME NEW t \in Turns, Spawn(t) \/ Poll(t) \/ Closing(t) PROVE NothingYet'
  <2>1. CASE Spawn(t)
    BY <1>1, <2>1 DEF Spawn, Coupling
  <2>2. CASE Poll(t)
    BY <1>1, <2>2 DEF Poll, TakeEvent, TakeDone, FindEmpty, CheckRunning, CheckEmpty, Sleep
  <2>3. CASE Closing(t)
    BY <1>1, <2>3 DEF Closing, SetStop, RequestCancel, CallCancel, EndDrain, Finish
  <2> QED
    BY <1>1, <2>1, <2>2, <2>3
<1>2. ASSUME NEW t \in Turns, Produce(t) PROVE NothingYet'
  BY <1>2 DEF Produce, MakeEvents, PublishCancel, RunLoop, CancelEngine,
     PutEvent, SeeStop, CancelBackOff, Unwind, CancelUnwind, Teardown,
     ReleaseSlot, PutDone, Exit
<1>3. ASSUME NEW t \in Turns, Environment(t) PROVE NothingYet'
  BY <1>3 DEF Environment, Admit, Refuse, SpawnFails, Resume, Leave, Drain,
     LoopFails, MakeEventsFails, Emit, EngineEnds, Block, Unblock
<1>4. CASE UNCHANGED vars
  BY <1>4 DEF vars
<1> QED
  BY <1>1, <1>2, <1>3, <1>4 DEF Next

\* The types the queue and the counts of a turn have.
LEMMA EventsTyped ==
  ASSUME TypeOK, NEW t \in Turns
  PROVE  /\ events[t] \in Seq(Nat \cup {Done}) /\ Len(events[t]) \in Nat
         /\ delivered[t] \in Seq(Nat) /\ Len(delivered[t]) \in Nat
         /\ emitted[t] \in Nat /\ producer[t] \in ProducerStates
         /\ consumer[t] \in ConsumerStates
BY DEF TypeOK

LEMMA LengthsTyped ==
  ASSUME TypeOK, NEW t \in Turns
  PROVE  /\ Len(events[t]) \in Nat /\ Len(delivered[t]) \in Nat
         /\ emitted[t] \in Nat
BY EventsTyped

\* The sums the accounting of events comes down to.
LEMMA Sums ==
  ASSUME NEW d \in Nat, NEW e \in Nat, NEW h \in Nat
  PROVE  /\ d + e + 1 = d + (e + 1) /\ d + e + 0 = d + e
         /\ d + (e + 1) + 0 = d + (e + 1)
         /\ (e + 1) - 1 = e /\ e + 1 > 0
         /\ (d + 1) + (e - 1) + h = d + e + h
         /\ (d + 1) + ((e - 1) - 1) = d + (e - 1)
         /\ e - 1 \in Nat \ {0} => (e - 1) + 1 = e /\ e - 1 > 0
OBVIOUS

\* What is left of a run of numbers, and what a put adds to it.
LEMMA TailRun ==
  ASSUME NEW q \in Seq(Nat \cup {Done}), NEW l \in Nat, NEW n \in Nat \ {0},
         n <= Len(q), Run(q, l, n)
  PROVE  /\ Head(q) = l + 1
         /\ Run(Tail(q), l + 1, n - 1)
<1>1. q # <<>> /\ Len(q) \in Nat
  OBVIOUS
<1>2. Head(q) = q[1] /\ \A j \in 1 .. n - 1 : Tail(q)[j] = q[j + 1]
  BY <1>1
<1>3. \A j \in 1 .. n : q[j] = l + j
  BY DEF Run
<1>4. \A j \in 1 .. n - 1 : j + 1 \in 1 .. n
  OBVIOUS
<1>5. \A j \in 1 .. n - 1 : Tail(q)[j] = (l + 1) + j
  BY <1>2, <1>3, <1>4
<1> QED
  BY <1>2, <1>3, <1>5 DEF Run

\* A put keeps the run, and makes it longer if it is the next number.
LEMMA AppendRun ==
  ASSUME NEW q \in Seq(Nat \cup {Done}), NEW l \in Nat, NEW x \in Nat \cup {Done},
         Run(q, l, Len(q))
  PROVE  /\ Len(Append(q, x)) = Len(q) + 1
         /\ Append(q, x)[Len(q) + 1] = x
         /\ Run(Append(q, x), l, Len(q))
         /\ x = l + (Len(q) + 1) => Run(Append(q, x), l, Len(q) + 1)
<1>1. Len(q) \in Nat /\ \A j \in 1 .. Len(q) : Append(q, x)[j] = q[j]
  OBVIOUS
<1>2. Len(Append(q, x)) = Len(q) + 1 /\ Append(q, x)[Len(q) + 1] = x
  OBVIOUS
<1>3. \A j \in 1 .. Len(q) : Append(q, x)[j] = l + j
  BY <1>1 DEF Run
<1>4. \A j \in 1 .. Len(q) + 1 : j \in 1 .. Len(q) \/ j = Len(q) + 1
  BY <1>1
<1>5. x = l + (Len(q) + 1) => \A j \in 1 .. Len(q) + 1 : Append(q, x)[j] = l + j
  BY <1>2, <1>3, <1>4
<1> QED
  BY <1>2, <1>3, <1>5 DEF Run

\* What the request thread does with neither the queue nor what was yielded.
LEMMA QuietConsumer ==
  ASSUME NEW t \in Turns, Told(t),
         UNCHANGED <<producer, events, error, emitted, delivered>>,
         Listening(t)' => /\ Listening(t) /\ stop'[t] = stop[t]
                          /\ cancelled'[t] = cancelled[t] /\ result'[t] = result[t]
                          /\ consumer'[t] = "checkEmpty" => Past(t) \/ Mute(t),
         ~Listening(t)' /\ result'[t] # "left" =>
            /\ ~Listening(t) /\ result[t] # "left"
            /\ result'[t] = "ended" => ~error[t]
  PROVE  Told(t)'
<1>1. InOrder(t)'
  BY DEF Told, InOrder
<1>2. Flow(t)'
  BY DEF Told, Flow, Past, Mute, InHand, Waiting
<1>3. Stayed(t)'
  BY DEF Told, Stayed, Past, Mute
<1> QED
  BY <1>1, <1>2, <1>3 DEF Told

\* The producer, before _DONE: the caller listens or has left.
LEMMA ProducerTold ==
  ASSUME NEW t \in Turns, Told(t), ~Past(t), ~Mute(t),
         UNCHANGED <<consumer, result, delivered>>,
         Listening(t) => Flow(t)'
  PROVE  Told(t)'
<1>1. Listening(t) \/ result[t] = "left"
  BY DEF Told, Stayed
<1>2. InOrder(t)' /\ (Listening(t)' <=> Listening(t))
  BY DEF Told, InOrder, Listening
<1>3. Flow(t)'
  BY <1>2 DEF Flow
<1>4. Stayed(t)'
  BY <1>1, <1>2 DEF Stayed
<1> QED
  BY <1>2, <1>3, <1>4 DEF Told

\* What the producer does before _DONE without touching queue or count.
LEMMA QuietProducer ==
  ASSUME TypeOK, NEW t \in Turns, Told(t), UNCHANGED <<consumer, result, delivered, events,
                                                       emitted, stop>>,
         NEW from, NEW to, ProducerGoes(t, from, to),
         {from, to} \cap {"have", "exiting", "dead"} = {}, from # "lost",
         Listening(t) => ~cancelled'[t]
  PROVE  Told(t)'
<1>1. ~Past(t) /\ ~Past(t)' /\ ~Mute(t) /\ InHand(t) = 0 /\ InHand(t)' = 0
  BY DEF ProducerGoes, TypeOK, Past, Mute, InHand
<1>2. Listening(t) => Flow(t)'
  BY <1>1 DEF Told, Flow, Waiting, Listening
<1> QED
  BY <1>1, <1>2, ProducerTold

\* get_nowait yields the next number, or _DONE when all was yielded.
LEMMA PollTold ==
  ASSUME TypeOK, Coupling, NothingYet, NEW t \in Turns, Told(t), Poll(t)
  PROVE  Told(t)'
<1>1. CASE FindEmpty(t) \/ CheckRunning(t) \/ Sleep(t)
  <2>1. /\ UNCHANGED <<producer, shared, emitted, delivered, result>>
        /\ Listening(t) /\ Listening(t)'
    BY <1>1 DEF FindEmpty, CheckRunning, Sleep, ConsumerGoes, TypeOK, Listening
  <2>2. consumer'[t] = "checkEmpty" => Past(t) \/ Mute(t)
    BY <1>1 DEF FindEmpty, CheckRunning, Sleep, ConsumerGoes, TypeOK, Coupling, Running,
       Past, Mute
  <2> QED
    BY <2>1, <2>2, QuietConsumer DEF shared
<1>2. CASE CheckEmpty(t)
  <2>1. /\ UNCHANGED <<producer, shared, emitted, delivered, result>>
        /\ consumer[t] = "checkEmpty" /\ Listening(t)
    BY <1>2 DEF CheckEmpty, ConsumerGoes, Listening
  <2>2. CASE Past(t)
    <3>1. events[t] # <<>>
      BY <2>1, <2>2, EventsTyped DEF Told, Flow
    <3>2. consumer'[t] = "sleep"
      BY <1>2, <3>1 DEF CheckEmpty, ConsumerGoes, TypeOK
    <3> QED
      BY <2>1, <3>2, QuietConsumer DEF shared, Listening
  <2>3. CASE Mute(t) /\ ~Past(t)
    <3>1. /\ events[t] = <<>> /\ delivered[t] = <<>> /\ emitted[t] = 0
      BY <2>3 DEF NothingYet, Mute
    <3>2. consumer'[t] = "closing" /\ ~Listening(t)'
      BY <1>2, <3>1 DEF CheckEmpty, ConsumerGoes, TypeOK, Listening
    <3>3. InOrder(t)' /\ Flow(t)'
      BY <2>1, <3>2 DEF Told, InOrder, Flow
    <3>4. Len(delivered'[t]) = emitted'[t] /\ result'[t] = "none" /\ Mute(t)'
      BY <2>1, <2>3, <3>1 DEF Told, Flow, Mute
    <3> QED
      BY <3>3, <3>4 DEF Told, Stayed
  <2> QED
    BY <2>1, <2>2, <2>3 DEF Told, Flow
<1>3. CASE TakeEvent(t) \/ TakeDone(t)
  <2> DEFINE d == Len(delivered[t])
             e == Len(events[t])
  <2>1. /\ events[t] # <<>> /\ events'[t] = Tail(events[t]) /\ Listening(t)
        /\ UNCHANGED <<producer, stop, cancelled, error, emitted, result>>
    BY <1>3 DEF TakeEvent, TakeDone, ConsumerGoes, TypeOK, Listening
  <2>2. /\ e \in Nat \ {0} /\ d \in Nat /\ Len(events'[t]) = e - 1
        /\ e = Len(events[t]) /\ d = Len(delivered[t])
    BY <2>1, EventsTyped
  <2>3. ~Past(t) => emitted[t] = d + e + InHand(t) /\ Run(events[t], d, e)
    BY <2>1 DEF Told, Flow, Waiting
  <2>4. Past(t) => /\ events[t][e] = Done /\ emitted[t] = d + (e - 1)
                   /\ Run(events[t], d, e - 1)
    BY <2>1 DEF Told, Flow, Waiting
  <2>5. e = 1 \/ e - 1 \in Nat \ {0}
    BY <2>2
  <2> HIDE DEF d, e
  <2>6. ASSUME ~Past(t)
        PROVE  Head(events[t]) = d + 1 /\ Run(events'[t], d + 1, e - 1)
    <3>1. PICK q \in Seq(Nat \cup {Done}) : q = events[t]
      BY EventsTyped
    <3>2. e <= Len(q) /\ Run(q, d, e)
      BY <2>2, <2>3, <2>6, <3>1
    <3>3. Head(q) = d + 1 /\ Run(Tail(q), d + 1, e - 1)
      BY <2>2, <3>2, TailRun
    <3> QED
      BY <2>1, <3>1, <3>3
  <2>7. ASSUME Past(t), e # 1
        PROVE  Head(events[t]) = d + 1 /\ Run(events'[t], d + 1, (e - 1) - 1)
    <3>1. PICK n \in Nat \ {0} : n = e - 1
      BY <2>5, <2>7
    <3>2. PICK q \in Seq(Nat \cup {Done}) : q = events[t]
      BY EventsTyped
    <3>3. n <= e /\ e = Len(q)
      BY <2>2, <3>1, <3>2
    <3>4. n <= Len(q) /\ Run(q, d, n)
      BY <2>4, <2>7, <3>1, <3>2, <3>3
    <3>5. Head(q) = d + 1 /\ Run(Tail(q), d + 1, n - 1)
      BY <2>2, <3>4, TailRun
    <3> QED
      BY <2>1, <3>1, <3>2, <3>5
  <2>8. e = 1 => Head(events[t]) = events[t][e]
    BY <2>1, EventsTyped
  <2>9. Past(t)' <=> Past(t)
    BY <2>1 DEF Past
  <2>10. CASE TakeEvent(t)
    <3>1. /\ delivered'[t] = Append(delivered[t], Head(events[t]))
          /\ Head(events[t]) # Done /\ consumer'[t] = "yielded"
      BY <2>10 DEF TakeEvent, ConsumerGoes, TypeOK
    <3>2. Head(events[t]) = d + 1
      BY <2>4, <2>6, <2>7, <2>8, <3>1
    <3>3. /\ Len(delivered'[t]) = d + 1
          /\ \A i \in 1 .. d : delivered'[t][i] = delivered[t][i]
          /\ delivered'[t][d + 1] = d + 1
      BY <2>2, <3>1, <3>2, EventsTyped
    <3>4. InOrder(t)'
      <4>1. \A i \in 1 .. d + 1 : i \in 1 .. d \/ i = d + 1
        BY <2>2
      <4>2. \A i \in 1 .. d : delivered[t][i] = i
        BY <2>2 DEF Told, InOrder
      <4> QED
        BY <3>3, <4>1, <4>2 DEF InOrder
    <3>5. /\ ~stop'[t] /\ ~cancelled'[t] /\ result'[t] = "none"
          /\ consumer'[t] # "checkEmpty" /\ Listening(t)'
      BY <2>1, <3>1 DEF Told, Flow, Listening
    <3>6. CASE ~Past(t)
      <4>1. Waiting(t, Len(events[t]))'
        BY <2>2, <2>6, <3>3, <3>6 DEF Waiting
      <4>2. PICK h \in Nat : h = InHand(t) /\ InHand(t)' = h
        BY <2>1 DEF InHand
      <4>3. emitted'[t] = Len(delivered'[t]) + Len(events'[t]) + InHand(t)'
        <5>1. emitted'[t] = d + e + h
          BY <2>1, <2>3, <3>6, <4>2
        <5>2. d \in Nat /\ e \in Nat
          BY <2>2
        <5>3. (d + 1) + (e - 1) + h = d + e + h
          BY <5>2, Sums
        <5> QED
          BY <2>2, <3>3, <4>2, <5>1, <5>3
      <4>4. Flow(t)'
        BY <2>9, <3>5, <3>6, <4>1, <4>3 DEF Flow
      <4> QED
        BY <3>4, <3>5, <4>4 DEF Told, Stayed
    <3>7. CASE Past(t)
      <4>1. e # 1
        BY <2>4, <2>8, <3>1, <3>7
      <4>2. e - 1 \in Nat \ {0}
        BY <2>5, <4>1
      <4>3. events'[t][e - 1] = events[t][(e - 1) + 1]
        <5>1. PICK n \in Nat \ {0} : n = e - 1
          BY <4>2
        <5>2. n \in 1 .. Len(Tail(events[t]))
          <6>1. n \in 1 .. n
            OBVIOUS
          <6>2. n = Len(Tail(events[t]))
            BY <2>1, <2>2, <5>1
          <6> QED
            BY <6>1, <6>2
        <5>3. Tail(events[t])[n] = events[t][n + 1]
          BY <2>1, <2>2, <5>2, EventsTyped
        <5> QED
          BY <2>1, <5>1, <5>3
      <4>4. events'[t][Len(events'[t])] = Done
        BY <2>2, <2>4, <3>7, <4>2, <4>3, Sums
      <4>5. Waiting(t, Len(events[t]) - 1)'
        BY <2>2, <2>7, <3>3, <3>7, <4>1 DEF Waiting
      <4>6. emitted'[t] = Len(delivered'[t]) + (Len(events'[t]) - 1)
        <5>1. emitted'[t] = d + (e - 1)
          BY <2>1, <2>4, <3>7
        <5>2. d \in Nat /\ e \in Nat
          BY <2>2
        <5>3. (d + 1) + ((e - 1) - 1) = d + (e - 1)
          BY <5>2, Sums
        <5> QED
          BY <2>2, <3>3, <5>1, <5>3
      <4>7. Len(events'[t]) > 0
        <5>1. PICK n \in Nat \ {0} : n = e - 1
          BY <4>2
        <5>2. n > 0
          OBVIOUS
        <5> QED
          BY <2>2, <5>1, <5>2
      <4>8. Flow(t)'
        BY <2>9, <3>5, <3>7, <4>4, <4>5, <4>6, <4>7 DEF Flow
      <4> QED
        BY <3>4, <3>5, <4>8 DEF Told, Stayed
    <3> QED
      BY <3>6, <3>7
  <2>11. CASE TakeDone(t)
    <3>1. /\ delivered' = delivered /\ consumer'[t] = "closing"
          /\ Head(events[t]) = Done
      BY <2>11 DEF TakeDone, ConsumerGoes, TypeOK
    <3>2. d + 1 # Done
      BY <2>2, LimitsAssumption
    <3>3. Past(t) /\ e = 1
      BY <2>6, <2>7, <3>1, <3>2
    <3>4. emitted'[t] = Len(delivered'[t])
      BY <2>1, <2>2, <2>4, <3>1, <3>3
    <3>5. result'[t] = "none" /\ ~Listening(t)'
      BY <2>1, <3>1 DEF Told, Flow, Listening
    <3>6. InOrder(t)'
      BY <3>1 DEF Told, InOrder
    <3> QED
      BY <2>9, <3>3, <3>4, <3>5, <3>6 DEF Told, Flow, Stayed
  <2> QED
    BY <1>3, <2>10, <2>11
<1> QED
  BY <1>1, <1>2, <1>3 DEF Poll

\* The finally block of iter_turn reads nothing more from the queue.
LEMMA ClosingTold ==
  ASSUME TypeOK, NEW t \in Turns, Told(t), Closing(t)
  PROVE  Told(t)'
<1>1. /\ UNCHANGED <<producer, error, emitted, delivered>> /\ events' = events
      /\ ~Listening(t) /\ ~Listening(t)'
  BY DEF Closing, SetStop, RequestCancel, CallCancel, EndDrain, Finish, ConsumerGoes,
         TypeOK, Listening, shared
<1>2. \/ result' = result
      \/ result'[t] = IF result[t] = "left" THEN result[t]
                      ELSE IF error[t] THEN "raised" ELSE "ended"
  BY DEF Closing, SetStop, RequestCancel, CallCancel, EndDrain, Finish, TypeOK
<1> QED
  BY <1>1, <1>2, QuietConsumer DEF Told, Stayed

\* The producer puts the event in hand behind those queued, _DONE last.
LEMMA ProduceTold ==
  ASSUME TypeOK, NEW t \in Turns, Told(t), Produce(t)
  PROVE  Told(t)'
<1>1. UNCHANGED <<consumer, emitted, stop, result, delivered>>
  BY DEF Produce, MakeEvents, PublishCancel, RunLoop, CancelEngine, PutEvent, SeeStop,
     CancelBackOff, Unwind, CancelUnwind, Teardown, ReleaseSlot, PutDone, Exit, shared
<1>2. Listening(t) => ~stop[t] /\ ~cancelled[t]
  BY DEF Told, Flow
<1>3. CASE \/ MakeEvents(t) \/ PublishCancel(t) \/ RunLoop(t) \/ Unwind(t)
           \/ Teardown(t) \/ ReleaseSlot(t)
  <2>1. /\ events' = events /\ cancelled' = cancelled
        /\ \E from, to \in ProducerStates \ {"have", "exiting", "dead", "lost"} :
                ProducerGoes(t, from, to)
    BY <1>3 DEF MakeEvents, PublishCancel, RunLoop, Unwind, Teardown, ReleaseSlot,
       shared, ProducerStates
  <2> QED
    BY <1>1, <1>2, <2>1, QuietProducer
<1>4. CASE CancelEngine(t) \/ SeeStop(t) \/ CancelBackOff(t) \/ CancelUnwind(t)
  <2>1. ~Listening(t) /\ ~Past(t) /\ ~Mute(t)
    BY <1>2, <1>4 DEF CancelEngine, SeeStop, CancelBackOff, CancelUnwind, ProducerGoes,
       Past, Mute
  <2> QED
    BY <1>1, <2>1, ProducerTold
<1>5. CASE PutEvent(t)
  <2>1. /\ producer[t] = "have" /\ producer'[t] = "await" /\ cancelled' = cancelled
        /\ events'[t] = Append(events[t], emitted[t])
    BY <1>5 DEF PutEvent, ProducerGoes, TypeOK
  <2>2. ~Past(t) /\ ~Past(t)' /\ ~Mute(t) /\ InHand(t) = 1 /\ InHand(t)' = 0
    BY <2>1 DEF Past, Mute, InHand
  <2>3. ASSUME Listening(t)
        PROVE  Flow(t)'
    <3>1. /\ emitted[t] = Len(delivered[t]) + Len(events[t]) + 1
          /\ Run(events[t], Len(delivered[t]), Len(events[t]))
      BY <2>2, <2>3 DEF Told, Flow, Waiting
    <3>2. emitted[t] = Len(delivered[t]) + (Len(events[t]) + 1)
      <4>1. PICK m \in Nat, n \in Nat : m = Len(delivered[t]) /\ n = Len(events[t])
        BY LengthsTyped
      <4>2. m + n + 1 = m + (n + 1)
        BY Sums
      <4> QED
        BY <3>1, <4>1, <4>2
    <3>3. /\ Len(events'[t]) = Len(events[t]) + 1
          /\ Run(events'[t], Len(delivered[t]), Len(events[t]) + 1)
      <4>1. PICK q \in Seq(Nat \cup {Done}) : q = events[t]
        BY EventsTyped
      <4>2. PICK l \in Nat : l = Len(delivered[t])
        BY LengthsTyped
      <4>3. PICK x \in Nat \cup {Done} : x = emitted[t]
        BY LengthsTyped
      <4>4. Run(q, l, Len(q)) /\ x = l + (Len(q) + 1)
        BY <3>1, <3>2, <4>1, <4>2, <4>3
      <4>5. Len(Append(q, x)) = Len(q) + 1 /\ Run(Append(q, x), l, Len(q) + 1)
        BY <4>4, AppendRun
      <4> QED
        BY <2>1, <4>1, <4>2, <4>3, <4>5
    <3>4. Waiting(t, Len(events[t]))'
      BY <1>1, <3>3 DEF Waiting
    <3>5. emitted'[t] = Len(delivered'[t]) + Len(events'[t]) + InHand(t)'
      BY <1>1, <2>2, <3>2, <3>3, LengthsTyped, Sums
    <3>6. /\ ~stop'[t] /\ ~cancelled'[t] /\ result'[t] = "none"
          /\ consumer'[t] # "checkEmpty"
      BY <1>1, <2>1, <2>2, <2>3 DEF Told, Flow
    <3> QED
      BY <2>2, <3>4, <3>5, <3>6 DEF Flow
  <2> QED
    BY <1>1, <2>2, <2>3, ProducerTold
<1>6. CASE PutDone(t)
  <2>1. /\ producer[t] = "released" /\ producer'[t] = "exiting" /\ cancelled' = cancelled
        /\ events'[t] = Append(events[t], Done)
    BY <1>6 DEF PutDone, ProducerGoes, TypeOK
  <2>2. ~Past(t) /\ Past(t)' /\ ~Mute(t) /\ InHand(t) = 0
    BY <2>1 DEF Past, Mute, InHand
  <2>3. ASSUME Listening(t)
        PROVE  Flow(t)'
    <3>1. /\ emitted[t] = Len(delivered[t]) + Len(events[t]) + 0
          /\ Run(events[t], Len(delivered[t]), Len(events[t]))
      BY <2>2, <2>3 DEF Told, Flow, Waiting
    <3>2. /\ Len(events'[t]) = Len(events[t]) + 1
          /\ events'[t][Len(events[t]) + 1] = Done
          /\ Run(events'[t], Len(delivered[t]), Len(events[t]))
      <4>1. PICK q \in Seq(Nat \cup {Done}) : q = events[t]
        BY EventsTyped
      <4>2. PICK l \in Nat : l = Len(delivered[t])
        BY LengthsTyped
      <4>3. PICK x \in Nat \cup {Done} : x = Done
        OBVIOUS
      <4>4. Run(q, l, Len(q))
        BY <3>1, <4>1, <4>2
      <4>5. /\ Len(Append(q, x)) = Len(q) + 1 /\ Append(q, x)[Len(q) + 1] = x
            /\ Run(Append(q, x), l, Len(q))
        BY <4>4, AppendRun
      <4> QED
        BY <2>1, <4>1, <4>2, <4>3, <4>5
    <3>3. Len(events'[t]) - 1 = Len(events[t]) /\ Len(events'[t]) > 0
      BY <3>2, LengthsTyped, Sums
    <3>4. Waiting(t, Len(events[t]) - 1)'
      BY <1>1, <3>2, <3>3 DEF Waiting
    <3>5. emitted'[t] = Len(delivered'[t]) + (Len(events'[t]) - 1)
      <4>1. emitted[t] = Len(delivered[t]) + Len(events[t])
        BY <3>1, LengthsTyped, Sums
      <4> QED
        BY <1>1, <3>3, <4>1
    <3>6. ~stop'[t] /\ ~cancelled'[t] /\ result'[t] = "none"
      BY <1>1, <2>1, <2>3 DEF Told, Flow
    <3> QED
      BY <2>2, <3>2, <3>3, <3>4, <3>5, <3>6 DEF Flow
  <2> QED
    BY <1>1, <2>2, <2>3, ProducerTold
<1>7. CASE Exit(t)
  <2>1. Past(t) /\ Past(t)' /\ UNCHANGED <<events, cancelled, error>>
    BY <1>7 DEF Exit, ProducerGoes, TypeOK, Past, shared
  <2>2. InOrder(t)'
    BY <1>1 DEF Told, InOrder
  <2>3. Flow(t)'
    BY <1>1, <2>1 DEF Told, Flow, Waiting, Listening
  <2>4. Stayed(t)'
    BY <1>1, <2>1 DEF Told, Stayed, Listening
  <2> QED
    BY <2>2, <2>3, <2>4 DEF Told
<1> QED
  BY <1>3, <1>4, <1>5, <1>6, <1>7 DEF Produce

\* The engine emits one event more; the rest reads and loses none.
LEMMA EnvironmentTold ==
  ASSUME TypeOK, Coupling, NEW t \in Turns, Told(t), Spawn(t) \/ Environment(t)
  PROVE  Told(t)'
<1>1. CASE Admit(t) \/ Refuse(t) \/ SpawnFails(t) \/ Resume(t)
  <2>1. UNCHANGED <<producer, shared, emitted, delivered, result>>
    BY <1>1 DEF Admit, Refuse, SpawnFails, Resume
  <2>2. Listening(t) /\ Listening(t)' /\ consumer'[t] # "checkEmpty"
    BY <1>1 DEF Admit, Refuse, SpawnFails, Resume, ConsumerGoes, TypeOK, Listening
  <2> QED
    BY <2>1, <2>2, QuietConsumer DEF shared
<1>2. CASE Leave(t)
  <2>1. /\ UNCHANGED <<producer, shared, emitted, delivered>>
        /\ ~Listening(t)' /\ result'[t] = "left"
    BY <1>2 DEF Leave, ConsumerGoes, TypeOK, Listening
  <2> QED
    BY <2>1, QuietConsumer DEF shared
<1>3. CASE Drain(t)
  <2>1. /\ ~Listening(t) /\ ~Listening(t)'
        /\ UNCHANGED <<producer, error, emitted, delivered, result>>
    BY <1>3 DEF Drain, ConsumerGoes, TypeOK, Listening
  <2>2. InOrder(t)' /\ Stayed(t)'
    BY <2>1 DEF Told, InOrder, Stayed, Past, Mute
  <2> QED
    BY <2>1, <2>2 DEF Told, Flow
<1>4. CASE Spawn(t)
  <2>1. /\ producer[t] = "none" /\ producer'[t] = "spawned"
        /\ UNCHANGED <<shared, emitted, delivered, result>>
        /\ Listening(t) /\ Listening(t)' /\ consumer'[t] = "poll"
    BY <1>4 DEF Spawn, ConsumerGoes, TypeOK, Coupling, Listening
  <2>2. ~Past(t) /\ ~Past(t)' /\ ~Mute(t) /\ InHand(t) = 0 /\ InHand(t)' = 0
    BY <2>1 DEF Past, Mute, InHand
  <2>3. InOrder(t)' /\ Stayed(t)'
    BY <2>1 DEF Told, InOrder, Stayed
  <2>4. Flow(t)'
    BY <2>1, <2>2 DEF Told, Flow, Waiting, shared
  <2> QED
    BY <2>3, <2>4 DEF Told
<1>5. CASE LoopFails(t) \/ MakeEventsFails(t) \/ EngineEnds(t) \/ Block(t) \/ Unblock(t)
  <2>1. /\ UNCHANGED <<consumer, result, delivered, events, emitted, stop, cancelled>>
        /\ \E from \in ProducerStates \ {"have", "exiting", "dead", "lost"},
              to \in ProducerStates \ {"have", "exiting", "dead"} :
                ProducerGoes(t, from, to)
    BY <1>5 DEF LoopFails, MakeEventsFails, EngineEnds, Block, Unblock, shared, ProducerStates
  <2>2. Listening(t) => ~cancelled'[t]
    BY <2>1 DEF Told, Flow
  <2> QED
    BY <2>1, <2>2, QuietProducer
<1>6. CASE Emit(t)
  <2>1. /\ UNCHANGED <<consumer, shared, delivered, result>>
        /\ producer[t] = "await" /\ producer'[t] = "have"
        /\ emitted'[t] = emitted[t] + 1
    BY <1>6 DEF Emit, ProducerGoes, TypeOK
  <2>2. ~Past(t) /\ ~Past(t)' /\ ~Mute(t) /\ InHand(t) = 0 /\ InHand(t)' = 1
    BY <2>1 DEF Past, Mute, InHand
  <2>3. ASSUME Listening(t)
        PROVE  Flow(t)'
    <3>1. /\ emitted[t] = Len(delivered[t]) + Len(events[t]) + 0
          /\ Waiting(t, Len(events[t]))
      BY <2>2, <2>3 DEF Told, Flow
    <3>2. emitted'[t] = Len(delivered'[t]) + Len(events'[t]) + InHand(t)'
      BY <2>1, <2>2, <3>1, LengthsTyped DEF shared
    <3>3. /\ ~stop'[t] /\ ~cancelled'[t] /\ result'[t] = "none"
          /\ consumer'[t] # "checkEmpty" /\ Waiting(t, Len(events[t]))'
      BY <2>1, <2>2, <2>3, <3>1 DEF Told, Flow, Waiting, shared
    <3> QED
      BY <2>2, <3>2, <3>3 DEF Flow
  <2> QED
    BY <2>1, <2>2, <2>3, ProducerTold
<1> QED
  BY <1>1, <1>2, <1>3, <1>4, <1>5, <1>6 DEF Environment

\* A step of one turn leaves the others alone.
LEMMA OthersTold ==
  ASSUME TypeOK, NEW t \in Turns, Step(t), NEW u \in Turns \ {t}, Told(u)
  PROVE  Told(u)'
<1>1. /\ consumer'[u] = consumer[u] /\ producer'[u] = producer[u]
      /\ events'[u] = events[u] /\ stop'[u] = stop[u]
      /\ cancelled'[u] = cancelled[u] /\ error'[u] = error[u]
      /\ emitted'[u] = emitted[u] /\ delivered'[u] = delivered[u]
      /\ result'[u] = result[u]
  <2> USE DEF TypeOK, ConsumerGoes, ProducerGoes, shared
  <2>1. CASE Spawn(t) \/ Poll(t) \/ Closing(t)
    BY <2>1 DEF Spawn, Poll, TakeEvent, TakeDone, FindEmpty, CheckRunning,
       CheckEmpty, Sleep, Closing, SetStop, RequestCancel, CallCancel, EndDrain, Finish
  <2>2. CASE Produce(t)
    BY <2>2 DEF Produce, MakeEvents, PublishCancel, RunLoop, CancelEngine,
       PutEvent, SeeStop, CancelBackOff, Unwind, CancelUnwind, Teardown,
       ReleaseSlot, PutDone, Exit
  <2>3. CASE Environment(t)
    BY <2>3 DEF Environment, Admit, Refuse, SpawnFails, Resume, Leave, Drain,
       LoopFails, MakeEventsFails, Emit, EngineEnds, Block, Unblock
  <2> QED
    BY <2>1, <2>2, <2>3 DEF Step
<1> QED
  BY <1>1 DEF Told, InOrder, Flow, Stayed, Waiting, Listening, Past, Mute, InHand

\* Events are delivered completely and in order to a caller that stays, and
\* it learns of an error, for any number of events and any size of the queue:
\* EndIsComplete, which is the two tests iter_turn stops on in bridge.py.
THEOREM EndComplete == Spec => []EndIsComplete
<1>1. Init => Lossless /\ NothingYet
  <2> SUFFICES ASSUME Init, NEW t \in Turns PROVE Told(t)
    BY DEF Lossless, NothingYet, Init
  <2>1. /\ consumer[t] = "idle" /\ producer[t] = "none" /\ result[t] = "none"
        /\ events[t] = <<>> /\ delivered[t] = <<>> /\ emitted[t] = 0
        /\ ~stop[t] /\ ~cancelled[t]
    BY DEF Init
  <2>2. Listening(t) /\ ~Past(t) /\ InHand(t) = 0
    BY <2>1 DEF Listening, Past, InHand
  <2>3. Len(events[t]) = 0 /\ Len(delivered[t]) = 0
    BY <2>1
  <2>4. InOrder(t) /\ Waiting(t, Len(events[t]))
    BY <2>3 DEF InOrder, Waiting, Run
  <2> QED
    BY <2>1, <2>2, <2>3, <2>4 DEF Told, Flow, Stayed
<1>2. IInv /\ Lossless /\ NothingYet /\ [Next]_vars => (Lossless /\ NothingYet)'
  <2> SUFFICES ASSUME TypeOK, Coupling, Lossless, NothingYet, [Next]_vars PROVE Lossless'
    BY NothingBeforeTheEngine DEF IInv
  <2>1. ASSUME NEW t \in Turns, Step(t) PROVE Lossless'
    <3>1. Told(t)'
      BY <2>1, PollTold, ClosingTold, ProduceTold, EnvironmentTold DEF Step, Lossless
    <3>2. \A u \in Turns \ {t} : Told(u)'
      BY <2>1, OthersTold DEF Lossless
    <3> QED
      BY <3>1, <3>2 DEF Lossless
  <2>2. CASE UNCHANGED vars
    BY <2>2 DEF vars, shared, Lossless, Told, InOrder, Flow, Stayed, Waiting, Listening,
       Past, Mute, InHand
  <2> QED
    BY <2>1, <2>2 DEF Next, Step
<1>3. IInv /\ Lossless => EndIsComplete
  <2> SUFFICES ASSUME TypeOK, Lossless, NEW t \in Turns, result[t] \in {"ended", "raised"}
               PROVE  /\ delivered[t] = [i \in 1 .. emitted[t] |-> i]
                      /\ result[t] = "ended" => ~error[t]
    BY DEF IInv, EndIsComplete
  <2>1. Told(t)
    BY DEF Lossless
  <2>2. ~Listening(t)
    BY <2>1 DEF Told, Flow
  <2>3. Len(delivered[t]) = emitted[t] /\ (result[t] = "ended" => ~error[t])
    BY <2>1, <2>2 DEF Told, Stayed
  <2>4. delivered[t] = [i \in 1 .. emitted[t] |-> i]
    BY <2>1, <2>3, EventsTyped DEF Told, InOrder
  <2> QED
    BY <2>3, <2>4
<1> QED
  BY <1>1, <1>2, <1>3, BridgeInvariant, PTL DEF Spec
==============================================================================
