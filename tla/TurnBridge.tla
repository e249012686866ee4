----------------------------- MODULE TurnBridge -----------------------------
(***************************************************************************)
(* flaskr/service/learn/agent/bridge.py: one engine turn runs on a         *)
(* producer thread that owns an event loop; the request thread polls the   *)
(* queue the producer fills.  The two threads share the queue, a stop flag,*)
(* the cancel hook, the error field and the per-process count of turns in  *)
(* flight.  Each action is one step between two accesses to that shared    *)
(* state, so every interleaving of the two threads is explored.            *)
(*                                                                         *)
(* The engine behind make_events is the environment: it may emit, end,     *)
(* raise, or sit in a synchronous provider read that no cancel reaches.    *)
(* Events are the numbers 1, 2, ... in the order the engine emits them.    *)
(***************************************************************************)
EXTENDS Naturals, Sequences, FiniteSets

CONSTANTS
    Turns,          \* turns that requests of this worker process ask for
    MaxTurns,       \* MAX_TURNS_IN_FLIGHT = GEVENT_POOL_SIZE
    BufferLimit,    \* BUFFER_LIMIT
    Gevent,         \* whether _spawn goes through the gevent thread pool
    MaxEvents,      \* bound: events the engine emits in one turn
    Done            \* the _DONE sentinel

ASSUME TurnsFinite == IsFiniteSet(Turns)
ASSUME LimitsAssumption ==
    /\ MaxTurns \in Nat \ {0}
    /\ BufferLimit \in Nat \ {0}
    /\ MaxEvents \in Nat
    /\ Gevent \in BOOLEAN
    /\ Done \notin Nat

VARIABLES
    inFlight,   \* _InFlight.count
    consumer,   \* where the request thread of a turn is
    producer,   \* where the producer thread of a turn is
    events,     \* stream.events, the cross-thread queue
    stop,       \* stream.stop.requested
    cancelSet,  \* stream.cancel is not None
    cancelled,  \* a cancellation of the pump task is pending on its loop
    error,      \* stream.error is not None
    engine,     \* the engine's async generator: "none", "open", "closed"
    emitted,    \* how many events the engine has emitted
    delivered,  \* the events iter_turn has yielded to its caller
    result      \* how the iterator ended: "none", "left", "raised", "ended"

shared == <<events, stop, cancelSet, cancelled, error>>
vars == <<inFlight, consumer, producer, shared, engine, emitted, delivered,
          result>>

ConsumerStates ==
    {"idle", "refused", "failed", "admitted", "poll", "checkRunning",
     "checkEmpty", "sleep", "yielded", "closing", "cancelling", "cancelCall",
     "draining", "returned"}

ProducerStates ==
    {"none", "spawned", "made", "published", "await", "blocked", "have",
     "unwind", "teardown", "closed", "released", "exiting", "dead", "lost"}

\* Threads that _spawn started and whose is_running() is still true.
Running == {t \in Turns : producer[t] \notin {"none", "dead", "lost"}}

\* Threads that have not yet given their slot back.
Unreleased ==
    {"spawned", "made", "published", "await", "blocked", "have", "unwind",
     "teardown", "closed"}

\* The turns that hold a slot.
Holders ==
    {t \in Turns : consumer[t] = "admitted" \/ producer[t] \in Unreleased}

\* The turns whose thread died before the try block of produce(): their slot
\* stays counted for as long as the worker process lives.
Lost == {t \in Turns : producer[t] = "lost"}

\* The turns that were refused, and those whose slot went back.
Refused == {t \in Turns : consumer[t] = "refused"}
Over ==
    {t \in Turns : \/ consumer[t] = "failed"
                   \/ producer[t] \in {"released", "exiting", "dead"}}

Init ==
    /\ inFlight = 0
    /\ consumer = [t \in Turns |-> "idle"]
    /\ producer = [t \in Turns |-> "none"]
    /\ events = [t \in Turns |-> <<>>]
    /\ stop = [t \in Turns |-> FALSE]
    /\ cancelSet = [t \in Turns |-> FALSE]
    /\ cancelled = [t \in Turns |-> FALSE]
    /\ error = [t \in Turns |-> FALSE]
    /\ engine = [t \in Turns |-> "none"]
    /\ emitted = [t \in Turns |-> 0]
    /\ delivered = [t \in Turns |-> <<>>]
    /\ result = [t \in Turns |-> "none"]

------------------------------------------------------------------------------
(* The request thread.                                                     *)

ConsumerGoes(t, from, to) ==
    /\ consumer[t] = from
    /\ consumer' = [consumer EXCEPT ![t] = to]

\* _InFlight.release
Release == inFlight' = IF inFlight > 0 THEN inFlight - 1 ELSE 0

AdmitOffByOne(t) ==
    /\ inFlight <= MaxTurns
    /\ inFlight' = inFlight + 1
    /\ ConsumerGoes(t, "idle", "admitted")
    /\ UNCHANGED <<producer, shared, engine, emitted, delivered, result>>

\* _InFlight.admit takes a slot ...
Admit(t) ==
    /\ inFlight < MaxTurns
    /\ inFlight' = inFlight + 1
    /\ ConsumerGoes(t, "idle", "admitted")
    /\ UNCHANGED <<producer, shared, engine, emitted, delivered, result>>

\* ... or raises TurnCapacityError in the caller's frame.
Refuse(t) ==
    /\ inFlight >= MaxTurns
    /\ ConsumerGoes(t, "idle", "refused")
    /\ UNCHANGED <<inFlight, producer, shared, engine, emitted, delivered, result>>

\* _spawn: under gevent it waits for a free thread of a pool of MaxTurns.
Spawn(t) ==
    /\ Gevent => Cardinality(Running) < MaxTurns
    /\ ConsumerGoes(t, "admitted", "poll")
    /\ producer' = [producer EXCEPT ![t] = "spawned"]
    /\ UNCHANGED <<inFlight, shared, engine, emitted, delivered, result>>

SpawnFailsKeepingSlot(t) ==
    /\ ConsumerGoes(t, "admitted", "failed")
    /\ UNCHANGED <<inFlight, producer, shared, engine, emitted, delivered, result>>

\* _spawn raises: the slot goes back before the exception leaves.
SpawnFails(t) ==
    /\ ConsumerGoes(t, "admitted", "failed")
    /\ Release
    /\ UNCHANGED <<producer, shared, engine, emitted, delivered, result>>

\* get_nowait finds an event: yield it to the caller.
TakeEvent(t) ==
    /\ events[t] # <<>>
    /\ Head(events[t]) # Done
    /\ ConsumerGoes(t, "poll", "yielded")
    /\ events' = [events EXCEPT ![t] = Tail(@)]
    /\ delivered' = [delivered EXCEPT ![t] = Append(@, Head(events[t]))]
    /\ UNCHANGED <<inFlight, producer, stop, cancelSet, cancelled, error,
                   engine, emitted, result>>

\* get_nowait finds _DONE.
TakeDone(t) ==
    /\ events[t] # <<>>
    /\ Head(events[t]) = Done
    /\ ConsumerGoes(t, "poll", "closing")
    /\ events' = [events EXCEPT ![t] = Tail(@)]
    /\ UNCHANGED <<inFlight, producer, stop, cancelSet, cancelled, error,
                   engine, emitted, delivered, result>>

\* get_nowait raises queue.Empty.
FindEmpty(t) ==
    /\ events[t] = <<>>
    /\ ConsumerGoes(t, "poll", "checkRunning")
    /\ UNCHANGED <<inFlight, producer, shared, engine, emitted, delivered, result>>

CheckRunningOnly(t) ==
    /\ ConsumerGoes(t, "checkRunning", IF t \in Running THEN "sleep" ELSE "closing")
    /\ UNCHANGED <<inFlight, producer, shared, engine, emitted, delivered, result>>

\* is_running() is read first ...
CheckRunning(t) ==
    /\ ConsumerGoes(t, "checkRunning",
                    IF t \in Running THEN "sleep" ELSE "checkEmpty")
    /\ UNCHANGED <<inFlight, producer, shared, engine, emitted, delivered, result>>

\* ... and the queue again after it.
CheckEmpty(t) ==
    /\ ConsumerGoes(t, "checkEmpty",
                    IF events[t] = <<>> THEN "closing" ELSE "sleep")
    /\ UNCHANGED <<inFlight, producer, shared, engine, emitted, delivered, result>>

\* One poll interval, after which a due heartbeat is yielded.
Sleep(t) ==
    /\ \/ ConsumerGoes(t, "sleep", "poll")
       \/ ConsumerGoes(t, "sleep", "yielded")
    /\ UNCHANGED <<inFlight, producer, shared, engine, emitted, delivered, result>>

\* The caller asks for the next item.
Resume(t) ==
    /\ ConsumerGoes(t, "yielded", "poll")
    /\ UNCHANGED <<inFlight, producer, shared, engine, emitted, delivered, result>>

\* The caller closes the iterator, or the heartbeat raises GeneratorExit.
Leave(t) ==
    /\ \/ ConsumerGoes(t, "yielded", "closing")
       \/ ConsumerGoes(t, "sleep", "closing")
    /\ result' = [result EXCEPT ![t] = "left"]
    /\ UNCHANGED <<inFlight, producer, shared, engine, emitted, delivered>>

\* The finally block: raise the stop flag ...
SetStop(t) ==
    /\ ConsumerGoes(t, "closing", "cancelling")
    /\ stop' = [stop EXCEPT ![t] = TRUE]
    /\ UNCHANGED <<inFlight, producer, events, cancelSet, cancelled, error,
                   engine, emitted, delivered, result>>

\* ... and only then look whether there is a task to cancel.
RequestCancel(t) ==
    /\ ConsumerGoes(t, "cancelling",
                    IF cancelSet[t] /\ t \in Running THEN "cancelCall"
                                                     ELSE "draining")
    /\ UNCHANGED <<inFlight, producer, shared, engine, emitted, delivered, result>>

\* call_soon_threadsafe(task.cancel); a loop already closed raises
\* RuntimeError, which is suppressed, and a finished task ignores it.
CallCancel(t) ==
    /\ ConsumerGoes(t, "cancelCall", "draining")
    /\ cancelled' = [cancelled EXCEPT ![t] =
            @ \/ producer[t] \in {"published", "await", "blocked", "have", "unwind"}]
    /\ UNCHANGED <<inFlight, producer, events, stop, cancelSet, error,
                   engine, emitted, delivered, result>>

\* _drain_until_stopped empties the queue while the producer lives.
Drain(t) ==
    /\ t \in Running
    /\ events[t] # <<>>
    /\ ConsumerGoes(t, "draining", "draining")
    /\ events' = [events EXCEPT ![t] = <<>>]
    /\ UNCHANGED <<inFlight, producer, stop, cancelSet, cancelled, error,
                   engine, emitted, delivered, result>>

\* A recorded error is raised unless GeneratorExit is under way.
Finish(t) ==
    /\ ConsumerGoes(t, "draining", "returned")
    /\ result' = [result EXCEPT ![t] =
            IF @ = "left" THEN @ ELSE IF error[t] THEN "raised" ELSE "ended"]
    /\ UNCHANGED <<inFlight, producer, shared, engine, emitted, delivered>>

EndDrainOnlyWhenDead(t) == t \notin Running /\ Finish(t)

\* The drain ends once the producer is gone or PRODUCER_EXIT_TIMEOUT has
\* passed, which it may do at any moment.
EndDrain(t) == Finish(t)

------------------------------------------------------------------------------
(* The producer thread, its event loop and the engine it drives.           *)

ProducerGoes(t, from, to) ==
    /\ producer[t] = from
    /\ producer' = [producer EXCEPT ![t] = to]

\* asyncio.new_event_loop() raises, as it does when the process has run out
\* of descriptors.  It stands before the try block, so the thread just ends:
\* no error is recorded, no slot given back and no _DONE put.
LoopFails(t) ==
    /\ ProducerGoes(t, "spawned", "lost")
    /\ UNCHANGED <<inFlight, consumer, shared, engine, emitted, delivered, result>>

\* make_events() and create_task(pump()).
MakeEvents(t) ==
    /\ ProducerGoes(t, "spawned", "made")
    /\ UNCHANGED <<inFlight, consumer, shared, engine, emitted, delivered, result>>

\* make_events() raises: nothing to unwind.
MakeEventsFails(t) ==
    /\ ProducerGoes(t, "spawned", "teardown")
    /\ error' = [error EXCEPT ![t] = TRUE]
    /\ UNCHANGED <<inFlight, consumer, events, stop, cancelSet, cancelled,
                   engine, emitted, delivered, result>>

\* stream.cancel = ...
PublishCancel(t) ==
    /\ ProducerGoes(t, "made", "published")
    /\ cancelSet' = [cancelSet EXCEPT ![t] = TRUE]
    /\ UNCHANGED <<inFlight, consumer, events, stop, cancelled, error,
                   engine, emitted, delivered, result>>

RunWithoutRecheck(t) ==
    /\ ProducerGoes(t, "published", "await")
    /\ engine' = [engine EXCEPT ![t] = "open"]
    /\ UNCHANGED <<inFlight, consumer, shared, emitted, delivered, result>>

\* The stop flag is read again after the hook is published.  A task that is
\* cancelled before its first step never enters pump(), so the engine's
\* generator is never started; otherwise run_until_complete drives it.
RunLoop(t) ==
    /\ \/ /\ stop[t]
          /\ ProducerGoes(t, "published", "teardown")
          /\ UNCHANGED engine
       \/ /\ ~stop[t]
          /\ ProducerGoes(t, "published", "await")
          /\ engine' = [engine EXCEPT ![t] = "open"]
    /\ UNCHANGED <<inFlight, consumer, shared, emitted, delivered, result>>

\* The engine emits its next event (bounded by MaxEvents).
Emit(t) ==
    /\ emitted[t] < MaxEvents
    /\ ProducerGoes(t, "await", "have")
    /\ emitted' = [emitted EXCEPT ![t] = @ + 1]
    /\ UNCHANGED <<inFlight, consumer, shared, engine, delivered, result>>

\* The engine's generator ends, or raises.
EngineEnds(t) ==
    /\ ProducerGoes(t, "await", "unwind")
    /\ engine' = [engine EXCEPT ![t] = "closed"]
    /\ \E raised \in BOOLEAN : error' = [error EXCEPT ![t] = raised]
    /\ UNCHANGED <<inFlight, consumer, events, stop, cancelSet, cancelled,
                   emitted, delivered, result>>

\* The engine sits in a synchronous provider read: the loop cannot run.
Block(t) ==
    /\ ProducerGoes(t, "await", "blocked")
    /\ UNCHANGED <<inFlight, consumer, shared, engine, emitted, delivered, result>>

\* The read returns; a gateway that sees the stop flag gives up by itself.
Unblock(t) ==
    /\ \/ /\ ProducerGoes(t, "blocked", "await")
          /\ UNCHANGED engine
       \/ /\ stop[t]
          /\ ProducerGoes(t, "blocked", "unwind")
          /\ engine' = [engine EXCEPT ![t] = "closed"]
    /\ UNCHANGED <<inFlight, consumer, shared, emitted, delivered, result>>

\* CancelledError reaches the engine while it awaits the model.
CancelEngine(t) ==
    /\ cancelled[t]
    /\ ProducerGoes(t, "await", "unwind")
    /\ cancelled' = [cancelled EXCEPT ![t] = FALSE]
    /\ engine' = [engine EXCEPT ![t] = "closed"]
    /\ UNCHANGED <<inFlight, consumer, events, stop, cancelSet, error,
                   emitted, delivered, result>>

\* pump: there is room and nobody asked to stop, so the event is queued.
PutEvent(t) ==
    /\ ~stop[t]
    /\ Len(events[t]) < BufferLimit
    /\ ProducerGoes(t, "have", "await")
    /\ events' = [events EXCEPT ![t] = Append(@, emitted[t])]
    /\ UNCHANGED <<inFlight, consumer, stop, cancelSet, cancelled, error,
                   engine, emitted, delivered, result>>

\* pump: a stop request ends the loop and drops the event at hand.
SeeStop(t) ==
    /\ stop[t]
    /\ ProducerGoes(t, "have", "unwind")
    /\ UNCHANGED <<inFlight, consumer, shared, engine, emitted, delivered, result>>

\* CancelledError reaches pump() while it backs off on a full queue.
CancelBackOff(t) ==
    /\ cancelled[t]
    /\ ProducerGoes(t, "have", "unwind")
    /\ cancelled' = [cancelled EXCEPT ![t] = FALSE]
    /\ UNCHANGED <<inFlight, consumer, events, stop, cancelSet, error,
                   engine, emitted, delivered, result>>

\* pump's finally: agen.aclose() completes, or raises, ...
Unwind(t) ==
    /\ ProducerGoes(t, "unwind", "teardown")
    /\ \E raised \in BOOLEAN :
          /\ raised => engine[t] = "open"
          /\ error' = [error EXCEPT ![t] = @ \/ raised]
    /\ engine' = [engine EXCEPT ![t] = "closed"]
    /\ UNCHANGED <<inFlight, consumer, events, stop, cancelSet, cancelled,
                   emitted, delivered, result>>

\* ... or the consumer's cancellation lands inside it and cuts it short.
CancelUnwind(t) ==
    /\ cancelled[t]
    /\ engine[t] = "open"
    /\ ProducerGoes(t, "unwind", "teardown")
    /\ cancelled' = [cancelled EXCEPT ![t] = FALSE]
    /\ UNCHANGED <<inFlight, consumer, events, stop, cancelSet, error,
                   engine, emitted, delivered, result>>

CloseLoopOnly(t) ==
    /\ ProducerGoes(t, "teardown", "closed")
    /\ UNCHANGED <<inFlight, consumer, shared, engine, emitted, delivered, result>>

\* The finally block of produce(): shutdown_asyncgens() closes whatever the
\* unwinding left open, then the loop is closed.
Teardown(t) ==
    /\ ProducerGoes(t, "teardown", "closed")
    /\ engine' = [engine EXCEPT ![t] = IF @ = "open" THEN "closed" ELSE @]
    /\ UNCHANGED <<inFlight, consumer, shared, emitted, delivered, result>>

\* The slot goes back before _DONE is queued.
ReleaseSlot(t) ==
    /\ ProducerGoes(t, "closed", "released")
    /\ Release
    /\ UNCHANGED <<consumer, shared, engine, emitted, delivered, result>>

PutDone(t) ==
    /\ ProducerGoes(t, "released", "exiting")
    /\ events' = [events EXCEPT ![t] = Append(@, Done)]
    /\ UNCHANGED <<inFlight, consumer, stop, cancelSet, cancelled, error,
                   engine, emitted, delivered, result>>

\* The thread ends: is_running() turns false.
Exit(t) ==
    /\ ProducerGoes(t, "exiting", "dead")
    /\ UNCHANGED <<inFlight, consumer, shared, engine, emitted, delivered, result>>

------------------------------------------------------------------------------
\* What the request thread does by itself once the caller has called next().
Poll(t) ==
    \/ TakeEvent(t) \/ TakeDone(t) \/ FindEmpty(t)
    \/ CheckRunning(t) \/ CheckEmpty(t) \/ Sleep(t)

Closing(t) ==
    \/ SetStop(t) \/ RequestCancel(t) \/ CallCancel(t) \/ EndDrain(t)

\* What the producer thread does by itself, the engine's own moves aside.
Produce(t) ==
    \/ MakeEvents(t) \/ PublishCancel(t) \/ RunLoop(t)
    \/ CancelEngine(t) \/ PutEvent(t) \/ SeeStop(t) \/ CancelBackOff(t)
    \/ Unwind(t) \/ CancelUnwind(t) \/ Teardown(t)
    \/ ReleaseSlot(t) \/ PutDone(t) \/ Exit(t)

\* The caller, the operating system and the engine: nothing obliges them.
Environment(t) ==
    \/ Admit(t) \/ Refuse(t) \/ SpawnFails(t) \/ Resume(t) \/ Leave(t)
    \/ Drain(t) \/ LoopFails(t) \/ MakeEventsFails(t)
    \/ Emit(t) \/ EngineEnds(t) \/ Block(t) \/ Unblock(t)

Next ==
    \E t \in Turns :
        Spawn(t) \/ Poll(t) \/ Closing(t) \/ Produce(t) \/ Environment(t)

Spec == Init /\ [][Next]_vars

\* Threads that can run are scheduled; a client, the engine and a blocked
\* provider read owe nothing.
Fairness ==
    \A t \in Turns :
        WF_vars(Spawn(t)) /\ WF_vars(Poll(t)) /\ WF_vars(Closing(t))
        /\ WF_vars(Produce(t))

FairSpec == Spec /\ Fairness

------------------------------------------------------------------------------
(* Properties.                                                             *)

\* Every variable stays in its range.
TypeOK ==
    /\ inFlight \in Nat
    /\ consumer \in [Turns -> ConsumerStates]
    /\ producer \in [Turns -> ProducerStates]
    /\ events \in [Turns -> Seq(Nat \cup {Done})]
    /\ stop \in [Turns -> BOOLEAN]
    /\ cancelSet \in [Turns -> BOOLEAN]
    /\ cancelled \in [Turns -> BOOLEAN]
    /\ error \in [Turns -> BOOLEAN]
    /\ engine \in [Turns -> {"none", "open", "closed"}]
    /\ emitted \in [Turns -> Nat]
    /\ delivered \in [Turns -> Seq(Nat)]
    /\ result \in [Turns -> {"none", "left", "raised", "ended"}]

\* The worker's count is exactly the turns that hold a slot and those whose
\* thread could not get an event loop, and never passes the ceiling, whichever
\* thread gives a slot back and when: none is given back twice, and the only
\* way to lose one is LoopFails.
SlotAccounting ==
    /\ inFlight = Cardinality(Holders \cup Lost)
    /\ inFlight <= MaxTurns

\* An admitted turn never waits in spawn for a turn that is still running: of
\* the MaxTurns pool threads at least one is free or already past its release.
SpawnWaitsForNoRunningTurn ==
    \A t \in Turns :
        consumer[t] = "admitted" =>
            Cardinality({u \in Turns : producer[u] \in Unreleased}) < MaxTurns

\* Once a turn's slot is free for the next learner, the engine generator it
\* drove, and the provider connection under it, have been unwound, also when
\* the consumer's cancellation cut the unwinding short.
EngineClosedBeforeSlotIsFree ==
    \A t \in Turns :
        producer[t] \in {"closed", "released", "exiting", "dead"} =>
            engine[t] # "open"

\* A caller that stays to the end has received every event the engine
\* emitted, in order, before the iterator ends or raises, and it ends without
\* raising only if the turn recorded no error: nothing is lost between the
\* producer's last put and the two tests the consumer stops on.
EndIsComplete ==
    \A t \in Turns :
        /\ result[t] \in {"ended", "raised"} =>
                delivered[t] = [i \in 1 .. emitted[t] |-> i]
        /\ result[t] = "ended" => ~error[t]

\* The queue holds at most BUFFER_LIMIT events, and one sentinel once the
\* producer has put it, however slowly the caller reads.
BufferBounded ==
    \A t \in Turns :
        Len(events[t]) <= BufferLimit
                          + IF producer[t] \in {"exiting", "dead"} THEN 1 ELSE 0

\* The abstract slots this module implements.
Slots == INSTANCE TurnSlots
    WITH held <- Holders, lost <- Lost, refused <- Refused, over <- Over

\* Admission implements the slot discipline: a turn is refused only while
\* every slot is really taken, by a turn or by one that lost it.
ImplementsSlots == Slots!Spec

\* Closing the iterator returns to the caller even while the producer sits
\* in a provider read that never returns.
CloseReturns ==
    \A t \in Turns : (consumer[t] = "closing") ~> (consumer[t] = "returned")

\* A turn nobody listens to any more gives its thread back whenever it is not
\* inside an uninterruptible read: the stop flag and the cancel hook, set and
\* read in opposite orders by the two threads, never both miss.
StoppedTurnEnds ==
    \A t \in Turns : stop[t] ~> (producer[t] \in {"blocked", "dead", "lost"})
==============================================================================
