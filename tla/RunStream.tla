----------------------------- MODULE RunStream ------------------------------
(***************************************************************************)
(* The event stream of one admitted run: the producer thread of run_script *)
(* drives the lesson's engine and fills a queue, the request thread turns  *)
(* the queue into server-sent events for the learner's browser.  From      *)
(* flaskr/service/learn/runscript_v2.py.  Two engines share the machinery: *)
(* the "agent" engine (2.0) withholds its terminal DONE until its rows are *)
(* committed, the "legacy" engine (1.0) emits none and the request thread  *)
(* closes the stream for it.                                               *)
(*                                                                         *)
(* A message is <<kind, n>>, n its place in what the engine has produced:  *)
(* "data" the client sees, "quiet" (a DONE that is not terminal) it does   *)
(* not, "ready" announces rows a backfill may read, "fin" is the terminal  *)
(* DONE.                                                                   *)
(***************************************************************************)
EXTENDS Naturals, Sequences, SequencesExt

CONSTANTS
    Engines,    \* engines a deployment may teach with
    MaxItems    \* bound: messages an engine produces in one run

ASSUME StreamAssumption ==
    /\ Engines \subseteq {"agent", "legacy"}
    /\ MaxItems \in Nat

VARIABLES
    engine,     \* the engine of this run
    made,       \* history: every message the engine has yielded
    durable,    \* how many of them had their rows committed
    gen,        \* where the engine's generator is
    producer,   \* where the producer thread is
    failed,     \* producer_exc is not None
    exhausted,  \* the for loop over the generator ran to its end
    conn,       \* the producer's database connection
    dirty,      \* history: its last exchange may have been cut short
    queue,      \* output_queue
    consumer,   \* where the request thread is
    hand,       \* the message it is about to yield
    sent,       \* the messages the client has taken
    stop,       \* stop_event
    late        \* history: messages the engine yielded after it was set

engineVars == <<engine, made, durable, gen, late>>
producerVars == <<producer, failed, exhausted, conn, dirty>>
consumerVars == <<consumer, hand, sent>>
streamVars == <<engineVars, producerVars, queue, consumerVars, stop>>

Kinds == {"data", "quiet", "ready", "fin"}
Error == <<"error", 0>>
DoneMark == <<"done", 0>>
Fin == <<"fin", 0>>

GenStates == {"reload", "reloadReady", "steps", "ready", "over"}
ProducerStates == {"none", "engine", "yielded", "passed", "closing", "ended"}
ConsumerStates ==
    {"poll", "sleep", "beat", "send", "tellError", "tellDone", "finally",
     "joining", "closed"}

\* A run that run_script refused starts with the busy error and has neither
\* a producer nor a finally block.
StreamInit ==
    /\ engine \in Engines
    /\ gen \in (IF engine = "legacy" THEN {"steps", "reload"} ELSE {"steps"})
    /\ \E admitted \in BOOLEAN :
          /\ producer = IF admitted THEN "engine" ELSE "none"
          /\ consumer = IF admitted THEN "poll" ELSE "tellError"
    /\ made = <<>>
    /\ durable = 0
    /\ failed = FALSE
    /\ exhausted = FALSE
    /\ conn = "out"
    /\ dirty = FALSE
    /\ queue = <<>>
    /\ hand = Fin
    /\ sent = <<>>
    /\ stop = FALSE
    /\ late = 0

------------------------------------------------------------------------------
(* The engine's generator, resumed by the producer thread.                 *)

\* The generator yields its next message.
Yield(kind) ==
    /\ producer = "engine"
    /\ Len(made) < MaxItems
    /\ producer' = "yielded"
    /\ made' = Append(made, <<kind, Len(made) + 1>>)
    /\ late' = IF stop THEN late + 1 ELSE late
    /\ UNCHANGED <<engine, durable, failed, exhausted, conn, dirty, queue,
                   consumerVars, stop>>

YieldItem ==
    /\ gen \in {"reload", "steps"}
    /\ \E kind \in {"data", "quiet"} : Yield(kind)
    /\ UNCHANGED gen

ReadyBeforeCommit ==
    /\ producer = "engine"
    /\ \/ gen = "reload" /\ gen' = "reloadReady"
       \/ gen = "steps" /\ gen' = "ready"
    /\ durable' = durable
    /\ UNCHANGED <<engine, late, made, producerVars, queue, consumerVars, stop>>

\* _commit_pending_step after a rewind, and after the last step or a
\* BreakError.
Commit ==
    /\ producer = "engine"
    /\ \/ gen = "reload" /\ gen' = "reloadReady"
       \/ gen = "steps" /\ gen' = "ready"
    /\ durable' = Len(made)
    /\ UNCHANGED <<engine, late, made, producerVars, queue, consumerVars, stop>>

YieldReady ==
    /\ gen \in {"reloadReady", "ready"}
    /\ Yield("ready")
    /\ UNCHANGED gen

\* The readiness events of a rewind are out; the steps follow.
EndReload ==
    /\ producer = "engine"
    /\ gen = "reloadReady"
    /\ gen' = "steps"
    /\ UNCHANGED <<engine, late, made, durable, producerVars, queue, consumerVars, stop>>

FinBeforeCommit ==
    /\ engine = "agent"
    /\ gen \in {"steps", "ready"}
    /\ gen' = "over"
    /\ Yield("fin")

\* The agent engine yields the DONE it withheld, after everything else.
YieldFin ==
    /\ engine = "agent"
    /\ gen = "ready"
    /\ gen' = "over"
    /\ Yield("fin")

\* The generator returns.  run_script_inner has removed its session by then;
\* the agent path leaves that to the producer.
Exhaust ==
    /\ producer = "engine"
    /\ gen \in {"ready", "over"}
    /\ engine = "agent" => gen = "over"
    /\ gen' = "over"
    /\ producer' = "closing"
    /\ exhausted' = TRUE
    /\ conn' = IF engine = "legacy" THEN "pooled" ELSE conn
    /\ UNCHANGED <<engine, late, made, durable, failed, dirty, queue, consumerVars, stop>>

\* run_script_inner sees the stop event before a rewind or a step: it
\* discards its connection and returns, which ends the producer's for loop
\* the way a finished run does.
Cancel ==
    /\ engine = "legacy"
    /\ stop
    /\ producer = "engine"
    /\ gen = "steps" \/ (gen = "reload" /\ made = <<>>)
    /\ gen' = "over"
    /\ producer' = "closing"
    /\ exhausted' = TRUE
    /\ dirty' = TRUE
    /\ conn' = "discarded"
    /\ UNCHANGED <<engine, late, made, durable, failed, queue, consumerVars, stop>>

\* No lesson script for the agent engine: the run falls back to 1.0.
FallBack ==
    /\ engine = "agent"
    /\ producer = "engine"
    /\ made = <<>>
    /\ gen = "steps"
    /\ engine' = "legacy"
    /\ UNCHANGED <<made, durable, gen, late, producerVars, queue, consumerVars, stop>>

FailDropsError ==
    /\ failed' = TRUE
    /\ producer' = "closing"
    /\ UNCHANGED <<engine, late, made, gen, exhausted, queue, consumerVars, stop>>

\* except Exception of the producer: the error is queued unless the client
\* has already gone.
Fail ==
    /\ failed' = TRUE
    /\ producer' = "closing"
    /\ queue' = IF stop THEN queue ELSE Append(queue, Error)
    /\ UNCHANGED <<engine, late, made, gen, exhausted, consumerVars, stop>>

\* The engine raises.  1.0 rolls back and removes its session, or discards a
\* connection that lost its protocol state.
EngineFails ==
    /\ producer = "engine"
    /\ gen # "over"
    /\ Fail
    /\ \/ /\ engine = "legacy"
          /\ conn' = "pooled"
          /\ UNCHANGED dirty
       \/ /\ conn' = IF engine = "legacy" THEN "discarded" ELSE conn
          /\ dirty' = TRUE
    /\ UNCHANGED durable

\* agentInputBudgetExceeded: the rows behind what was shown are committed
\* before the error surfaces.
BudgetExceeded ==
    /\ engine = "agent"
    /\ producer = "engine"
    /\ gen = "steps"
    /\ durable' = Len(made)
    /\ Fail
    /\ UNCHANGED <<conn, dirty>>

------------------------------------------------------------------------------
(* The producer thread around the generator.                               *)

PutWithoutStopTest ==
    /\ producer = "yielded"
    /\ producer' = "passed"
    /\ UNCHANGED <<engineVars, failed, exhausted, conn, dirty, queue, consumerVars,
                   stop>>

\* stop_event is not set ...
PassStopTest ==
    /\ producer = "yielded"
    /\ ~stop
    /\ producer' = "passed"
    /\ UNCHANGED <<engineVars, failed, exhausted, conn, dirty, queue, consumerVars,
                   stop>>

\* ... so the message is queued, even if it has been set since.
Put ==
    /\ producer = "passed"
    /\ queue' = Append(queue, Last(made))
    /\ producer' = "engine"
    /\ UNCHANGED <<engineVars, failed, exhausted, conn, dirty, consumerVars, stop>>

\* It is set: break, then res.close() raises GeneratorExit in the generator
\* at the yield it stands on; run_script_inner discards its connection there.
Break ==
    /\ producer = "yielded"
    /\ stop
    /\ producer' = "closing"
    /\ gen' = "over"
    /\ dirty' = TRUE
    /\ conn' = IF engine = "legacy" THEN "discarded" ELSE conn
    /\ UNCHANGED <<engine, late, made, durable, failed, exhausted, queue, consumerVars, stop>>

CloseWithoutDiscard ==
    /\ producer = "closing"
    /\ producer' = "ended"
    /\ conn' = IF conn # "out" THEN conn
               ELSE IF failed THEN "discarded" ELSE "pooled"
    /\ queue' = Append(queue, DoneMark)
    /\ UNCHANGED <<engineVars, failed, exhausted, dirty, consumerVars, stop>>

CloseWithoutDone ==
    /\ producer = "closing"
    /\ producer' = "ended"
    /\ conn' = IF conn # "out" THEN conn
               ELSE IF ~exhausted \/ failed THEN "discarded" ELSE "pooled"
    /\ UNCHANGED <<engineVars, failed, exhausted, dirty, queue, consumerVars, stop>>

\* The finally block: discard the connection of anything short of natural
\* exhaustion, remove the session, queue "done".
Close ==
    /\ producer = "closing"
    /\ producer' = "ended"
    /\ conn' = IF conn # "out" THEN conn
               ELSE IF ~exhausted \/ failed THEN "discarded" ELSE "pooled"
    /\ queue' = Append(queue, DoneMark)
    /\ UNCHANGED <<engineVars, failed, exhausted, dirty, consumerVars, stop>>

------------------------------------------------------------------------------
(* The request thread.                                                     *)

\* What the loop does with the next message of the queue.
Dispatch(m) ==
    consumer' = CASE m[1] = "quiet" -> "poll"
                  [] m[1] = "error" -> "tellError"
                  [] m[1] = "done" -> "tellDone"
                  [] OTHER -> "send"

\* get_nowait, from the top of the loop or after one heartbeat interval.
Take ==
    /\ consumer \in {"poll", "sleep"}
    /\ queue # <<>>
    /\ Dispatch(Head(queue))
    /\ hand' = Head(queue)
    /\ queue' = Tail(queue)
    /\ UNCHANGED <<engineVars, producerVars, sent, stop>>

\* queue.Empty: sleep one interval, and after a second miss send a heartbeat.
Idle ==
    /\ queue = <<>>
    /\ \/ consumer = "poll" /\ consumer' = "sleep"
       \/ consumer = "sleep" /\ consumer' = "beat"
    /\ UNCHANGED <<engineVars, producerVars, queue, hand, sent, stop>>

\* The client takes a heartbeat.
AcceptBeat ==
    /\ consumer = "beat"
    /\ consumer' = "poll"
    /\ UNCHANGED <<engineVars, producerVars, queue, hand, sent, stop>>

\* The client takes the message at hand.
Accept ==
    /\ consumer = "send"
    /\ consumer' = "poll"
    /\ sent' = Append(sent, hand)
    /\ UNCHANGED <<engineVars, producerVars, queue, hand, stop>>

\* The client takes the error event; the BREAK behind it is suppressed.
AcceptError ==
    /\ consumer = "tellError"
    /\ consumer' = "tellDone"
    /\ sent' = Append(sent, Error)
    /\ UNCHANGED <<engineVars, producerVars, queue, hand, stop>>

ClosedByEngine == sent # <<>> /\ Last(sent)[1] = "fin"

\* Where the generator goes once its last event is out.
Leaving == IF producer = "none" THEN "closed" ELSE "finally"

FinishAlways ==
    /\ consumer = "tellDone"
    /\ consumer' = Leaving
    /\ sent' = Append(sent, Fin)
    /\ UNCHANGED <<engineVars, producerVars, queue, hand, stop>>

\* The terminal DONE, unless the last event sent was one already.
Finish ==
    /\ consumer = "tellDone"
    /\ consumer' = Leaving
    /\ sent' = IF ClosedByEngine THEN sent ELSE Append(sent, Fin)
    /\ UNCHANGED <<engineVars, producerVars, queue, hand, stop>>

\* The client is gone: GeneratorExit or a broken pipe at a yield of the loop
\* stops the producer, and no terminal event is attempted.
Leave ==
    /\ consumer \in {"send", "beat"}
    /\ consumer' = "finally"
    /\ stop' = TRUE
    /\ UNCHANGED <<engineVars, producerVars, queue, hand, sent>>

\* GeneratorExit at the yield of a terminal event.
LeaveAtEnd ==
    /\ \/ consumer = "tellError"
       \/ consumer = "tellDone" /\ ~ClosedByEngine
    /\ consumer' = Leaving
    /\ UNCHANGED <<engineVars, producerVars, queue, hand, sent, stop>>

EnterFinally ==
    /\ consumer = "finally"
    /\ consumer' = "joining"
    /\ stop' = TRUE
    /\ UNCHANGED <<engineVars, producerVars, queue, hand, sent>>

\* join(timeout=0.1) gives up on a producer that does not stop.
JoinProducer ==
    /\ consumer = "joining"
    /\ consumer' = "closed"
    /\ UNCHANGED <<engineVars, producerVars, queue, hand, sent, stop>>

------------------------------------------------------------------------------
Engine ==
    \/ YieldItem \/ Commit \/ YieldReady \/ EndReload \/ YieldFin \/ Exhaust
    \/ Cancel \/ FallBack \/ EngineFails \/ BudgetExceeded

Producer == PassStopTest \/ Put \/ Break \/ Close

\* The request thread between two yields, and what a client does at a yield.
Request == Take \/ Idle \/ EnterFinally \/ JoinProducer
Client == Accept \/ AcceptBeat \/ AcceptError \/ Finish
Departure == Leave \/ LeaveAtEnd

StreamNext == Engine \/ Producer \/ Request \/ Client \/ Departure

StreamSpec == StreamInit /\ [][StreamNext]_streamVars

\* Both threads run on; the engine, and the client at a yield, owe nothing.
\* Finish yields only when the engine has not closed the stream.
FairStreamSpec ==
    /\ StreamSpec
    /\ WF_streamVars(Producer)
    /\ WF_streamVars(Request \/ (Finish /\ ClosedByEngine))

------------------------------------------------------------------------------
(* Properties.                                                             *)

Messages == (Kinds \X (1 .. MaxItems)) \cup {Error, Fin}

\* Every variable stays in its range.
StreamTypeOK ==
    /\ engine \in Engines \cup {"legacy"}
    /\ made \in Seq(Kinds \X (1 .. MaxItems))
    /\ durable \in 0 .. Len(made)
    /\ gen \in GenStates
    /\ producer \in ProducerStates
    /\ failed \in BOOLEAN
    /\ exhausted \in BOOLEAN
    /\ conn \in {"out", "pooled", "discarded"}
    /\ dirty \in BOOLEAN
    /\ queue \in Seq(Messages \cup {DoneMark})
    /\ consumer \in ConsumerStates
    /\ hand \in Messages \cup {DoneMark}
    /\ sent \in Seq(Messages)
    /\ stop \in BOOLEAN
    /\ late \in Nat

SentKinds == {sent[i][1] : i \in 1 .. Len(sent)}
Told(kind) == kind \in SentKinds

\* The rows behind the first n messages are committed.
Committed(n) ==
    \A i \in 1 .. n : made[i][1] \in {"data", "quiet"} => i <= durable

\* The browser closes its connection on the terminal DONE and drops the run
\* on an error: DONE is sent once and last, and an error only right before it.
StreamShape ==
    \A i \in 1 .. Len(sent) :
        /\ sent[i][1] = "fin" => i = Len(sent)
        /\ sent[i][1] = "error" => i >= Len(sent) - 1

\* A learner told DONE without an error has received everything the engine
\* showed, in order, and all of it is committed: a page reloaded at that
\* moment reads back what was streamed.
DoneMeansDelivered ==
    Told("fin") /\ ~Told("error") =>
        /\ {sent[i] : i \in 1 .. Len(sent) - 1}
             = {made[i] : i \in {j \in 1 .. Len(made) : made[j][1] \in {"data", "ready"}}}
        /\ \A i, j \in 1 .. Len(sent) - 1 : i < j => sent[i][2] < sent[j][2]
        /\ Committed(Len(made))

\* A readiness event sends a backfill to read the rows of every message
\* before it; they are committed before the event leaves the engine.
ReadyMeansDurable ==
    \A i \in 1 .. Len(made) : made[i][1] = "ready" => Committed(i)

\* A connection whose exchange may have been cut short, by a departed client
\* or a failed engine, never goes back to the pool, whichever of the two
\* layers that release it gets there first.
DirtyConnectionNeverPooled == conn = "pooled" => ~dirty

\* A learner who stays to the end of a failed or refused run is told so.
FailureIsTold ==
    consumer = "closed" /\ Told("fin") /\ (failed \/ producer = "none") => Told("error")

\* After the client has left, the engine is resumed for at most one message:
\* a lesson nobody listens to stops costing model calls.
EngineStopsWithClient == late <= 1

\* Once the producer has ended, the stream closes unless the client stops
\* taking events for good.
StreamCloses ==
    (producer = "ended") ~>
        (consumer = "closed"
         \/ [](consumer \in {"send", "beat", "tellError", "tellDone"}))
==============================================================================
