----------------------------- MODULE MCStreams ------------------------------
(***************************************************************************)
(* What must end or arrive, on small instances: the stream of one run, one *)
(* agent turn behind such a run, and the turns of one voice session.  They *)
(* share no variable here: a behaviour is one of a single part, chosen at  *)
(* the start, while the others rest in an initial state.                   *)
(***************************************************************************)
EXTENDS RunStream

CONSTANTS
    AgentTurns, MaxThreads, BufferLimit, Gevent, MaxEvents, Done,
    Sessions, Workers, MaxReports, Silent, MaxFaults, Absent, Nobody

VARIABLES
    part,
    inFlight, request, thread, events, asked, cancelSet, cancelled, error,
    agen, emitted, delivered, result,
    binding, receipt, overdue, lock, placed, top, usage, task, acked,
    consumed, dropped, faults

turnVars ==
    <<inFlight, request, thread, events, asked, cancelSet, cancelled, error,
      agen, emitted, delivered, result>>
voiceVars ==
    <<binding, receipt, overdue, lock, placed, top, usage, task, acked,
      consumed, dropped, faults>>
everything == <<part, streamVars, turnVars, voiceVars>>

Turn == INSTANCE TurnBridge WITH
    Turns <- AgentTurns, MaxTurns <- MaxThreads, consumer <- request,
    producer <- thread, stop <- asked, engine <- agen

Voice == INSTANCE LiveTurns WITH MaxTurns <- MaxReports, late <- overdue

Is(p) == part = p

AnyInit ==
    /\ part \in {"stream", "turn", "voice"}
    /\ StreamInit /\ Turn!Init /\ Voice!Init
    /\ Is("stream") \/ (engine = "agent" /\ producer = "engine")

AnyNext ==
    \/ Is("stream") /\ StreamNext /\ UNCHANGED <<part, turnVars, voiceVars>>
    \/ Is("turn") /\ Turn!Next /\ UNCHANGED <<part, streamVars, voiceVars>>
    \/ Is("voice") /\ Voice!PatientNext /\ UNCHANGED <<part, streamVars, turnVars>>

\* The fairness of FairStreamSpec, of TurnBridge's FairSpec and of PatientSpec,
\* which a part at rest does not owe.
AnySpec ==
    /\ AnyInit /\ [][AnyNext]_everything
    /\ WF_streamVars(Is("stream") /\ Producer)
    /\ WF_streamVars(Is("stream") /\ (Request \/ (Finish /\ ClosedByEngine)))
    /\ \A t \in AgentTurns :
          /\ WF_turnVars(Is("turn") /\ Turn!Spawn(t))
          /\ WF_turnVars(Is("turn") /\ Turn!Poll(t))
          /\ WF_turnVars(Is("turn") /\ Turn!Closing(t))
          /\ WF_turnVars(Is("turn") /\ Turn!Produce(t))
    /\ \A w \in Workers :
          /\ WF_voiceVars(Is("voice") /\ Voice!Handle(w))
          /\ \A s \in Sessions, i \in 1 .. MaxReports :
                SF_voiceVars(Is("voice") /\ Voice!Reports(w, s, i))

\* Closing the iterator of a turn returns to the caller even while the
\* producer sits in a provider read that never returns.
CloseReturns == Turn!CloseReturns

\* A turn nobody listens to any more gives its thread back whenever it is not
\* inside an uninterruptible read.
StoppedTurnEnds == Turn!StoppedTurnEnds

\* A browser that keeps reporting gets every turn of an open voice session
\* acknowledged, whichever worker died with a claim in hand.
TurnsLand == Is("voice") => Voice!TurnsLand
==============================================================================
