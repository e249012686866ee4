---------------------------- MODULE AgentLesson -----------------------------
(***************************************************************************)
(* One learner in one lesson of the 2.0 engine: the conversation persisted *)
(* in learn_agent_sessions beside the rows of the lesson (progress         *)
(* records, one generated block per turn), taught, taken back and reset by *)
(* requests: service/learn/agent/{run_agent,lesson_record,rewind,          *)
(* session_store,lesson_entry}.py and reset_learn_record.                  *)
(*                                                                         *)
(* Blocks are numbered in the order of their rows, and a progress record   *)
(* by the block it was created with; one that is created without a turn    *)
(* takes a number of its own.  A conversation is the sequence of the turns *)
(* that added messages to it.  Who may run is RunGate's matter: here a     *)
(* second run may start beside another if the lesson lock was lost.        *)
(***************************************************************************)
EXTENDS Naturals, Sequences, FiniteSets

CONSTANTS
    Requests,   \* slots for lesson requests
    MaxTurns,   \* bound on the turns opened and the records created without one
    MaxResets,  \* bound on the resets
    MaxOverlap, \* how many turns may be opened when a second run starts beside
                \* another; 0: the lesson lock is never lost
    MaxVisited  \* how many numbers may be taken when someone else asks for a
                \* record; 0: nobody does

ASSUME AgentAssumption ==
    /\ MaxTurns \in Nat
    /\ MaxResets \in Nat
    /\ MaxOverlap \in Nat
    /\ MaxVisited \in Nat

Ids == 1 .. MaxTurns

VARIABLES
    record,     \* record[i]: the progress record created with block i
    block,      \* block[i]: the row of turn i
    opened,     \* how many numbers are taken
    session,    \* the live session row; Fresh when there is none
    controls,   \* records with a live next-lesson control
    handed,     \* whether the next lesson was started on behalf of this one
    req,        \* req[r]: what request r is doing
    resets,     \* how many resets there were
    orphaned,   \* history: turns whose block nobody retired: the worker died,
                \* retiring it failed, or a reset had overtaken the turn
    crossed     \* history: writers crossed: a turn was saved over a session it
                \* had not loaded, a record was created beside a live one, or
                \* one that was reset was opened again

vars == <<record, block, opened, session, controls, handed, req, resets, orphaned, crossed>>
rows == <<record, block, opened, session, controls, handed>>
history == <<resets, orphaned, crossed>>

Outcomes == {"ask", "end", "finish", "same"}

\* A session that is not stored: what engine.new_session starts from.
Fresh == [msgs |-> <<>>, pending |-> FALSE, done |-> FALSE, writer |-> 0]

NoPlan == [target |-> 0, retired |-> {}, control |-> FALSE]
Idle ==
    [pc |-> "idle", plan |-> NoPlan, read |-> Fresh, doc |-> Fresh,
     record |-> 0, fresh |-> FALSE, turn |-> 0, outcome |-> "same", text |-> FALSE,
     row |-> FALSE]
NoBlock ==
    [state |-> "none", record |-> 0, text |-> FALSE, base |-> 0, pending |-> FALSE]

Init ==
    /\ record = [i \in Ids |-> "none"]
    /\ block = [i \in Ids |-> NoBlock]
    /\ opened = 0
    /\ session = Fresh
    /\ controls = {}
    /\ handed = FALSE
    /\ req = [r \in Requests |-> Idle]
    /\ resets = 0
    /\ orphaned = {}
    /\ crossed = FALSE

\* A record that was not reset; "fresh" is one that was not started.
Live(i) == i \in Ids /\ record[i] \in {"fresh", "open", "completed"}
LiveRecords == {i \in Ids : Live(i)}
LiveRow(b) == block[b].state \in {"open", "saved"}

\* The block of turn b stays as it is, perhaps open.
Unretired(b) == orphaned \cup {c \in Ids : c = b /\ block[c].state = "open"}

Becomes(r, new) == req' = [req EXCEPT ![r] = new]
Moves(r, from, to) == req[r].pc = from /\ Becomes(r, [req[r] EXCEPT !.pc = to])
Ends(r) == Becomes(r, Idle)

------------------------------------------------------------------------------
(* Taking a lesson back.                                                   *)

\* _turn_blocks_from: the live rows of b's record from b on.
RowsFrom(b) ==
    {c \in Ids : c >= b /\ LiveRow(c) /\ block[c].record = block[b].record}

\* plan_rewind, when it returns a plan: block b was saved with a turn record,
\* in an attempt that was not reset.  Regenerating aims at the anchor itself;
\* answering differently at the first turn after it, if that one began with a
\* question.  Which of the two only decides the input the turn is run with.
CanTakeBack(b) == block[b].state = "saved" /\ Live(block[b].record)
PlanFor(b) ==
    [target |-> b, retired |-> RowsFrom(b), control |-> block[b].record \in controls]

RestoreWithoutTruncating(doc, b) ==
    [doc EXCEPT !.pending = block[b].pending, !.done = FALSE]

\* restore: messages are only ever appended, so a count takes them back.  A
\* turn never begins on a finished session.
Restore(doc, b) ==
    [doc EXCEPT
        !.msgs = SubSeq(@, 1, IF block[b].base < Len(@) THEN block[b].base ELSE Len(@)),
        !.pending = block[b].pending,
        !.done = FALSE]
RestoreSession(r, stored) ==
    IF req[r].plan.target = 0 THEN stored ELSE Restore(stored, req[r].plan.target)

------------------------------------------------------------------------------
(* A run: one or more turns of one request.                                *)

Alone == \A r \in Requests : req[r].pc \in {"idle", "visiting"}

\* agent_lesson_events inside the lesson lock, up to the plan of a rewind.
Start(r) ==
    /\ req[r].pc = "idle"
    /\ Alone \/ opened < MaxOverlap
    /\ crossed' = (crossed \/ ~Alone)
    /\ \/ Becomes(r, [Idle EXCEPT !.pc = "planned"])
       \/ \E b \in Ids :
            /\ CanTakeBack(b)
            /\ Becomes(r, [Idle EXCEPT !.pc = "planned", !.plan = PlanFor(b)])
    /\ UNCHANGED <<rows, resets, orphaned>>

\* _load_or_start: an unlocked read, restored if the lesson is taken back.
Load(r) ==
    LET doc == RestoreSession(r, session) IN
    /\ req[r].pc = "planned"
    /\ req[r].plan.target = 0 \/ session # Fresh
    /\ ~doc.done
    /\ Becomes(r, [req[r] EXCEPT !.pc = "loaded", !.read = session, !.doc = doc])
    /\ UNCHANGED <<rows, history>>

\* The row was written by code whose sessions this build cannot read: the
\* lesson starts over.
LoadUnusable(r) ==
    /\ req[r].pc = "planned"
    /\ req[r].plan.target = 0
    /\ session # Fresh
    /\ Becomes(r, [req[r] EXCEPT !.pc = "loaded"])
    /\ UNCHANGED <<rows, history>>

\* A finished lesson has no turn to run; a conversation that is gone cannot
\* be taken back.
LoadEnds(r) ==
    /\ req[r].pc = "planned"
    /\ \/ RestoreSession(r, session).done
       \/ req[r].plan.target # 0 /\ session = Fresh
    /\ Ends(r)
    /\ UNCHANGED <<rows, history>>

\* active_progress_record: the newest live record, read without a lock; 0 if
\* there is none.  What it says is remembered: a record that was not started
\* yet will be written.
IsNewest(i) ==
    IF LiveRecords = {} THEN i = 0
    ELSE i \in LiveRecords /\ \A j \in LiveRecords : j <= i
NotStarted(i) == i \in Ids /\ record[i] = "fresh"

FindRecord(r) ==
    /\ req[r].pc = "loaded"
    /\ opened < MaxTurns
    /\ \E i \in 0 .. MaxTurns :
        /\ IsNewest(i)
        /\ Becomes(r, [req[r] EXCEPT !.pc = "found", !.record = i, !.fresh = NotStarted(i)])
    /\ UNCHANGED <<rows, history>>

\* A turn that saves holds the lock on its record.
Locked(i) == \E r \in Requests : req[r].pc = "saving" /\ req[r].record = i

\* What a request writes on the word of its earlier read is no longer so: it
\* creates a record beside a live one, or opens one that was reset.
Crosses(r) ==
    IF req[r].record = 0 THEN LiveRecords # {}
    ELSE req[r].fresh /\ record[req[r].record] = "reset"

\* _open_turn commits: the record if it was missing or had been read as not
\* started, by its key and whatever it is now, and the turn's block.
Open(r) ==
    LET b == opened + 1
        i == IF req[r].record = 0 THEN b ELSE req[r].record
    IN
    /\ req[r].pc = "found"
    /\ b \in Ids
    /\ req[r].fresh => ~Locked(i)
    /\ opened' = b
    /\ record' = IF req[r].record = 0 \/ req[r].fresh
                 THEN [record EXCEPT ![i] = "open"] ELSE record
    /\ block' = [block EXCEPT ![b] = [NoBlock EXCEPT !.state = "open", !.record = i]]
    /\ crossed' = (crossed \/ Crosses(r))
    /\ Becomes(r, [req[r] EXCEPT !.pc = "teaching", !.turn = b, !.record = i,
                                 !.fresh = FALSE])
    /\ UNCHANGED <<session, controls, handed, resets, orphaned>>

------------------------------------------------------------------------------
(* Others want a record for this lesson, and take no part in its lock: the *)
(* run of the lesson before hands over to it, in apply_outline_progression, *)
(* and an ask has the 1.0 engine look for one, in _get_current_attend.     *)

\* The read; a record that was started is left alone.
Visit(r) ==
    /\ req[r].pc = "idle"
    /\ opened < MaxVisited
    /\ \E i \in 0 .. MaxTurns :
        /\ IsNewest(i)
        /\ i = 0 \/ NotStarted(i)
        /\ Becomes(r, [Idle EXCEPT !.pc = "visiting", !.record = i, !.fresh = NotStarted(i)])
    /\ UNCHANGED <<rows, history>>

\* No record was found: the lesson before starts this one, an ask leaves a
\* record that is not started.
Announce(r, status) ==
    /\ req[r].pc = "visiting"
    /\ req[r].record = 0
    /\ opened + 1 \in Ids
    /\ opened' = opened + 1
    /\ record' = [record EXCEPT ![opened + 1] = status]
    /\ crossed' = (crossed \/ Crosses(r))
    /\ Ends(r)
    /\ UNCHANGED <<block, session, controls, handed, resets, orphaned>>

\* The lesson before starts the record it read as not started.
HandOver(r) ==
    /\ req[r].pc = "visiting"
    /\ req[r].fresh
    /\ ~Locked(req[r].record)
    /\ record' = [record EXCEPT ![req[r].record] = "open"]
    /\ crossed' = (crossed \/ Crosses(r))
    /\ Ends(r)
    /\ UNCHANGED <<block, opened, session, controls, handed, resets, orphaned>>

------------------------------------------------------------------------------
(* Saving a turn: _persist, one transaction that locks the turn's record.  *)

BeginSaveUnclaimed(r, outcome, text) ==
    /\ req[r].pc = "teaching"
    /\ outcome = "same" => ~text
    /\ Becomes(r, [req[r] EXCEPT !.pc = "saving", !.outcome = outcome, !.text = text,
                                 !.row = (session # Fresh)])
    /\ UNCHANGED <<rows, history>>

\* What the engine did in the turn.  "same" is a turn that failed, or asked
\* the same question again, before it added anything.
BeginSave(r, outcome, text) ==
    /\ req[r].pc = "teaching"
    /\ outcome = "same" => ~text
    /\ Live(req[r].record)
    /\ ~Locked(req[r].record)
    /\ Becomes(r, [req[r] EXCEPT !.pc = "saving", !.outcome = outcome, !.text = text,
                                 !.row = (session # Fresh)])
    /\ UNCHANGED <<rows, history>>

\* claim_for_writing found the record reset: _TurnDiscardedError, nothing is
\* written, the run goes no further, and the turn's block is left to the reset.
Discard(r) ==
    /\ req[r].pc = "teaching"
    /\ ~Live(req[r].record)
    /\ orphaned' = Unretired(req[r].turn)
    /\ Ends(r)
    /\ UNCHANGED <<rows, resets, crossed>>

\* The session after the turn.
Taught(r) ==
    IF req[r].outcome = "same" THEN req[r].doc
    ELSE [req[r].doc EXCEPT
            !.msgs = Append(@, req[r].turn),
            !.pending = (req[r].outcome = "ask"),
            !.done = (req[r].outcome = "finish")]

Retired(r, b) == [b EXCEPT !.state = IF @ \in {"open", "saved"} THEN "retired" ELSE @]
RecordedAfterTurn(r, b) ==
    [b EXCEPT !.state = IF @ = "open" THEN "saved" ELSE @,
              !.text = req[r].text, !.base = Len(Taught(r).msgs), !.pending = Taught(r).pending]

\* record_turn_content, with the checkpoint the turn started from; a block that
\* another run took back stays retired.
Recorded(r, b) ==
    [b EXCEPT !.state = IF @ = "open" THEN "saved" ELSE @,
              !.text = req[r].text, !.base = Len(req[r].doc.msgs),
              !.pending = req[r].doc.pending]

SavedBlocks(r) ==
    [b \in Ids |->
        CASE b = req[r].turn -> Recorded(r, block[b])
          [] b \in req[r].plan.retired \ {req[r].turn} -> Retired(r, block[b])
          [] OTHER -> block[b]]

\* The commit: the blocks taken back are retired, the turn's block is filled
\* in, a finished lesson completes its record, and the session row is written
\* over, or inserted if there was none.
Commit(r) ==
    /\ req[r].pc = "saving"
    /\ req[r].row \/ session = Fresh
    /\ block' = SavedBlocks(r)
    /\ record' = IF Taught(r).done
                 THEN [record EXCEPT ![req[r].record] = "completed"] ELSE record
    /\ session' = [Taught(r) EXCEPT !.writer = req[r].turn]
    /\ controls' = IF req[r].plan.control
                   THEN controls \ {block[req[r].plan.target].record} ELSE controls
    /\ crossed' = (crossed \/ session # req[r].read)
    /\ Becomes(r, [Idle EXCEPT !.pc = "saved", !.record = req[r].record, !.turn = req[r].turn,
                               !.outcome = req[r].outcome, !.text = req[r].text])
    /\ UNCHANGED <<opened, handed, resets, orphaned>>

Untouched(b) == block[b].state \in {"open", "saved"} /\ ~block[b].text

DropBlock(b) ==
    IF Untouched(b) THEN [block EXCEPT ![b].state = "dropped"] ELSE block

\* _retire_block, a transaction of its own: a failure is logged and passed over.
Retires(b) ==
    \/ block' = DropBlock(b) /\ UNCHANGED orphaned
    \/ UNCHANGED block /\ orphaned' = Unretired(b)

\* Another first save inserted the row after this transaction looked for it:
\* the unique key refuses this one, and its re-read still sees its snapshot.
\* The turn fails.
InsertLost(r) ==
    /\ req[r].pc = "saving"
    /\ ~req[r].row
    /\ session # Fresh
    /\ Retires(req[r].turn)
    /\ Ends(r)
    /\ UNCHANGED <<record, opened, session, controls, handed, resets, crossed>>

------------------------------------------------------------------------------
(* After the save.                                                         *)

ProgressUnchecked(r) ==
    /\ req[r].outcome = "finish"
    /\ record' = [record EXCEPT ![req[r].record] = "completed"]
    /\ handed' = TRUE
    /\ Moves(r, "saved", "progressed")
    /\ UNCHANGED <<block, opened, session, controls, history>>

\* apply_outline_progression, a transaction of its own.
Progress(r) ==
    /\ req[r].outcome = "finish"
    /\ Live(req[r].record)
    /\ ~Locked(req[r].record)
    /\ record' = [record EXCEPT ![req[r].record] = "completed"]
    /\ handed' = TRUE
    /\ Moves(r, "saved", "progressed")
    /\ UNCHANGED <<block, opened, session, controls, history>>

\* record_next_lesson_interaction, another one.
OfferNext(r) ==
    /\ req[r].record \notin controls
    /\ req[r].pc = "progressed"
    /\ record[req[r].record] = "completed"
    /\ ~Locked(req[r].record)
    /\ controls' = controls \cup {req[r].record}
    /\ Ends(r)
    /\ UNCHANGED <<record, block, opened, session, handed, history>>

\* A turn that ran out of content is followed by the next in the same
\* request, without the rewind; every other one ends it.
GoOn(r) ==
    /\ req[r].pc = "saved"
    /\ req[r].outcome = "end" /\ req[r].text
    /\ Becomes(r, [Idle EXCEPT !.pc = "planned"])
    /\ UNCHANGED <<rows, history>>

\* The run is over: also a progression that failed, was skipped because the
\* lesson was reset, or had nothing to offer.
Finish(r) ==
    /\ req[r].pc \in {"saved", "progressed"}
    /\ Ends(r)
    /\ UNCHANGED <<rows, history>>

AbandonKeepingBlock(r) ==
    /\ req[r].pc \in {"teaching", "saved", "progressed"}
    /\ Ends(r)
    /\ UNCHANGED <<rows, history>>

\* The turn fails or its client leaves, before or after the save.
Abandon(r) ==
    /\ req[r].pc \in {"teaching", "saved", "progressed"}
    /\ Retires(req[r].turn)
    /\ Ends(r)
    /\ UNCHANGED <<record, opened, session, controls, handed, resets, crossed>>

\* The worker process dies; an open transaction is rolled back.
Die(r) ==
    /\ req[r].pc # "idle"
    /\ orphaned' = Unretired(req[r].turn)
    /\ Ends(r)
    /\ UNCHANGED <<rows, resets, crossed>>

------------------------------------------------------------------------------
\* reset_learn_record: one transaction that locks the live records, then the
\* session row.
Reset ==
    /\ resets < MaxResets
    /\ ~\E i \in LiveRecords : Locked(i)
    /\ record' = [i \in Ids |-> IF Live(i) THEN "reset" ELSE record[i]]
    /\ session' = Fresh
    /\ resets' = resets + 1
    /\ UNCHANGED <<block, opened, controls, handed, req, orphaned, crossed>>

Next ==
    \/ \E r \in Requests :
        \/ Start(r) \/ Load(r) \/ LoadUnusable(r) \/ LoadEnds(r)
        \/ FindRecord(r) \/ Open(r)
        \/ Visit(r) \/ HandOver(r) \/ \E status \in {"fresh", "open"} : Announce(r, status)
        \/ \E outcome \in Outcomes, text \in BOOLEAN : BeginSave(r, outcome, text)
        \/ Discard(r) \/ Commit(r) \/ InsertLost(r)
        \/ Progress(r) \/ OfferNext(r) \/ GoOn(r) \/ Finish(r)
        \/ Abandon(r) \/ Die(r)
    \/ Reset

Spec == Init /\ [][Next]_vars

------------------------------------------------------------------------------
(* Properties.                                                             *)

SessionType == [msgs : Seq(Nat), pending : BOOLEAN, done : BOOLEAN, writer : Nat]
BlockType ==
    [state : {"none", "open", "saved", "retired", "dropped"},
     record : 0 .. MaxTurns, text : BOOLEAN, base : Nat, pending : BOOLEAN]
PlanType == [target : 0 .. MaxTurns, retired : SUBSET Ids, control : BOOLEAN]
PcType ==
    {"idle", "visiting", "planned", "loaded", "found", "teaching", "saving", "saved",
     "progressed"}
ReqType ==
    [pc : PcType, plan : PlanType, read : SessionType, doc : SessionType,
     record : 0 .. MaxTurns, fresh : BOOLEAN, turn : 0 .. MaxTurns, outcome : Outcomes,
     text : BOOLEAN, row : BOOLEAN]

RowTypes ==
    /\ record \in [Ids -> {"none", "fresh", "open", "completed", "reset"}]
    /\ block \in [Ids -> BlockType]
    /\ opened \in 0 .. MaxTurns
    /\ session \in SessionType
    /\ controls \in SUBSET (0 .. MaxTurns)
    /\ handed \in BOOLEAN
HistoryTypes ==
    /\ resets \in 0 .. MaxResets
    /\ orphaned \in SUBSET Ids
    /\ crossed \in BOOLEAN
\* Every variable stays in its range.
TypeOK == RowTypes /\ HistoryTypes /\ req \in [Requests -> ReqType]

\* The live session was saved by a turn of an attempt that was not reset: a
\* turn that a reset overtook never puts its conversation back.
SessionOfLiveAttempt ==
    session # Fresh => Live(block[session.writer].record)

\* Someone is about to start record i on the word of a read from before the
\* reset.
ReadNotStarted(i) ==
    \E r \in Requests :
        req[r].pc \in {"found", "visiting"} /\ req[r].fresh /\ req[r].record = i

\* A reset is final but for those: no other step reopens the attempt, and none
\* completes it or offers its next-lesson control.
ResetIsFinal ==
    [][\A i \in Ids : record[i] = "reset" =>
            /\ record'[i] = "reset" \/ (record'[i] = "open" /\ ReadNotStarted(i))
            /\ i \in controls' => i \in controls]_vars

TaughtRows == {b \in Ids : block[b].state = "saved" /\ block[b].text /\ Live(block[b].record)}

\* What a learner cleared stays cleared: where there is no conversation, no
\* turn of a live attempt is shown.  Opening an attempt again that was reset
\* brings its turns back.
ClearedStaysCleared ==
    session = Fresh => TaughtRows = {}

\* The conversation the model sees and the rows the learner sees are the same
\* turns in the same order, also after the lesson was taken back, unless runs
\* crossed.
SessionTellsTheRows ==
    ~crossed /\ session # Fresh =>
        LET told == {n \in DOMAIN session.msgs : block[session.msgs[n]].text}
        IN  /\ {session.msgs[n] : n \in told} = TaughtRows
            /\ \A m, n \in told : m < n => session.msgs[m] < session.msgs[n]

\* A live turn can be taken back to: its checkpoint counts exactly the turns
\* before it in the conversation.
CheckpointPrecedesTurn ==
    ~crossed /\ session # Fresh =>
        \A n \in DOMAIN session.msgs :
            LiveRow(session.msgs[n]) => block[session.msgs[n]].base = n - 1

\* The block of a turn that is over was filled in, if only with the nothing
\* that a failing engine taught, or dropped, unless nobody could retire it.
NoTurnLeftOpen ==
    \A b \in Ids :
        block[b].state = "open" => b \in orphaned \/ \E r \in Requests : req[r].turn = b
==============================================================================
