------------------------------ MODULE LiveTurns ------------------------------
(***************************************************************************)
(* The turns of browser-direct voice sessions and how they become rows:    *)
(* service/learn/live_follow_up_routes.py (the turn, finalize and end      *)
(* requests), live_follow_up_session_store.py (the session binding in      *)
(* Redis with its cursor and its claim) and live_follow_up_persistence.py  *)
(* (a named lock of MySQL, held by a connection of its own, and the rows). *)
(*                                                                         *)
(* The sessions belong to one progress record: a replacement session       *)
(* shares the record, hence the lock and the numbering of its rows, with   *)
(* the session it replaces.  The browser is the environment: it reports    *)
(* turns in any order, repeats them, and gives up on requests that are     *)
(* still being handled.                                                    *)
(***************************************************************************)
EXTENDS Naturals

CONSTANTS
    Sessions,   \* live sessions of one learner in one lesson
    Workers,    \* threads that handle requests
    MaxTurns,   \* LIVE_FOLLOW_UP_MAX_TURNS
    Silent,     \* turns without a transcript of the learner
    MaxFaults,  \* bound: crashes, lost answers and failed writes
    Absent,     \* no key in Redis
    Nobody

ASSUME LiveAssumption ==
    /\ Sessions # {}
    /\ MaxTurns \in Nat
    /\ MaxFaults \in Nat
    /\ Absent \notin Nat
    /\ Absent \notin [last : Nat, pending : Nat, claim : Workers \cup {Nobody}]
    /\ Nobody \notin Workers

Turns == 1 .. MaxTurns

VARIABLES
    binding,    \* the session key: last_committed_index, pending_index (0 for
                \* null) and pending_claim, or Absent
    receipt,    \* last_committed_index of the retirement receipt, or Absent
    late,       \* sessions past their deadline and its grace
    lock,       \* the connection that holds the named lock
    placed,     \* positions of the ask/answer pairs stored for a turn
    top,        \* the highest position in the progress record
    usage,      \* number of usage rows stored for a turn
    task,       \* what each worker is doing
    acked,      \* history: turns whose report was answered with success
    consumed,   \* history: sessions whose binding a request has consumed
    dropped,    \* history: whether the lock's connection was ever lost
    faults      \* how many faults there have been

redis == <<binding, receipt, late, consumed>>
rows == <<placed, top, usage>>
vars == <<redis, lock, rows, task, acked, dropped, faults>>

Bindings == [last : 0 .. MaxTurns, pending : 0 .. MaxTurns, claim : Workers \cup {Nobody}]

Steps ==
    {"idle", "load", "lock", "locked", "next", "history", "insert", "usage",
     "record", "commit", "release", "retire", "consume", "leave"}

\* A worker's request: its route, session and turns first .. last, the turn
\* being written, the cursor it loaded, what it read before an insert, and
\* whether the answer will be a success.
Rest ==
    [at |-> "idle", op |-> "turn", s |-> CHOOSE s \in Sessions : TRUE, first |-> 1, last |-> 0,
     turn |-> 1, cursor |-> 0, known |-> FALSE, high |-> 0, ok |-> FALSE]

Init ==
    /\ binding = [s \in Sessions |-> [last |-> 0, pending |-> 0, claim |-> Nobody]]
    /\ receipt = [s \in Sessions |-> Absent]
    /\ late = {}
    /\ lock = Nobody
    /\ placed = [s \in Sessions |-> [i \in Turns |-> {}]]
    /\ top = 0
    /\ usage = [s \in Sessions |-> [i \in Turns |-> 0]]
    /\ task = [w \in Workers |-> Rest]
    /\ acked = [s \in Sessions |-> {}]
    /\ consumed = {}
    /\ dropped = FALSE
    /\ faults = 0

------------------------------------------------------------------------------
(* Helpers.                                                                *)

At(w, step) == task[w].at = step

Goes(w, from, to) ==
    /\ At(w, from)
    /\ task' = [task EXCEPT ![w].at = to]

\* Leaves the lock's with block with a success or an error.
Ends(w, from, ok) ==
    /\ At(w, from)
    /\ task' = [task EXCEPT ![w].at = "leave", ![w].ok = ok]

\* Answers without having held the lock.
Answers(w, from) ==
    /\ At(w, from)
    /\ task' = [task EXCEPT ![w] = Rest]

Alive(s) == binding[s] # Absent

\* load_live_follow_up_session with allow_finalization and the present time.
Open(s) == Alive(s) /\ s \notin late

Batch(w) == task[w].first .. task[w].last

\* One fault more, within the bound.
Fault ==
    /\ faults < MaxFaults
    /\ faults' = faults + 1

------------------------------------------------------------------------------
(* A request arrives and finds its session.                                *)

Request(w, op, s, first, last) ==
    /\ At(w, "idle")
    /\ task' = [task EXCEPT ![w] =
           [Rest EXCEPT !.at = "load", !.op = op, !.s = s,
                        !.first = first, !.last = last, !.turn = first]]
    /\ UNCHANGED <<redis, lock, rows, acked, dropped, faults>>

ReportTurn(w) == \E s \in Sessions, i \in Turns : Request(w, "turn", s, i, i)

Finalize(w) ==
    \E s \in Sessions, first \in Turns :
        \E last \in first - 1 .. MaxTurns : Request(w, "finalize", s, first, last)

End(w) == \E s \in Sessions : Request(w, "end", s, 1, 0)

\* The binding is there and in time: its retention is extended before the
\* lock.  A binding that vanishes in between is found missing under the lock.
Load(w) ==
    /\ Open(task[w].s)
    /\ Goes(w, "load", "lock")
    /\ UNCHANGED <<redis, lock, rows, acked, dropped, faults>>

\* A retirement receipt covers the turns reported.
Covered(w) ==
    LET s == task[w].s IN
    /\ receipt[s] # Absent
    /\ \A i \in Batch(w) : i <= receipt[s]
    /\ task[w].op = "turn" => usage[s][task[w].first] > 0

\* The answer without a binding: from the receipt, or an error.
AnswerUnbound(w) ==
    /\ Answers(w, "load")
    /\ acked' = IF Covered(w) THEN [acked EXCEPT ![task[w].s] = @ \cup Batch(w)] ELSE acked
    /\ UNCHANGED <<redis, lock, rows, dropped>>

\* There is no binding any more, or the session is over.
TurnAway(w) ==
    /\ ~Open(task[w].s)
    /\ AnswerUnbound(w)
    /\ UNCHANGED faults

\* A binding that cannot be read is treated like one that is not there.
LoadLost(w) ==
    /\ Fault
    /\ AnswerUnbound(w)

AcquirePerSession(w) ==
    /\ lock \in Workers => task[lock].s # task[w].s
    /\ Goes(w, "lock", "locked")
    /\ lock' = w
    /\ UNCHANGED <<redis, rows, acked, dropped, faults>>

\* GET_LOCK of live_follow_up_persistence_lock.
Acquire(w) ==
    /\ lock = Nobody
    /\ Goes(w, "lock", "locked")
    /\ lock' = w
    /\ UNCHANGED <<redis, rows, acked, dropped, faults>>

\* GET_LOCK gives up after five seconds.
Busy(w) ==
    /\ lock # Nobody
    /\ Answers(w, "lock")
    /\ UNCHANGED <<redis, lock, rows, acked, dropped, faults>>

------------------------------------------------------------------------------
(* Under the lock.                                                         *)

\* The session is loaded again: the turn request tests the deadline anew, the
\* other two keep the time they were admitted at.
Usable(w) == IF task[w].op = "turn" THEN Open(task[w].s) ELSE Alive(task[w].s)

\* The turn was committed before: it is answered from its rows.
Replay(w) ==
    /\ task[w].op = "turn"
    /\ Usable(w)
    /\ task[w].turn <= binding[task[w].s].last
    /\ Ends(w, "locked", usage[task[w].s][task[w].turn] > 0)
    /\ UNCHANGED <<redis, lock, rows, acked, dropped, faults>>

Reload(w) ==
    LET last == binding[task[w].s].last IN
    /\ At(w, "locked")
    /\ Usable(w)
    /\ task[w].op = "turn" => task[w].turn > last
    /\ task' = [task EXCEPT
           ![w].at = IF task[w].op = "end" THEN "retire" ELSE "next",
           ![w].cursor = last]
    /\ UNCHANGED <<redis, lock, rows, acked, dropped, faults>>

\* The batch of a finalization is through.
LastTurnDone(w) == task[w].op = "finalize" /\ task[w].turn > task[w].last

\* Gone in the meantime: an end request is satisfied with that.
ReloadFails(w) ==
    /\ ~Usable(w)
    /\ Ends(w, "locked", task[w].op = "end")
    /\ UNCHANGED <<redis, lock, rows, acked, dropped, faults>>

\* Redis does not answer a read under the lock.
ReadLost(w) ==
    /\ Fault
    /\ \/ Ends(w, "locked", FALSE)
       \/ LastTurnDone(w) /\ Ends(w, "next", FALSE)
    /\ UNCHANGED <<redis, lock, rows, acked, dropped>>

\* The loop of finalize skips what was committed when it loaded the cursor.
Skip(w) ==
    /\ At(w, "next")
    /\ task[w].op = "finalize"
    /\ task[w].turn <= task[w].last
    /\ task[w].turn <= task[w].cursor
    /\ task' = [task EXCEPT ![w].turn = @ + 1]
    /\ UNCHANGED <<redis, lock, rows, acked, dropped, faults>>

Writing(w) ==
    /\ At(w, "next")
    /\ task[w].turn <= task[w].last
    /\ task[w].turn > task[w].cursor

\* The reservation script claims the turn for w.
Claimed(w) ==
    binding' = [binding EXCEPT ![task[w].s].pending = task[w].turn, ![task[w].s].claim = w]

ReservableWithoutRecovery(w) ==
    LET b == binding[task[w].s] IN
    Alive(task[w].s) /\ b.pending = 0 /\ task[w].turn = b.last + 1

\* Its conditions, with recover_pending: the claim of a writer that is taken
\* to be gone is replaced.
Reservable(w) ==
    LET b == binding[task[w].s] IN
    /\ Alive(task[w].s)
    /\ b.pending \in {0, task[w].turn}
    /\ task[w].turn = b.last + 1

Reserve(w) ==
    /\ Writing(w)
    /\ Reservable(w)
    /\ Claimed(w)
    /\ Goes(w, "next", "history")
    /\ UNCHANGED <<receipt, late, consumed, lock, rows, acked, dropped, faults>>

ReserveRejected(w) ==
    /\ Writing(w)
    /\ ~Reservable(w)
    /\ Ends(w, "next", FALSE)
    /\ UNCHANGED <<redis, lock, rows, acked, dropped, faults>>

\* The answer of Redis is lost, whether or not the script ran.
ReserveLost(w) ==
    /\ Fault
    /\ Writing(w)
    /\ Reservable(w)
    /\ Claimed(w) \/ UNCHANGED binding
    /\ Ends(w, "next", FALSE)
    /\ UNCHANGED <<receipt, late, consumed, lock, rows, acked, dropped>>

\* _persist_transcript_history opens its transaction: what is there already
\* and the highest position are read from its snapshot.
ReadHistory(w) ==
    /\ At(w, "history")
    /\ task[w].turn \notin Silent
    /\ task' = [task EXCEPT ![w].at = "insert",
                            ![w].known = placed[task[w].s][task[w].turn] # {},
                            ![w].high = top]
    /\ UNCHANGED <<redis, lock, rows, acked, dropped, faults>>

NoHistory(w) ==
    /\ task[w].turn \in Silent
    /\ Goes(w, "history", "usage")
    /\ UNCHANGED <<redis, lock, rows, acked, dropped, faults>>

\* ... and commits: both blocks and both elements, or none.
Insert(w) ==
    LET position == task[w].high + 1 IN
    /\ Goes(w, "insert", "usage")
    /\ IF task[w].known
       THEN UNCHANGED <<placed, top>>
       ELSE /\ placed' = [placed EXCEPT ![task[w].s][task[w].turn] = @ \cup {position}]
            /\ top' = IF position > top THEN position ELSE top
    /\ UNCHANGED <<redis, lock, usage, acked, dropped, faults>>

\* _persist_usage looks for its row ...
ReadUsage(w) ==
    /\ Goes(w, "usage", IF usage[task[w].s][task[w].turn] > 0 THEN "commit" ELSE "record")
    /\ UNCHANGED <<redis, lock, rows, acked, dropped, faults>>

\* ... and record_llm_usage adds it in a transaction of its own.
RecordUsage(w) ==
    /\ Goes(w, "record", "commit")
    /\ usage' = [usage EXCEPT ![task[w].s][task[w].turn] = @ + 1]
    /\ UNCHANGED <<redis, lock, placed, top, acked, dropped, faults>>

WriteFailsUnnoticed(w) ==
    /\ Fault
    /\ \E step \in {"history", "insert", "usage", "record"} : Goes(w, step, "commit")
    /\ UNCHANGED <<redis, lock, rows, acked, dropped>>

\* A database error in any of these: the reservation is released.
WriteFails(w) ==
    /\ Fault
    /\ \E step \in {"history", "insert", "usage", "record"} : Goes(w, step, "release")
    /\ UNCHANGED <<redis, lock, rows, acked, dropped>>

\* The claim in Redis is still the one w reserved.
Owns(w) ==
    LET b == binding[task[w].s] IN
    Alive(task[w].s) /\ b.pending = task[w].turn /\ b.claim = w

Unclaimed(b) == [b EXCEPT !.pending = 0, !.claim = Nobody]

\* The commit script advances the cursor.
Advanced(w) ==
    binding' = [binding EXCEPT ![task[w].s] = [Unclaimed(@) EXCEPT !.last = task[w].turn]]

\* What follows a committed turn: the answer, or the next of the batch.
AfterCommit(w) ==
    task' = IF task[w].op = "turn"
            THEN [task EXCEPT ![w].at = "leave", ![w].ok = TRUE]
            ELSE [task EXCEPT ![w].at = "next", ![w].turn = @ + 1]

Commit(w) ==
    /\ At(w, "commit")
    /\ Owns(w)
    /\ Advanced(w)
    /\ AfterCommit(w)
    /\ UNCHANGED <<receipt, late, consumed, lock, rows, acked, dropped, faults>>

CommitRejected(w) ==
    /\ ~Owns(w)
    /\ Goes(w, "commit", "release")
    /\ UNCHANGED <<redis, lock, rows, acked, dropped, faults>>

CommitLost(w) ==
    /\ Fault
    /\ Owns(w)
    /\ Advanced(w) \/ UNCHANGED binding
    /\ Goes(w, "commit", "release")
    /\ UNCHANGED <<receipt, late, consumed, lock, rows, acked, dropped>>

\* The release script, after anything that went wrong since the reservation.
Release(w) ==
    /\ Ends(w, "release", FALSE)
    /\ binding' = IF Owns(w) THEN [binding EXCEPT ![task[w].s] = Unclaimed(@)] ELSE binding
    /\ UNCHANGED <<receipt, late, consumed, lock, rows, acked, dropped, faults>>

ReleaseLost(w) ==
    /\ Fault
    /\ Ends(w, "release", FALSE)
    /\ UNCHANGED <<redis, lock, rows, acked, dropped>>

------------------------------------------------------------------------------
(* Retirement, at the end of finalize and end.                             *)

\* Every turn of the batch is committed: finalize loads the cursor again.
LoadLatest(w) ==
    /\ At(w, "next")
    /\ LastTurnDone(w)
    /\ task' = IF Alive(task[w].s)
               THEN [task EXCEPT ![w].at = "retire", ![w].cursor = binding[task[w].s].last]
               ELSE [task EXCEPT ![w].at = "leave", ![w].ok = FALSE]
    /\ UNCHANGED <<redis, lock, rows, acked, dropped, faults>>

ReceiptedOnce(w) ==
    receipt' = [receipt EXCEPT ![task[w].s] = IF @ = Absent THEN task[w].cursor ELSE @]

\* The retire branch of the admission script: the receipt never goes back.
Receipted(w) ==
    receipt' = [receipt EXCEPT ![task[w].s] =
                   IF @ = Absent \/ @ < task[w].cursor THEN task[w].cursor ELSE @]

Retire(w) ==
    /\ Goes(w, "retire", "consume")
    /\ Receipted(w)
    /\ UNCHANGED <<binding, late, consumed, lock, rows, acked, dropped, faults>>

RetireLost(w) ==
    /\ Fault
    /\ Ends(w, "retire", FALSE)
    /\ Receipted(w) \/ UNCHANGED receipt
    /\ UNCHANGED <<binding, late, consumed, lock, rows, acked, dropped>>

\* consume_live_follow_up_session: get and delete in one script.
Deleted(w) ==
    /\ binding' = [binding EXCEPT ![task[w].s] = Absent]
    /\ consumed' = consumed \cup {task[w].s}

Consume(w) ==
    /\ Alive(task[w].s)
    /\ Ends(w, "consume", TRUE)
    /\ Deleted(w)
    /\ UNCHANGED <<receipt, late, lock, rows, acked, dropped, faults>>

\* It expired first: an error for finalize, none for end.
ConsumeRejected(w) ==
    /\ ~Alive(task[w].s)
    /\ Ends(w, "consume", task[w].op = "end")
    /\ UNCHANGED <<redis, lock, rows, acked, dropped, faults>>

ConsumeLost(w) ==
    /\ Fault
    /\ Alive(task[w].s)
    /\ Ends(w, "consume", FALSE)
    /\ Deleted(w) \/ UNCHANGED <<binding, consumed>>
    /\ UNCHANGED <<receipt, late, lock, rows, acked, dropped>>

\* RELEASE_LOCK frees it only for the connection that holds it.
Unlocked(w) == lock' = IF lock = w THEN Nobody ELSE lock

\* The request leaves the lock and is answered.
Leave(w) ==
    /\ At(w, "leave")
    /\ acked' = IF task[w].ok
                THEN [acked EXCEPT ![task[w].s] = @ \cup Batch(w)]
                ELSE acked
    /\ Unlocked(w)
    /\ task' = [task EXCEPT ![w] = Rest]
    /\ UNCHANGED <<redis, rows, dropped, faults>>

------------------------------------------------------------------------------
(* Crashes, lost connections and time.                                     *)

\* The worker dies; MySQL frees the lock with its connection.
Crash(w) ==
    /\ Fault
    /\ ~At(w, "idle")
    /\ Unlocked(w)
    /\ task' = [task EXCEPT ![w] = Rest]
    /\ UNCHANGED <<redis, rows, acked, dropped>>

\* The lock's connection is lost while the worker goes on over the others; so
\* does a write that is in flight when its worker dies.
LoseLock ==
    /\ Fault
    /\ lock # Nobody
    /\ lock' = Nobody
    /\ dropped' = TRUE
    /\ UNCHANGED <<redis, rows, task, acked>>

Deadline(s) ==
    /\ s \notin late
    /\ late' = late \cup {s}
    /\ UNCHANGED <<binding, receipt, consumed, lock, rows, task, acked, dropped, faults>>

\* The keys outlive the deadline by their retention and then expire.
BindingExpires(s) ==
    /\ s \in late
    /\ Alive(s)
    /\ binding' = [binding EXCEPT ![s] = Absent]
    /\ UNCHANGED <<receipt, late, consumed, lock, rows, task, acked, dropped, faults>>

ReceiptExpires(s) ==
    /\ s \in late
    /\ receipt[s] # Absent
    /\ receipt' = [receipt EXCEPT ![s] = Absent]
    /\ UNCHANGED <<binding, late, consumed, lock, rows, task, acked, dropped, faults>>

------------------------------------------------------------------------------
\* What a worker does by itself.
Handle(w) ==
    \/ Load(w) \/ TurnAway(w)
    \/ Acquire(w) \/ Busy(w) \/ Replay(w) \/ Reload(w) \/ ReloadFails(w)
    \/ Skip(w) \/ Reserve(w) \/ ReserveRejected(w)
    \/ ReadHistory(w) \/ NoHistory(w) \/ Insert(w) \/ ReadUsage(w) \/ RecordUsage(w)
    \/ Commit(w) \/ CommitRejected(w) \/ Release(w)
    \/ LoadLatest(w) \/ Retire(w) \/ Consume(w) \/ ConsumeRejected(w) \/ Leave(w)

Faulty(w) ==
    \/ LoadLost(w) \/ ReadLost(w) \/ ReserveLost(w) \/ WriteFails(w) \/ CommitLost(w) \/ ReleaseLost(w)
    \/ RetireLost(w) \/ ConsumeLost(w) \/ Crash(w)

Time(s) == Deadline(s) \/ BindingExpires(s) \/ ReceiptExpires(s)

Next ==
    \/ \E w \in Workers :
          ReportTurn(w) \/ Finalize(w) \/ End(w) \/ Handle(w) \/ Faulty(w)
    \/ LoseLock
    \/ \E s \in Sessions : Time(s)

Spec == Init /\ [][Next]_vars

------------------------------------------------------------------------------
(* Properties.                                                             *)

Tasks ==
    [at : Steps, op : {"turn", "finalize", "end"}, s : Sessions,
     first : Nat, last : 0 .. MaxTurns, turn : Nat, cursor : 0 .. MaxTurns,
     known : BOOLEAN, high : Nat, ok : BOOLEAN]

\* Every variable stays in its range; a claim is always on the turn behind
\* the cursor.
TypeOK ==
    /\ binding \in [Sessions -> Bindings \cup {Absent}]
    /\ \A s \in Sessions : Alive(s) => binding[s].pending \in {0, binding[s].last + 1}
    /\ receipt \in [Sessions -> 0 .. MaxTurns \cup {Absent}]
    /\ late \subseteq Sessions
    /\ lock \in Workers \cup {Nobody}
    /\ placed \in [Sessions -> [Turns -> SUBSET Nat]]
    /\ top \in Nat
    /\ usage \in [Sessions -> [Turns -> Nat]]
    /\ task \in [Workers -> Tasks]
    /\ acked \in [Sessions -> SUBSET Turns]
    /\ consumed \subseteq Sessions
    /\ dropped \in BOOLEAN
    /\ faults \in Nat

\* A turn is stored: its usage row, and its pair unless nobody spoke.
Stored(s, i) == usage[s][i] > 0 /\ (i \in Silent \/ placed[s][i] # {})

\* The abstract log this module implements.
Log == INSTANCE TurnLog WITH
    stored <- [s \in Sessions |-> {i \in Turns : Stored(s, i)}]

\* A turn that was acknowledged is stored, and no turn is stored before those
\* that precede it, whatever crashes, whatever answers are lost, and even if
\* the lock is lost under a writer: the claim in Redis sees to that.
ImplementsLog == Log!Spec

\* While no lock was lost, the lesson reads back one pair and one usage row
\* per turn, however often a turn is reported; pairs of all sessions have
\* positions of their own, in the order of the turns of each session.
HistoryReadsBack ==
    ~dropped =>
        /\ \A s \in Sessions, i \in Turns : usage[s][i] <= 1
        /\ \A s \in Sessions, i \in Turns : \A p, q \in placed[s][i] : p = q
        /\ \A s, r \in Sessions, i, j \in Turns :
              \A p \in placed[s][i], q \in placed[r][j] :
                  /\ p = q => s = r /\ i = j
                  /\ s = r /\ i < j => p < q

\* A session that was finalized or ended still vouches for every turn it ever
\* acknowledged: the receipt covers them, also when a retirement crashed
\* half-way and turns were accepted after it.
RetirementLosesNoTurn ==
    \A s \in consumed :
        ~dropped /\ receipt[s] # Absent => \A i \in acked[s] : i <= receipt[s]

------------------------------------------------------------------------------
\* A browser that reports its turns in order and repeats what was not
\* acknowledged, in a session that is not ended meanwhile.
Reports(w, s, i) ==
    /\ i \notin acked[s]
    /\ 1 .. i - 1 \subseteq acked[s]
    /\ Request(w, "turn", s, i, i)

PatientNext ==
    \/ \E w \in Workers :
          \/ \E s \in Sessions, i \in Turns : Reports(w, s, i)
          \/ Handle(w) \/ Faulty(w)
    \/ LoseLock
    \/ \E s \in Sessions : Time(s)

\* Workers run on and the browser goes on reporting; a session that the
\* browser cannot reach is turned away, which is not an obligation.
PatientSpec ==
    /\ Init
    /\ [][PatientNext]_vars
    /\ \A w \in Workers :
          /\ WF_vars(Handle(w))
          /\ \A s \in Sessions, i \in Turns : SF_vars(Reports(w, s, i))

\* A browser that keeps reporting gets every turn of an open session
\* acknowledged: a writer that died with a claim in hand blocks nobody.
TurnsLand == \A s \in Sessions : <>(acked[s] = Turns \/ ~Open(s))
==============================================================================
