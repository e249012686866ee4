--------------------------- MODULE LiveTurnsProofs ---------------------------
(***************************************************************************)
(* Theorems about LiveTurns, for any sessions, workers, turns and number   *)
(* of faults: what is stored stays stored, and everything that vouches for *)
(* a turn (the cursor, the receipt, what a worker has in hand) only ever   *)
(* vouches for stored ones.  While the named lock is not lost, the lesson  *)
(* also reads back one pair per turn, in order, and a session that was     *)
(* retired still vouches for every turn it acknowledged.                   *)
(***************************************************************************)
EXTENDS LiveTurns, TLAPS

\* A task as a worker begins it, or rests.
LEMMA RestTyped == Rest \in Tasks
<1>1. (CHOOSE s \in Sessions : TRUE) \in Sessions
  BY Zenon, LiveAssumption
<1> QED
  BY <1>1, LiveAssumption DEF Rest, Tasks, Steps

\* Steps that only move one worker's program counter.
LEMMA MoveTyped ==
    ASSUME task \in [Workers -> Tasks], NEW w \in Workers, NEW step \in Steps,
           task' = [task EXCEPT ![w].at = step]
    PROVE  task' \in [Workers -> Tasks]
BY DEF Tasks

\* ... that decide the answer,
LEMMA EndTyped ==
    ASSUME task \in [Workers -> Tasks], NEW w \in Workers, NEW from, NEW ok \in BOOLEAN,
           Ends(w, from, ok)
    PROVE  task' \in [Workers -> Tasks]
<1>1. task[w] \in Tasks
  OBVIOUS
<1>2. [task[w] EXCEPT !.at = "leave", !.ok = ok] \in Tasks
  BY <1>1, Zenon DEF Tasks, Steps
<1>3. task' = [task EXCEPT ![w] = [task[w] EXCEPT !.at = "leave", !.ok = ok]]
  BY Zenon DEF Ends
<1> QED
  BY <1>2, <1>3

\* Steps that load the cursor, and steps to the next turn.
LEMMA FieldsTyped ==
    ASSUME task \in [Workers -> Tasks], NEW w \in Workers, NEW step \in Steps
    PROVE  /\ \A cursor \in 0 .. MaxTurns :
                 [task EXCEPT ![w].at = step, ![w].cursor = cursor] \in [Workers -> Tasks]
           /\ [task EXCEPT ![w].at = step, ![w].turn = @ + 1] \in [Workers -> Tasks]
           /\ [task EXCEPT ![w].turn = @ + 1] \in [Workers -> Tasks]
<1>1. task[w] \in Tasks
  OBVIOUS
<1>2. task[w].turn + 1 \in Nat
  BY <1>1 DEF Tasks
<1>3. [task[w] EXCEPT !.at = step, !.turn = @ + 1] \in Tasks
  BY <1>1, <1>2, Zenon DEF Tasks
<1>4. [task[w] EXCEPT !.turn = @ + 1] \in Tasks
  BY <1>1, <1>2, Zenon DEF Tasks
<1>5. ASSUME NEW cursor \in 0 .. MaxTurns
      PROVE  [task EXCEPT ![w].at = step, ![w].cursor = cursor] \in [Workers -> Tasks]
  <2>1. [task[w] EXCEPT !.at = step, !.cursor = cursor] \in Tasks
    BY <1>1, Zenon DEF Tasks
  <2> QED
    BY <2>1
<1> QED
  BY <1>3, <1>4, <1>5

\* ... that answer without the lock,
LEMMA AnswerTyped ==
    ASSUME task \in [Workers -> Tasks], NEW w \in Workers, NEW from, Answers(w, from)
    PROVE  task' \in [Workers -> Tasks]
BY RestTyped DEF Answers

\* ... that begin a request,
LEMMA RequestTyped ==
    ASSUME task \in [Workers -> Tasks], NEW w \in Workers,
           NEW op \in {"turn", "finalize", "end"}, NEW s \in Sessions,
           NEW first \in Nat, NEW last \in 0 .. MaxTurns,
           Request(w, op, s, first, last)
    PROVE  task' \in [Workers -> Tasks]
<1>1. [Rest EXCEPT !.at = "load", !.op = op, !.s = s,
                   !.first = first, !.last = last, !.turn = first] \in Tasks
  BY RestTyped DEF Tasks, Steps
<1> QED
  BY <1>1 DEF Request

\* ... and the one that reads the rows before an insert.
LEMMA ReadTyped ==
    ASSUME task \in [Workers -> Tasks], placed \in [Sessions -> [Turns -> SUBSET Nat]],
           top \in Nat, NEW w \in Workers, ReadHistory(w)
    PROVE  task' \in [Workers -> Tasks]
<1> DEFINE known == placed[task[w].s][task[w].turn] # {}
<1>1. task[w] \in Tasks
  OBVIOUS
<1>2. known \in BOOLEAN
  BY Zenon
<1>3. [task[w] EXCEPT !.at = "insert", !.known = known, !.high = top] \in Tasks
  <2> HIDE DEF known
  <2> QED
    BY <1>1, <1>2, Zenon DEF Tasks, Steps
<1>4. task' = [task EXCEPT ![w] = [task[w] EXCEPT !.at = "insert", !.known = known, !.high = top]]
  BY Zenon DEF ReadHistory
<1> QED
  BY <1>3, <1>4

\* The parts of TypeOK that a handler's step touches one at a time.
RedisTyped ==
    /\ binding \in [Sessions -> Bindings \cup {Absent}]
    /\ \A s \in Sessions : Alive(s) => binding[s].pending \in {0, binding[s].last + 1}
    /\ receipt \in [Sessions -> 0 .. MaxTurns \cup {Absent}]
    /\ late \subseteq Sessions
    /\ consumed \subseteq Sessions

RowsTyped ==
    /\ placed \in [Sessions -> [Turns -> SUBSET Nat]]
    /\ top \in Nat
    /\ usage \in [Sessions -> [Turns -> Nat]]

LockTyped == lock \in Workers \cup {Nobody} /\ dropped \in BOOLEAN /\ faults \in Nat

\* TypeOK is its parts.
LEMMA Parts ==
    TypeOK <=> /\ RedisTyped /\ RowsTyped /\ LockTyped
               /\ task \in [Workers -> Tasks]
               /\ acked \in [Sessions -> SUBSET Turns]
BY Zenon DEF TypeOK, RedisTyped, RowsTyped, LockTyped

\* The count of faults stays a number.
LEMMA FaultTyped == ASSUME faults \in Nat, Fault PROVE faults' \in Nat
BY DEF Fault

\* A comparison is true or false.
LEMMA TruthTyped == \A a, b : (a > 0) \in BOOLEAN /\ (a = b) \in BOOLEAN
OBVIOUS

\* What a worker's step does to its own task is typed.
LEMMA TaskTyped ==
    ASSUME TypeOK, NEW w \in Workers,
           ReportTurn(w) \/ Finalize(w) \/ End(w) \/ Handle(w) \/ Faulty(w)
    PROVE  task' \in [Workers -> Tasks]
<1> USE DEF TypeOK
<1>0. task \in [Workers -> Tasks]
  BY Zenon
<1>1. CASE ReportTurn(w) \/ Finalize(w) \/ End(w)
  <2> HIDE DEF TypeOK
  <2>1. CASE ReportTurn(w)
    <3>1. PICK s \in Sessions, i \in Turns : Request(w, "turn", s, i, i)
      BY <2>1, Zenon DEF ReportTurn
    <3>2. i \in Nat /\ i \in 0 .. MaxTurns
      BY LiveAssumption DEF Turns
    <3> QED
      BY <1>0, <3>1, <3>2, RequestTyped, Zenon
  <2>2. CASE Finalize(w)
    <3>1. PICK s \in Sessions, first \in Turns :
              \E last \in first - 1 .. MaxTurns : Request(w, "finalize", s, first, last)
      BY <2>2, Zenon DEF Finalize
    <3>2. PICK last \in first - 1 .. MaxTurns : Request(w, "finalize", s, first, last)
      BY <3>1, Zenon
    <3>3. first \in Nat /\ last \in 0 .. MaxTurns
      BY LiveAssumption DEF Turns
    <3> QED
      BY <1>0, <3>2, <3>3, RequestTyped, Zenon
  <2>3. CASE End(w)
    <3>1. PICK s \in Sessions : Request(w, "end", s, 1, 0)
      BY <2>3, Zenon DEF End
    <3>2. 1 \in Nat /\ 0 \in 0 .. MaxTurns
      BY LiveAssumption
    <3> QED
      BY <1>0, <3>1, <3>2, RequestTyped, Zenon
  <2> QED
    BY <1>1, <2>1, <2>2, <2>3, Zenon
<1>2. CASE Load(w) \/ Acquire(w) \/ Reserve(w) \/ NoHistory(w) \/ Insert(w) \/ RecordUsage(w)
           \/ CommitRejected(w) \/ CommitLost(w) \/ Retire(w) \/ WriteFails(w) \/ ReadUsage(w)
  <2>1. PICK from, step \in Steps : Goes(w, from, step)
    BY <1>2 DEF Load, Acquire, Reserve, NoHistory, Insert, RecordUsage, CommitRejected,
                CommitLost, Retire, WriteFails, ReadUsage, Steps
  <2> QED
    BY <1>0, <2>1, MoveTyped DEF Goes
<1>3. CASE Replay(w) \/ ReloadFails(w) \/ ReserveRejected(w) \/ ReserveLost(w) \/ ReadLost(w)
           \/ Release(w) \/ ReleaseLost(w) \/ RetireLost(w) \/ Consume(w) \/ ConsumeRejected(w)
           \/ ConsumeLost(w)
  <2> HIDE DEF TypeOK
  <2>1. CASE Replay(w)
    <3>1. (usage[task[w].s][task[w].turn] > 0) \in BOOLEAN
      BY TruthTyped
    <3>2. Ends(w, "locked", usage[task[w].s][task[w].turn] > 0)
      BY <2>1, Zenon DEF Replay
    <3> QED
      BY <1>0, <3>1, <3>2, EndTyped
  <2>2. CASE ReloadFails(w)
    <3>1. (task[w].op = "end") \in BOOLEAN
      BY TruthTyped
    <3>2. Ends(w, "locked", task[w].op = "end")
      BY <2>2, Zenon DEF ReloadFails
    <3> QED
      BY <1>0, <3>1, <3>2, EndTyped
  <2>3. CASE ConsumeRejected(w)
    BY <1>0, <2>3, EndTyped DEF ConsumeRejected
  <2>4. CASE Consume(w)
    BY <1>0, <2>4, EndTyped DEF Consume
  <2>5. ASSUME ReserveRejected(w) \/ ReserveLost(w) \/ ReadLost(w) \/ Release(w)
               \/ ReleaseLost(w) \/ RetireLost(w) \/ ConsumeLost(w)
        PROVE  task' \in [Workers -> Tasks]
    <3>1. PICK from : Ends(w, from, FALSE)
      BY <2>5, Zenon DEF ReserveRejected, ReserveLost, ReadLost, Release, ReleaseLost,
                         RetireLost, ConsumeLost
    <3> QED
      BY <1>0, <3>1, EndTyped
  <2> QED
    BY <1>3, <2>1, <2>2, <2>3, <2>4, <2>5, Zenon
<1>4. CASE TurnAway(w) \/ LoadLost(w) \/ Busy(w)
  BY <1>0, <1>4, AnswerTyped DEF TurnAway, LoadLost, AnswerUnbound, Busy
<1>5. CASE Leave(w) \/ Crash(w)
  BY <1>0, <1>5, RestTyped DEF Leave, Crash
<1>6. CASE ReadHistory(w)
  BY <1>0, <1>6, ReadTyped
<1>7. CASE Reload(w)
  <2> DEFINE step == IF task[w].op = "end" THEN "retire" ELSE "next"
             last == binding[task[w].s].last
  <2>1. last \in 0 .. MaxTurns /\ step \in Steps
    <3>1. task[w] \in Tasks
      BY <1>0
    <3>2. task[w].s \in Sessions
      BY <3>1 DEF Tasks
    <3>3. binding[task[w].s] \in Bindings
      BY <1>7, <3>2 DEF Reload, Usable, Open, Alive
    <3> QED
      BY <3>3 DEF Bindings, Steps
  <2>2. task' = [task EXCEPT ![w].at = step, ![w].cursor = last]
    BY <1>7, Zenon DEF Reload
  <2> HIDE DEF step, last
  <2> QED
    BY <1>0, <2>1, <2>2, FieldsTyped
<1>8. CASE Skip(w)
  BY <1>0, <1>8, FieldsTyped DEF Skip, Steps
<1>9. CASE Commit(w)
  <2>1. CASE task[w].op = "turn"
    <3>1. Ends(w, "commit", TRUE)
      BY <1>9, <2>1 DEF Commit, AfterCommit, Ends
    <3> QED
      BY <1>0, <3>1, EndTyped
  <2>2. CASE task[w].op # "turn"
    <3>1. task' = [task EXCEPT ![w].at = "next", ![w].turn = @ + 1]
      BY <1>9, <2>2, Zenon DEF Commit, AfterCommit
    <3> QED
      BY <1>0, <3>1, FieldsTyped DEF Steps
  <2> QED
    BY <2>1, <2>2
<1>10. CASE LoadLatest(w)
  <2>1. CASE Alive(task[w].s)
    <3>1. task[w] \in Tasks
      BY <1>0
    <3>2. task[w].s \in Sessions
      BY <3>1 DEF Tasks
    <3>3. binding[task[w].s].last \in 0 .. MaxTurns
      BY <2>1, <3>2 DEF Alive, Bindings
    <3>4. task' = [task EXCEPT ![w].at = "retire", ![w].cursor = binding[task[w].s].last]
      BY <1>10, <2>1 DEF LoadLatest
    <3> QED
      BY <1>0, <3>3, <3>4, FieldsTyped DEF Steps
  <2>2. CASE ~Alive(task[w].s)
    <3>1. Ends(w, "next", FALSE)
      BY <1>10, <2>2 DEF LoadLatest, Ends
    <3> QED
      BY <1>0, <3>1, EndTyped
  <2> QED
    BY <2>1, <2>2
<1> QED
  BY <1>1, <1>2, <1>3, <1>4, <1>5, <1>6, <1>7, <1>8, <1>9, <1>10 DEF Handle, Faulty

\* The worker's actions by what they leave alone.
Handler(w) == ReportTurn(w) \/ Finalize(w) \/ End(w) \/ Handle(w) \/ Faulty(w)

\* Handlers keep the lock and the fault counters typed.
LEMMA LockTypedStep ==
    ASSUME TypeOK, NEW w \in Workers, Handler(w)
    PROVE  LockTyped'
<1>1. lock' \in Workers \cup {Nobody} /\ UNCHANGED dropped /\ (faults' = faults \/ Fault)
  BY DEF TypeOK, Handler, Handle, Faulty, ReportTurn, Finalize, End, Request, Load, TurnAway,
         AnswerUnbound, LoadLost, Acquire, Busy, Replay, Reload, ReloadFails, ReadLost, Skip,
         Reserve, ReserveRejected, ReserveLost, ReadHistory, NoHistory, Insert, ReadUsage,
         RecordUsage, WriteFails, Commit, CommitRejected, CommitLost, Release, ReleaseLost,
         LoadLatest, Retire, RetireLost, Consume, ConsumeRejected, ConsumeLost, Leave, Crash,
         Unlocked, redis, rows
<1>2. dropped' \in BOOLEAN
  BY <1>1, Zenon DEF TypeOK
<1>3. faults' \in Nat
  BY <1>1, FaultTyped DEF TypeOK
<1> QED
  BY <1>1, <1>2, <1>3 DEF LockTyped

\* What a handler's step may do to the rows.
LEMMA RowsMoves ==
    ASSUME NEW w \in Workers, Handler(w)
    PROVE  Insert(w) \/ RecordUsage(w) \/ UNCHANGED rows
BY DEF Handler, Handle, Faulty, ReportTurn, Finalize, End, Request, Load, TurnAway,
       AnswerUnbound, LoadLost, Acquire, Busy, Replay, Reload, ReloadFails, ReadLost, Skip,
       Reserve, ReserveRejected, ReserveLost, ReadHistory, NoHistory, ReadUsage,
       WriteFails, Commit, CommitRejected, CommitLost, Release, ReleaseLost,
       LoadLatest, Retire, RetireLost, Consume, ConsumeRejected, ConsumeLost, Leave, Crash

\* The fields of a task, for proofs that need only these.
LEMMA TaskFields ==
    ASSUME TypeOK, NEW w \in Workers
    PROVE  /\ task[w].s \in Sessions
           /\ task[w].first \in Nat
           /\ task[w].turn \in Nat
           /\ task[w].high \in Nat
           /\ task[w].last \in 0 .. MaxTurns
           /\ task[w].cursor \in 0 .. MaxTurns
           /\ task[w].op \in {"turn", "finalize", "end"}
<1>1. task[w] \in Tasks
  BY Zenon DEF TypeOK
<1> QED
  BY <1>1 DEF Tasks

\* Writing one turn's entry of one session.
LEMMA EntryTyped ==
    ASSUME NEW T, NEW f \in [Sessions -> [Turns -> T]], NEW s \in Sessions,
           NEW i, NEW v, i \in Turns => v \in T
    PROVE  [f EXCEPT ![s][i] = v] \in [Sessions -> [Turns -> T]]
<1>1. [f[s] EXCEPT ![i] = v] \in [Turns -> T]
  OBVIOUS
<1> QED
  BY <1>1

\* Handlers keep the rows typed.
LEMMA RowsTypedStep ==
    ASSUME TypeOK, NEW w \in Workers, Handler(w)
    PROVE  RowsTyped'
<1>0. RowsTyped
  BY Parts
<1>1. CASE Insert(w)
  <2> DEFINE s == task[w].s
             i == task[w].turn
             position == task[w].high + 1
  <2>1. position \in Nat /\ s \in Sessions
    BY TaskFields
  <2>2. [placed EXCEPT ![s][i] = placed[s][i] \cup {position}] \in [Sessions -> [Turns -> SUBSET Nat]]
    <3>1. i \in Turns => placed[s][i] \cup {position} \in SUBSET Nat
      BY <1>0, <2>1 DEF RowsTyped
    <3> HIDE DEF s, i, position
    <3> QED
      BY <1>0, <2>1, <3>1, EntryTyped DEF RowsTyped
  <2>3. /\ UNCHANGED usage
        /\ \/ UNCHANGED <<placed, top>>
           \/ /\ placed' = [placed EXCEPT ![s][i] = placed[s][i] \cup {position}]
              /\ top' \in {position, top}
    BY <1>1, Zenon DEF Insert
  <2> QED
    BY <1>0, <2>1, <2>2, <2>3 DEF RowsTyped
<1>2. CASE RecordUsage(w)
  <2> DEFINE s == task[w].s
             i == task[w].turn
  <2>1. s \in Sessions
    BY TaskFields
  <2>2. i \in Turns => usage[s][i] + 1 \in Nat
    BY <1>0, <2>1 DEF RowsTyped
  <2>3. [usage EXCEPT ![s][i] = usage[s][i] + 1] \in [Sessions -> [Turns -> Nat]]
    <3> HIDE DEF s, i
    <3> QED
      BY <1>0, <2>1, <2>2, EntryTyped DEF RowsTyped
  <2> QED
    BY <1>0, <1>2, <2>3 DEF RowsTyped, RecordUsage
<1>3. CASE UNCHANGED rows
  BY <1>3 DEF TypeOK, RowsTyped, rows
<1>4. Insert(w) \/ RecordUsage(w) \/ UNCHANGED rows
  BY RowsMoves
<1> QED
  BY <1>1, <1>2, <1>3, <1>4

\* A request is answered, and then only for turns that exist.
LEMMA AckedTypedStep ==
    ASSUME TypeOK, NEW w \in Workers, Handler(w), task[w].first >= 1
    PROVE  acked' \in [Sessions -> SUBSET Turns]
<1>1. Batch(w) \subseteq Turns
  BY TaskFields, LiveAssumption DEF Batch, Turns
<1>2. \/ UNCHANGED acked
      \/ acked' = [acked EXCEPT ![task[w].s] = @ \cup Batch(w)]
  BY DEF Handler, Handle, Faulty, ReportTurn, Finalize, End, Request, Load, TurnAway,
         AnswerUnbound, LoadLost, Acquire, Busy, Replay, Reload, ReloadFails, ReadLost, Skip,
         Reserve, ReserveRejected, ReserveLost, ReadHistory, NoHistory, Insert, ReadUsage,
         RecordUsage, WriteFails, Commit, CommitRejected, CommitLost, Release, ReleaseLost,
         LoadLatest, Retire, RetireLost, Consume, ConsumeRejected, ConsumeLost, Leave, Crash
<1>3. acked \in [Sessions -> SUBSET Turns] /\ task[w].s \in Sessions
  BY TaskFields DEF TypeOK
<1> QED
  BY <1>1, <1>2, <1>3

\* What a handler's step may do to the keys in Redis.
RedisMove(w) ==
    \/ UNCHANGED redis
    \/ Claimed(w) /\ Reservable(w) /\ Writing(w) /\ UNCHANGED <<receipt, late, consumed>>
    \/ Advanced(w) /\ Owns(w) /\ At(w, "commit") /\ UNCHANGED <<receipt, late, consumed>>
    \/ Release(w)
    \/ Receipted(w) /\ UNCHANGED <<binding, late, consumed>>
    \/ Deleted(w) /\ UNCHANGED <<receipt, late>>

\* Every action of a handler is one of these.
LEMMA RedisMoves ==
    ASSUME NEW w \in Workers, Handler(w)
    PROVE  RedisMove(w)
BY DEF RedisMove, Handler, Handle, Faulty, ReportTurn, Finalize, End, Request, Load, TurnAway,
       AnswerUnbound, LoadLost, Acquire, Busy, Replay, Reload, ReloadFails, ReadLost, Skip,
       Reserve, ReserveRejected, ReserveLost, ReadHistory, NoHistory, Insert, ReadUsage,
       RecordUsage, WriteFails, Commit, CommitRejected, CommitLost, ReleaseLost, LoadLatest,
       Retire, RetireLost, Consume, ConsumeRejected, ConsumeLost, Leave, Crash, Goes, At, redis

\* A binding is rewritten.
LEMMA BindingWritten ==
    ASSUME RedisTyped, NEW s \in Sessions, NEW b \in Bindings,
           b.pending \in {0, b.last + 1},
           binding' = [binding EXCEPT ![s] = b],
           UNCHANGED <<receipt, late, consumed>>
    PROVE  RedisTyped'
<1>1. binding' \in [Sessions -> Bindings \cup {Absent}]
  BY DEF RedisTyped
<1>2. ASSUME NEW r \in Sessions, Alive(r)'
      PROVE  binding'[r].pending \in {0, binding'[r].last + 1}
  BY <1>2 DEF RedisTyped, Alive
<1> QED
  BY <1>1, <1>2 DEF RedisTyped

\* A binding without its claim.
LEMMA UnclaimedTyped ==
    ASSUME NEW b \in Bindings
    PROVE  Unclaimed(b) \in Bindings /\ Unclaimed(b).pending = 0 /\ Unclaimed(b).last = b.last
<1>1. 0 \in 0 .. MaxTurns
  BY LiveAssumption
<1> QED
  BY <1>1 DEF Unclaimed, Bindings

\* The claim the scripts compare is of the turn behind the cursor.
LEMMA OwnsTyped ==
    ASSUME TypeOK, NEW w \in Workers, Owns(w)
    PROVE  /\ task[w].turn \in 0 .. MaxTurns
           /\ binding[task[w].s] \in Bindings
           /\ Unclaimed(binding[task[w].s]) \in Bindings
           /\ Unclaimed(binding[task[w].s]).pending = 0
           /\ task[w].turn \in {0, binding[task[w].s].last + 1}
<1>1. task[w].s \in Sessions
  BY TaskFields
<1>2. binding[task[w].s] \in Bindings
  BY <1>1 DEF TypeOK, Owns, Alive
<1>3. task[w].turn \in 0 .. MaxTurns /\ task[w].turn \in {0, binding[task[w].s].last + 1}
  BY <1>1, <1>2 DEF TypeOK, Owns, Bindings
<1> QED
  BY <1>2, <1>3, UnclaimedTyped

\* What happens to the binding of a worker's session.
LEMMA RedisTypedStep ==
    ASSUME TypeOK, NEW w \in Workers, Handler(w)
    PROVE  RedisTyped'
<1> DEFINE s == task[w].s
           turn == task[w].turn
<1>0. /\ s \in Sessions /\ turn \in Nat /\ task[w].last \in 0 .. MaxTurns
      /\ task[w].cursor \in 0 .. MaxTurns
  BY TaskFields
<1>1. RedisTyped
  BY Parts
<1>2. CASE UNCHANGED redis
  BY <1>1, <1>2 DEF RedisTyped, redis, Alive
<1>3. CASE Claimed(w) /\ Reservable(w) /\ Writing(w) /\ UNCHANGED <<receipt, late, consumed>>
  <2> DEFINE b == [binding[s] EXCEPT !.pending = turn, !.claim = w]
  <2>1. turn \in 0 .. MaxTurns /\ turn = binding[s].last + 1 /\ binding[s] \in Bindings
    BY <1>0, <1>1, <1>3, LiveAssumption DEF RedisTyped, Reservable, Writing, Alive
  <2>2. b \in Bindings /\ b.pending = b.last + 1
    BY <2>1 DEF Bindings
  <2>3. binding' = [binding EXCEPT ![s] = b]
    BY <1>3, Zenon DEF Claimed
  <2> HIDE DEF s, b
  <2> QED
    BY <1>0, <1>1, <1>3, <2>2, <2>3, BindingWritten
<1>4. CASE Advanced(w) /\ Owns(w) /\ UNCHANGED <<receipt, late, consumed>>
  <2> DEFINE b == [Unclaimed(binding[s]) EXCEPT !.last = turn]
  <2>1. b \in Bindings /\ b.pending = 0
    BY <1>4, OwnsTyped DEF Bindings
  <2>2. binding' = [binding EXCEPT ![s] = b]
    BY <1>4, Zenon DEF Advanced
  <2> HIDE DEF s, b
  <2> QED
    BY <1>0, <1>1, <1>4, <2>1, <2>2, BindingWritten
<1>5. CASE Release(w)
  <2>1. CASE Owns(w)
    <3> DEFINE b == Unclaimed(binding[s])
    <3>1. b \in Bindings /\ b.pending = 0
      BY <2>1, OwnsTyped
    <3>2. binding' = [binding EXCEPT ![s] = b] /\ UNCHANGED <<receipt, late, consumed>>
      BY <1>5, <2>1, Zenon DEF Release
    <3> HIDE DEF s, b
    <3> QED
      BY <1>0, <1>1, <3>1, <3>2, BindingWritten
  <2>2. CASE ~Owns(w)
    BY <1>2, <1>5, <2>2 DEF Release, redis
  <2> QED
    BY <2>1, <2>2
<1>6. CASE Receipted(w) /\ UNCHANGED <<binding, late, consumed>>
  <2>1. receipt' \in [Sessions -> 0 .. MaxTurns \cup {Absent}]
    BY <1>0, <1>1, <1>6 DEF RedisTyped, Receipted
  <2> QED
    BY <1>1, <1>6, <2>1 DEF RedisTyped, Alive
<1>7. CASE Deleted(w) /\ UNCHANGED <<receipt, late>>
  <2>1. binding' \in [Sessions -> Bindings \cup {Absent}] /\ consumed' \subseteq Sessions
    BY <1>0, <1>1, <1>7 DEF RedisTyped, Deleted
  <2>2. ASSUME NEW r \in Sessions, Alive(r)' PROVE binding'[r] = binding[r] /\ Alive(r)
    BY <1>0, <1>1, <1>7, <2>2 DEF RedisTyped, Deleted, Alive
  <2> QED
    BY <1>1, <1>7, <2>1, <2>2 DEF RedisTyped
<1>8. RedisMove(w)
  BY RedisMoves
<1> HIDE DEF s, turn
<1> QED
  BY <1>2, <1>3, <1>4, <1>5, <1>6, <1>7, <1>8 DEF RedisMove

------------------------------------------------------------------------------
(* What vouches for a turn.                                                *)

\* A turn's pair is there, or nobody spoke.
Spoken(s, i) == i \in Silent \/ placed[s][i] # {}

\* Every turn up to n is stored.
Durable(s, n) == \A i \in Turns : i <= n => Stored(s, i)

\* The usage row is written last.
RowsSound == \A s \in Sessions, i \in Turns : usage[s][i] > 0 => Spoken(s, i)

\* The cursor and the receipt of a session vouch for stored turns only.
CursorSound(s) ==
    /\ Alive(s) => Durable(s, binding[s].last)
    /\ receipt[s] # Absent => Durable(s, receipt[s])

\* What a worker has written, and what it has still in hand.
Sound(t) ==
    /\ t.first >= 1
    /\ t.op = "turn" => t.turn = t.first /\ (t.at # "idle" => t.last = t.first)
    /\ t.op = "end" => t.last < t.turn
    /\ \A i \in Turns : t.first <= i /\ i < t.turn => Stored(t.s, i)
    /\ Durable(t.s, t.cursor)
    /\ t.at \in {"history", "insert", "usage", "record", "commit"} =>
          t.turn \in Turns /\ Durable(t.s, t.turn - 1)
    /\ t.at = "insert" /\ t.known => Spoken(t.s, t.turn)
    /\ t.at \in {"usage", "record", "commit"} => Spoken(t.s, t.turn)
    /\ t.at = "commit" => usage[t.s][t.turn] > 0
    /\ t.at \in {"retire", "consume"} => t.last < t.turn
    /\ t.at = "leave" /\ t.ok => \A i \in Turns : t.first <= i /\ i <= t.last => Stored(t.s, i)

IInv ==
    /\ TypeOK
    /\ RowsSound
    /\ \A s \in Sessions : CursorSound(s)
    /\ \A w \in Workers : Sound(task[w])

\* Rows are only ever added.
Grows ==
    \A s \in Sessions, i \in Turns :
        /\ Spoken(s, i) => Spoken(s, i)'
        /\ usage[s][i] > 0 => usage'[s][i] > 0

\* The environment's steps, and none.
Outside == LoseLock \/ (\E s \in Sessions : Time(s)) \/ UNCHANGED vars

\* Handlers keep TypeOK.
LEMMA HandlerTyped ==
    ASSUME TypeOK, NEW w \in Workers, Handler(w), task[w].first >= 1
    PROVE  TypeOK'
<1>1. RedisTyped' /\ RowsTyped' /\ LockTyped'
  BY RedisTypedStep, RowsTypedStep, LockTypedStep
<1>2. task' \in [Workers -> Tasks]
  BY TaskTyped DEF Handler
<1>3. acked' \in [Sessions -> SUBSET Turns]
  BY AckedTypedStep
<1> QED
  BY <1>1, <1>2, <1>3, Zenon DEF TypeOK, RedisTyped, RowsTyped, LockTyped

\* So do time and lost connections.
LEMMA OutsideTyped ==
    ASSUME TypeOK, Outside
    PROVE  TypeOK'
<1>1. CASE LoseLock
  BY <1>1, FaultTyped DEF TypeOK, LoseLock, redis, rows, Alive
<1>2. ASSUME NEW s \in Sessions, Time(s)
      PROVE  TypeOK'
  <2>1. dropped' \in BOOLEAN
    BY <1>2, Zenon DEF TypeOK, Time, Deadline, BindingExpires, ReceiptExpires
  <2>2. RedisTyped'
    BY <1>2 DEF TypeOK, RedisTyped, Time, Deadline, BindingExpires, ReceiptExpires, Alive
  <2>3. UNCHANGED <<lock, rows, task, acked, dropped, faults>>
    BY <1>2, Zenon DEF Time, Deadline, BindingExpires, ReceiptExpires
  <2> QED
    BY <2>1, <2>2, <2>3, Zenon DEF TypeOK, RedisTyped, rows
<1>3. CASE UNCHANGED vars
  BY <1>3, Zenon DEF vars, redis, rows, TypeOK, Alive
<1> QED
  BY <1>1, <1>2, <1>3 DEF Outside

\* A session starts with nothing to vouch for.
LEMMA InitSound == Init => IInv
<1> SUFFICES ASSUME Init PROVE IInv
  OBVIOUS
<1>1. task \in [Workers -> Tasks] /\ \A w \in Workers : task[w] = Rest
  BY RestTyped DEF Init
<1>2. 0 \in 0 .. MaxTurns
  BY LiveAssumption
<1>3. TypeOK
  <2>1. RedisTyped
    <3>1. [last |-> 0, pending |-> 0, claim |-> Nobody] \in Bindings
      BY <1>2 DEF Bindings
    <3> QED
      BY <3>1 DEF Init, RedisTyped, Alive
  <2>2. RowsTyped
    BY DEF Init, RowsTyped
  <2>3. LockTyped
    BY Zenon DEF Init, LockTyped
  <2>4. acked \in [Sessions -> SUBSET Turns]
    BY DEF Init
  <2> QED
    BY <1>1, <2>1, <2>2, <2>3, <2>4, Parts
<1>4. RowsSound
  BY DEF Init, RowsSound
<1>5. \A s \in Sessions : CursorSound(s)
  <2>1. ASSUME NEW s \in Sessions
        PROVE  binding[s].last = 0 /\ receipt[s] = Absent /\ Durable(s, 0)
    BY LiveAssumption DEF Init, Durable, Turns
  <2> QED
    BY <2>1 DEF CursorSound
<1>6. ASSUME NEW w \in Workers PROVE Sound(task[w])
  <2> DEFINE t == task[w]
  <2>1. /\ t.at = "idle" /\ t.op = "turn" /\ t.first = 1 /\ t.last = 0
        /\ t.turn = 1 /\ t.cursor = 0
    BY <1>1 DEF Rest
  <2> HIDE DEF t
  <2>2. /\ \A i \in Turns : t.first <= i /\ i < t.turn => Stored(t.s, i)
        /\ Durable(t.s, t.cursor)
    BY <2>1, LiveAssumption DEF Turns, Durable
  <2> USE DEF t
  <2> QED
    BY <2>1, <2>2 DEF Sound
<1> QED
  BY <1>3, <1>4, <1>5, <1>6 DEF IInv

------------------------------------------------------------------------------
(* What was stored stays stored.                                           *)

\* Growing rows keep what is stored, and what is stored up to a turn.
LEMMA StoredGrows ==
    ASSUME Grows, NEW s \in Sessions
    PROVE  /\ \A i \in Turns : Stored(s, i) => Stored(s, i)'
           /\ \A n : Durable(s, n) => Durable(s, n)'
<1>1. \A i \in Turns : Stored(s, i) => Stored(s, i)'
  BY DEF Grows, Stored, Spoken
<1>2. ASSUME NEW n, Durable(s, n)
      PROVE  Durable(s, n)'
  BY <1>1, <1>2 DEF Durable
<1> QED
  BY <1>1, <1>2

\* A task that is sound stays so while rows are added.
LEMMA SoundGrows ==
    ASSUME Grows, NEW t, t.s \in Sessions, Sound(t)
    PROVE  Sound(t)'
<1>1. /\ \A i \in Turns : Stored(t.s, i) => Stored(t.s, i)'
      /\ Durable(t.s, t.cursor) => Durable(t.s, t.cursor)'
      /\ Durable(t.s, t.turn - 1) => Durable(t.s, t.turn - 1)'
  BY StoredGrows
<1>2. \A i \in Turns :
        /\ Spoken(t.s, i) => Spoken(t.s, i)'
        /\ usage[t.s][i] > 0 => usage'[t.s][i] > 0
  BY DEF Grows
<1> QED
  BY <1>1, <1>2 DEF Sound

\* Handlers never delete a row.
LEMMA HandlerGrows ==
    ASSUME TypeOK, NEW w \in Workers, Handler(w)
    PROVE  Grows
<1>1. CASE Insert(w)
  <2>1. UNCHANGED usage
        /\ \/ UNCHANGED placed
           \/ placed' = [placed EXCEPT ![task[w].s][task[w].turn] =
                            placed[task[w].s][task[w].turn] \cup {task[w].high + 1}]
    BY <1>1, Zenon DEF Insert
  <2>2. ASSUME NEW s \in Sessions, NEW i \in Turns
        PROVE  placed[s][i] \subseteq placed'[s][i]
    BY <2>1 DEF TypeOK
  <2> QED
    BY <2>1, <2>2 DEF Grows, Spoken
<1>2. CASE RecordUsage(w)
  <2>1. \A s \in Sessions, i \in Turns : usage[s][i] > 0 => usage'[s][i] > 0
    BY <1>2, TaskFields DEF RecordUsage, TypeOK
  <2> QED
    BY <1>2, <2>1 DEF Grows, Spoken, RecordUsage
<1>3. CASE UNCHANGED rows
  BY <1>3 DEF Grows, Spoken, rows
<1>4. Insert(w) \/ RecordUsage(w) \/ UNCHANGED rows
  BY RowsMoves
<1> QED
  BY <1>1, <1>2, <1>3, <1>4

\* A handler's step moves no other worker's task.
LEMMA OthersKept ==
    ASSUME TypeOK, NEW w \in Workers, Handler(w), NEW v \in Workers, v # w
    PROVE  task'[v] = task[v]
<1>1. task = [x \in Workers |-> task[x]]
  BY DEF TypeOK
<1> QED
  BY <1>1, Zenon DEF Handler, Handle, Faulty, ReportTurn, Finalize, End, Request, Load, TurnAway,
         AnswerUnbound, LoadLost, Acquire, Busy, Replay, Reload, ReloadFails, ReadLost, Skip,
         Reserve, ReserveRejected, ReserveLost, ReadHistory, NoHistory, Insert, ReadUsage,
         RecordUsage, WriteFails, Commit, CommitRejected, CommitLost, Release, ReleaseLost,
         LoadLatest, Retire, RetireLost, Consume, ConsumeRejected, ConsumeLost, Leave, Crash,
         Goes, Ends, Answers, AfterCommit

\* A usage row appears only behind its turn's pair.
LEMMA HandlerRows ==
    ASSUME IInv, NEW w \in Workers, Handler(w)
    PROVE  RowsSound'
<1>1. Grows
  BY HandlerGrows DEF IInv
<1>2. ASSUME NEW s \in Sessions, NEW i \in Turns, usage'[s][i] > 0
      PROVE  Spoken(s, i)'
  <2>1. CASE usage[s][i] > 0
    BY <1>1, <2>1 DEF IInv, RowsSound, Grows
  <2>2. CASE ~(usage[s][i] > 0)
    <3>1. usage' # usage
      BY <1>2, <2>2
    <3>2. RecordUsage(w)
      BY <3>1 DEF Handler, Handle, Faulty, ReportTurn, Finalize, End, Request, Load, TurnAway,
         AnswerUnbound, LoadLost, Acquire, Busy, Replay, Reload, ReloadFails, ReadLost, Skip,
         Reserve, ReserveRejected, ReserveLost, ReadHistory, NoHistory, Insert, ReadUsage,
         WriteFails, Commit, CommitRejected, CommitLost, Release, ReleaseLost,
         LoadLatest, Retire, RetireLost, Consume, ConsumeRejected, ConsumeLost, Leave, Crash, rows
    <3>3. task[w].s = s /\ task[w].turn = i
      BY <1>2, <2>2, <3>2 DEF RecordUsage, IInv, TypeOK
    <3>4. Spoken(s, i)
      BY <3>2, <3>3 DEF RecordUsage, Goes, At, IInv, Sound
    <3> QED
      BY <1>1, <3>4 DEF Grows
  <2> QED
    BY <2>1, <2>2
<1> QED
  BY <1>2 DEF RowsSound

\* Nothing vouches for a turn that is not stored.
LEMMA HandlerCursor ==
    ASSUME IInv, NEW w \in Workers, Handler(w), NEW s \in Sessions
    PROVE  CursorSound(s)'
<1>0. /\ TypeOK /\ CursorSound(s) /\ Sound(task[w])
      /\ binding = [r \in Sessions |-> binding[r]] /\ receipt = [r \in Sessions |-> receipt[r]]
  BY DEF IInv, TypeOK
<1>1. \A n : Durable(s, n) => Durable(s, n)'
  BY <1>0, HandlerGrows, StoredGrows
<1>2. CASE UNCHANGED redis
  BY <1>0, <1>1, <1>2 DEF CursorSound, Alive, redis
<1>3. CASE Claimed(w) /\ Reservable(w) /\ UNCHANGED receipt
  <2>1. binding[task[w].s] \in Bindings
    BY <1>0, <1>3, TaskFields DEF Reservable, Alive, TypeOK
  <2>2. Alive(s)' => Alive(s) /\ binding'[s].last = binding[s].last
    BY <1>0, <1>3, <2>1 DEF Claimed, Reservable, Alive, Bindings
  <2> QED
    BY <1>0, <1>1, <1>3, <2>2 DEF CursorSound
<1>4. CASE Advanced(w) /\ Owns(w) /\ At(w, "commit") /\ UNCHANGED receipt
  <2>1. CASE s # task[w].s
    BY <1>0, <1>1, <1>4, <2>1 DEF Advanced, CursorSound, Alive
  <2>2. CASE s = task[w].s
    <3>1. Unclaimed(binding[s]) \in Bindings
      BY <1>0, <1>4, <2>2, OwnsTyped
    <3>2. binding'[s].last = task[w].turn
      BY <1>0, <1>4, <2>2, <3>1 DEF Advanced, Bindings
    <3>3. Durable(s, task[w].turn - 1) /\ Stored(s, task[w].turn) /\ task[w].turn \in Turns
      BY <1>0, <1>4, <2>2 DEF Sound, At, Stored, Spoken
    <3>4. Durable(s, task[w].turn)
      BY <3>3, LiveAssumption DEF Durable, Turns
    <3> QED
      BY <1>0, <1>1, <1>4, <3>2, <3>4 DEF CursorSound
  <2> QED
    BY <2>1, <2>2
<1>5. CASE Release(w)
  <2>1. Owns(w) => Unclaimed(binding[task[w].s]).last = binding[task[w].s].last
    BY <1>0, OwnsTyped, UnclaimedTyped
  <2>2. Alive(s)' => Alive(s) /\ binding'[s].last = binding[s].last
    BY <1>0, <1>5, <2>1 DEF Release, Owns, Alive
  <2> QED
    BY <1>0, <1>1, <1>5, <2>2 DEF CursorSound, Release
<1>6. CASE Receipted(w) /\ UNCHANGED binding
  <2>1. receipt'[s] = receipt[s] \/ (s = task[w].s /\ receipt'[s] = task[w].cursor)
    BY <1>0, <1>6 DEF Receipted
  <2>2. s = task[w].s => Durable(s, task[w].cursor)
    BY <1>0 DEF Sound
  <2> QED
    BY <1>0, <1>1, <1>6, <2>1, <2>2 DEF CursorSound, Alive
<1>7. CASE Deleted(w) /\ UNCHANGED receipt
  BY <1>0, <1>1, <1>7 DEF Deleted, CursorSound, Alive
<1> QED
  BY <1>2, <1>3, <1>4, <1>5, <1>6, <1>7, RedisMoves DEF RedisMove

------------------------------------------------------------------------------
(* What a worker's step makes of its task.                                 *)

\* A resting task vouches for nothing.
LEMMA RestSound == Sound(Rest)
<1>1. /\ Rest.at = "idle" /\ Rest.op = "turn" /\ Rest.first = 1 /\ Rest.last = 0
      /\ Rest.turn = 1 /\ Rest.cursor = 0
  BY DEF Rest
<1>2. /\ \A i \in Turns : Rest.first <= i /\ i < Rest.turn => Stored(Rest.s, i)
      /\ Durable(Rest.s, Rest.cursor)
  BY <1>1, LiveAssumption DEF Turns, Durable
<1> QED
  BY <1>1, <1>2 DEF Sound

\* Nor does a request that has just arrived.
LEMMA RequestSound ==
    ASSUME NEW op, NEW s \in Sessions, NEW first \in Nat \ {0}, NEW last \in Nat,
           op = "turn" => last = first,
           op = "end" => last < first
    PROVE  Sound([Rest EXCEPT !.at = "load", !.op = op, !.s = s,
                              !.first = first, !.last = last, !.turn = first])
<1> DEFINE t == [Rest EXCEPT !.at = "load", !.op = op, !.s = s,
                             !.first = first, !.last = last, !.turn = first]
<1>1. /\ t.at = "load" /\ t.op = op /\ t.s = s /\ t.first = first /\ t.last = last
      /\ t.turn = first /\ t.cursor = 0
  BY DEF Rest
<1> HIDE DEF t
<1>2. /\ \A i \in Turns : t.first <= i /\ i < t.turn => Stored(t.s, i)
      /\ Durable(t.s, t.cursor)
  BY <1>1, LiveAssumption DEF Turns, Durable
<1>3. Sound(t)
  BY <1>1, <1>2 DEF Sound
<1> QED
  BY <1>3 DEF t

\* What a program counter says of the task.
Fits(t, step) ==
    /\ step \in {"history", "insert", "usage", "record", "commit"} =>
          t.turn \in Turns /\ Durable(t.s, t.turn - 1)
    /\ step \in {"usage", "record", "commit"} => Spoken(t.s, t.turn)
    /\ step = "commit" => usage[t.s][t.turn] > 0
    /\ step \in {"retire", "consume"} => t.last < t.turn
    /\ step \notin {"insert", "leave"}

\* A task whose program counter moves to where it fits stays sound.
LEMMA MovedSound ==
    ASSUME NEW t \in Tasks, t.at # "idle", Sound(t), NEW step, Fits(t, step)
    PROVE  Sound([t EXCEPT !.at = step])
<1> DEFINE u == [t EXCEPT !.at = step]
<1>1. /\ u.at = step /\ u.op = t.op /\ u.s = t.s /\ u.first = t.first /\ u.last = t.last
      /\ u.turn = t.turn /\ u.cursor = t.cursor
  BY DEF Tasks
<1> HIDE DEF u
<1>2. Sound(u)
  BY <1>1 DEF Sound, Fits
<1> QED
  BY <1>2 DEF u

\* A task that decides on success has its batch stored.
LEMMA EndedSound ==
    ASSUME NEW t \in Tasks, t.at # "idle", Sound(t), NEW ok,
           ok => \A i \in Turns : t.first <= i /\ i <= t.last => Stored(t.s, i)
    PROVE  Sound([t EXCEPT !.at = "leave", !.ok = ok])
<1> DEFINE u == [t EXCEPT !.at = "leave", !.ok = ok]
<1>1. /\ u.at = "leave" /\ u.op = t.op /\ u.s = t.s /\ u.first = t.first /\ u.last = t.last
      /\ u.turn = t.turn /\ u.cursor = t.cursor
  BY DEF Tasks
<1>2. u.ok = ok
  BY DEF Tasks
<1> HIDE DEF u
<1>3. u.ok => \A i \in Turns : u.first <= i /\ i <= u.last => Stored(u.s, i)
  BY <1>1, <1>2, Zenon
<1>4. Sound(u)
  BY <1>1, <1>3 DEF Sound
<1> QED
  BY <1>4 DEF u

\* What Goes makes of a task ...
LEMMA GoesTask ==
    ASSUME TypeOK, NEW w \in Workers, NEW from, NEW step, Goes(w, from, step)
    PROVE  task'[w] = [task[w] EXCEPT !.at = step] /\ task[w].at = from /\ task[w] \in Tasks
BY DEF TypeOK, Goes, At

\* ... and what Ends makes of it.
LEMMA EndsTask ==
    ASSUME TypeOK, NEW w \in Workers, NEW from, NEW ok, Ends(w, from, ok)
    PROVE  /\ task'[w] = [task[w] EXCEPT !.at = "leave", !.ok = ok]
           /\ task[w].at = from /\ task[w] \in Tasks
<1>1. task[w] \in Tasks /\ task = [v \in Workers |-> task[v]]
  BY DEF TypeOK
<1> QED
  BY <1>1, Zenon DEF Ends, At

\* Requests and answers.
LEMMA ArrivalSound ==
    ASSUME IInv, NEW w \in Workers, ReportTurn(w) \/ Finalize(w) \/ End(w)
    PROVE  Sound(task'[w])
<1>0. task = [v \in Workers |-> task[v]]
  BY DEF IInv, TypeOK
<1>1. CASE ReportTurn(w)
  <2>1. PICK s \in Sessions, i \in Turns : Request(w, "turn", s, i, i)
    BY <1>1 DEF ReportTurn
  <2>2. i \in Nat \ {0}
    BY LiveAssumption DEF Turns
  <2>3. Sound([Rest EXCEPT !.at = "load", !.op = "turn", !.s = s,
                           !.first = i, !.last = i, !.turn = i])
    BY <2>2, RequestSound
  <2> QED
    BY <1>0, <2>1, <2>3, Zenon DEF Request
<1>2. CASE Finalize(w)
  <2>0. PICK s \in Sessions, i \in Turns :
           \E j \in i - 1 .. MaxTurns : Request(w, "finalize", s, i, j)
    BY <1>2, Zenon DEF Finalize
  <2>1. PICK j \in i - 1 .. MaxTurns : Request(w, "finalize", s, i, j)
    BY <2>0, Zenon
  <2>2. i \in Nat \ {0} /\ j \in Nat
    BY LiveAssumption DEF Turns
  <2>3. Sound([Rest EXCEPT !.at = "load", !.op = "finalize", !.s = s,
                           !.first = i, !.last = j, !.turn = i])
    BY <2>2, RequestSound
  <2> QED
    BY <1>0, <2>1, <2>3, Zenon DEF Request
<1>3. CASE End(w)
  <2>1. PICK s \in Sessions : Request(w, "end", s, 1, 0)
    BY <1>3 DEF End
  <2>2. Sound([Rest EXCEPT !.at = "load", !.op = "end", !.s = s,
                           !.first = 1, !.last = 0, !.turn = 1])
    <3>1. 1 \in Nat \ {0} /\ 0 \in Nat /\ 0 < 1 /\ "end" # "turn"
      OBVIOUS
    <3> QED
      BY <3>1, RequestSound, Zenon
  <2> QED
    BY <1>0, <2>1, <2>2, Zenon DEF Request
<1> QED
  BY <1>1, <1>2, <1>3

\* Steps that move the program counter over rows that stay as they are.
LEMMA MoveSound ==
    ASSUME IInv, NEW w \in Workers,
           \/ Load(w) \/ Acquire(w) \/ Reserve(w) \/ NoHistory(w) \/ ReadUsage(w)
           \/ CommitRejected(w) \/ CommitLost(w) \/ Retire(w) \/ WriteFails(w)
    PROVE  Sound(task'[w])
<1> DEFINE t == task[w]
<1>0. TypeOK /\ Sound(t) /\ t \in Tasks /\ t.s \in Sessions
  <2>1. TypeOK /\ Sound(t)
    BY DEF IInv
  <2>2. t \in Tasks
    BY <2>1, Zenon DEF TypeOK
  <2> QED
    BY <2>1, <2>2, TaskFields
<1>1. ASSUME NEW from, NEW step, Goes(w, from, step), from # "idle", Fits(t, step)
      PROVE  Sound(task'[w])
  <2>1. task'[w] = [t EXCEPT !.at = step] /\ t.at # "idle"
    BY <1>0, <1>1, GoesTask
  <2> HIDE DEF t
  <2>2. Sound([t EXCEPT !.at = step])
    BY <1>0, <1>1, <2>1, MovedSound
  <2> QED
    BY <2>1, <2>2
<1>2. CASE Load(w)
  BY <1>1, <1>2 DEF Load, Fits
<1>3. CASE Acquire(w)
  BY <1>1, <1>3 DEF Acquire, Fits
<1>4. CASE Reserve(w)
  <2>1. Alive(t.s) /\ t.turn = binding[t.s].last + 1 /\ t.turn <= t.last
    BY <1>4, Zenon DEF Reserve, Reservable, Writing
  <2>2. binding[t.s].last \in Nat /\ t.last \in 0 .. MaxTurns
    <3>1. binding[t.s].last \in Nat
      BY <1>0, <2>1, LiveAssumption DEF TypeOK, Alive, Bindings
    <3> QED
      BY <1>0, <3>1, TaskFields
  <2>3. t.turn \in Turns /\ t.turn - 1 = binding[t.s].last
    BY <2>1, <2>2, LiveAssumption DEF Turns
  <2>4. Durable(t.s, t.turn - 1)
    BY <1>0, <2>1, <2>3 DEF IInv, CursorSound
  <2>5. Goes(w, "next", "history")
    BY <1>4, Zenon DEF Reserve
  <2>6. Fits(t, "history")
    BY <2>3, <2>4 DEF Fits
  <2> QED
    BY <1>1, <2>5, <2>6
<1>5. CASE NoHistory(w)
  <2>1. Goes(w, "history", "usage") /\ t.turn \in Silent
    BY <1>5 DEF NoHistory
  <2>2. t.at = "history"
    BY <2>1 DEF Goes, At
  <2>3. Fits(t, "usage")
    BY <1>0, <2>1, <2>2 DEF Fits, Sound, Spoken
  <2> QED
    BY <1>1, <2>1, <2>3
<1>6. CASE ReadUsage(w)
  <2>1. PICK step \in {"commit", "record"} :
            Goes(w, "usage", step) /\ (step = "commit" => usage[t.s][t.turn] > 0)
    BY <1>6 DEF ReadUsage
  <2>2. t.at = "usage"
    BY <2>1 DEF Goes, At
  <2>3. Fits(t, step)
    BY <1>0, <2>1, <2>2 DEF Fits, Sound
  <2> QED
    BY <1>1, <2>1, <2>3
<1>7. CASE CommitRejected(w) \/ CommitLost(w)
  BY <1>1, <1>7 DEF CommitRejected, CommitLost, Fits
<1>8. CASE Retire(w)
  BY <1>0, <1>1, <1>8 DEF Retire, Goes, At, Fits, Sound
<1>9. CASE WriteFails(w)
  BY <1>1, <1>9 DEF WriteFails, Fits
<1> QED
  BY <1>2, <1>3, <1>4, <1>5, <1>6, <1>7, <1>8, <1>9

\* Steps that decide the answer.
LEMMA EndSound ==
    ASSUME IInv, NEW w \in Workers,
           \/ Replay(w) \/ ReloadFails(w) \/ ReserveRejected(w) \/ ReserveLost(w) \/ ReadLost(w)
           \/ Release(w) \/ ReleaseLost(w) \/ RetireLost(w) \/ Consume(w) \/ ConsumeRejected(w)
           \/ ConsumeLost(w)
    PROVE  Sound(task'[w])
<1> DEFINE t == task[w]
           Kept == \A i \in Turns : t.first <= i /\ i <= t.last => Stored(t.s, i)
<1>0. TypeOK /\ Sound(t) /\ t \in Tasks /\ t.s \in Sessions
      /\ t.first \in Nat /\ t.turn \in Nat /\ t.last \in Nat
  <2>1. TypeOK /\ Sound(t)
    BY DEF IInv
  <2>2. t \in Tasks
    BY <2>1, Zenon DEF TypeOK
  <2> QED
    BY <2>1, <2>2, TaskFields, LiveAssumption
<1>1. ASSUME NEW from, NEW ok, Ends(w, from, ok), from # "idle", ok => Kept
      PROVE  Sound(task'[w])
  <2>1. task'[w] = [t EXCEPT !.at = "leave", !.ok = ok] /\ t.at # "idle"
    BY <1>0, <1>1, EndsTask, Zenon
  <2>2. Sound([t EXCEPT !.at = "leave", !.ok = ok])
    BY <1>0, <1>1, <2>1, EndedSound, Zenon
  <2> QED
    BY <2>1, <2>2, Zenon
<1>2. t.last < t.turn => Kept
  BY <1>0, LiveAssumption DEF Sound, Turns
<1>3. CASE Replay(w)
  <2>1. t.op = "turn" /\ t.turn = t.first /\ t.last = t.first
    BY <1>0, <1>3 DEF Replay, Ends, At, Sound
  <2>2. ASSUME usage[t.s][t.turn] > 0 PROVE Kept
    BY <1>0, <2>1, <2>2, LiveAssumption DEF IInv, RowsSound, Stored, Spoken, Turns
  <2> QED
    BY <1>1, <1>3, <2>2, Zenon DEF Replay
<1>4. CASE ReloadFails(w)
  <2>1. t.op = "end" => Kept
    BY <1>0, <1>2 DEF Sound
  <2> QED
    BY <1>1, <1>4, <2>1, Zenon DEF ReloadFails
<1>5. CASE Consume(w)
  <2>1. Kept
    BY <1>0, <1>2, <1>5 DEF Consume, Ends, At, Sound
  <2> QED
    BY <1>1, <1>5, <2>1, Zenon DEF Consume
<1>6. CASE ConsumeRejected(w)
  <2>1. t.op = "end" => Kept
    BY <1>0, <1>2 DEF Sound
  <2> QED
    BY <1>1, <1>6, <2>1, Zenon DEF ConsumeRejected
<1>7. CASE ReserveRejected(w) \/ ReserveLost(w) \/ ReadLost(w) \/ Release(w) \/ ReleaseLost(w)
           \/ RetireLost(w) \/ ConsumeLost(w)
  BY <1>1, <1>7, Zenon DEF ReserveRejected, ReserveLost, ReadLost, Release, ReleaseLost, RetireLost,
                          ConsumeLost
<1> QED
  BY <1>3, <1>4, <1>5, <1>6, <1>7

\* Steps that load the cursor or go on to the next turn.
LEMMA CursorLoadedSound ==
    ASSUME IInv, NEW w \in Workers, Reload(w) \/ LoadLatest(w)
    PROVE  Sound(task'[w])
<1> DEFINE t == task[w]
           last == binding[t.s].last
<1>0. TypeOK /\ Sound(t) /\ t \in Tasks /\ t.s \in Sessions
  <2>1. TypeOK /\ Sound(t)
    BY DEF IInv
  <2>2. t \in Tasks
    BY <2>1, Zenon DEF TypeOK
  <2> QED
    BY <2>1, <2>2, TaskFields
<1>1. ASSUME NEW step, t.at # "idle", Alive(t.s), step \in {"next", "retire"},
             step = "retire" => t.last < t.turn,
             task' = [task EXCEPT ![w].at = step, ![w].cursor = last]
      PROVE  Sound(task'[w])
  <2> DEFINE u == [t EXCEPT !.at = step, !.cursor = last]
  <2>1. task'[w] = u
    BY <1>0, <1>1, Zenon DEF TypeOK
  <2>2. /\ u.at = step /\ u.op = t.op /\ u.s = t.s /\ u.first = t.first /\ u.last = t.last
        /\ u.turn = t.turn /\ u.cursor = last
    BY <1>0 DEF Tasks
  <2>3. Durable(t.s, last)
    BY <1>0, <1>1 DEF IInv, CursorSound
  <2> HIDE DEF u, last, t
  <2>4. Sound(u)
    BY <1>0, <1>1, <2>2, <2>3 DEF Sound
  <2> QED
    BY <2>1, <2>4
<1>2. CASE Reload(w)
  <2>1. Alive(t.s) /\ t.at = "locked"
    BY <1>2 DEF Reload, Usable, Open, At
  <2>2. CASE t.op = "end"
    <3>1. t.last < t.turn
      BY <1>0, <2>2 DEF Sound
    <3>2. task' = [task EXCEPT ![w].at = "retire", ![w].cursor = last]
      BY <1>2, <2>2 DEF Reload
    <3> QED
      BY <1>1, <2>1, <3>1, <3>2
  <2>3. CASE t.op # "end"
    <3>1. task' = [task EXCEPT ![w].at = "next", ![w].cursor = last]
      BY <1>2, <2>3 DEF Reload
    <3> QED
      BY <1>1, <2>1, <3>1
  <2> QED
    BY <2>2, <2>3
<1>3. CASE LoadLatest(w)
  <2>1. t.at = "next" /\ t.last < t.turn
    BY <1>3, TaskFields, <1>0, LiveAssumption DEF LoadLatest, LastTurnDone, At
  <2>2. CASE Alive(t.s)
    <3>1. task' = [task EXCEPT ![w].at = "retire", ![w].cursor = last]
      BY <1>3, <2>2 DEF LoadLatest
    <3>2. t.at # "idle" /\ "retire" \in {"next", "retire"}
      BY <2>1
    <3> HIDE DEF t, last
    <3> QED
      BY <1>1, <2>1, <2>2, <3>1, <3>2
  <2>3. CASE ~Alive(t.s)
    <3>1. Ends(w, "next", FALSE)
      BY <1>3, <2>3 DEF LoadLatest, Ends
    <3>2. task'[w] = [t EXCEPT !.at = "leave", !.ok = FALSE] /\ t.at = "next"
      BY <1>0, <3>1, EndsTask
    <3> HIDE DEF t
    <3>3. Sound([t EXCEPT !.at = "leave", !.ok = FALSE])
      BY <1>0, <3>2, EndedSound
    <3> QED
      BY <3>2, <3>3
  <2> QED
    BY <2>2, <2>3
<1> QED
  BY <1>2, <1>3

\* The next turn of a batch follows a stored one.
LEMMA NextTurnSound ==
    ASSUME IInv, NEW w \in Workers, Skip(w) \/ Commit(w)
    PROVE  Sound(task'[w])
<1> DEFINE t == task[w]
<1>0. /\ TypeOK /\ Sound(t) /\ t \in Tasks /\ t.s \in Sessions
      /\ t.first \in Nat /\ t.turn \in Nat /\ t.last \in Nat /\ t.cursor \in Nat
  <2>1. TypeOK /\ Sound(t)
    BY DEF IInv
  <2>2. t \in Tasks
    BY <2>1, Zenon DEF TypeOK
  <2> QED
    BY <2>1, <2>2, TaskFields, LiveAssumption
<1>1. ASSUME t.at # "idle", t.op # "turn",
             t.turn \in Turns => Stored(t.s, t.turn),
             task'[w] = [t EXCEPT !.at = "next", !.turn = t.turn + 1]
      PROVE  Sound(task'[w])
  <2> DEFINE u == [t EXCEPT !.at = "next", !.turn = t.turn + 1]
  <2>1. /\ u.at = "next" /\ u.op = t.op /\ u.s = t.s /\ u.first = t.first /\ u.last = t.last
        /\ u.turn = t.turn + 1 /\ u.cursor = t.cursor
    BY <1>0 DEF Tasks
  <2> HIDE DEF u, t
  <2>2. \A i \in Turns : u.first <= i /\ i < u.turn => Stored(u.s, i)
    <3>1. ASSUME NEW i \in Turns, t.first <= i, i < t.turn + 1
          PROVE  Stored(t.s, i)
      <4>1. i < t.turn \/ i = t.turn
        BY <1>0, <3>1, LiveAssumption DEF Turns
      <4> QED
        BY <1>0, <1>1, <3>1, <4>1 DEF Sound
    <3> QED
      BY <2>1, <3>1
  <2>3. u.op = "end" => u.last < u.turn
    BY <1>0, <2>1 DEF Sound
  <2>4. Sound(u)
    BY <1>0, <1>1, <2>1, <2>2, <2>3 DEF Sound
  <2> QED
    BY <1>1, <2>4 DEF u
<1>2. CASE Skip(w)
  <2>1. t.at = "next" /\ t.op = "finalize" /\ t.turn <= t.cursor
    BY <1>2 DEF Skip, At
  <2>2. t.turn \in Turns => Stored(t.s, t.turn)
    BY <1>0, <2>1 DEF Sound, Durable
  <2>3. task' = [task EXCEPT ![w].turn = t.turn + 1]
    BY <1>2, Zenon DEF Skip
  <2>4. task'[w] = [t EXCEPT !.turn = t.turn + 1]
    BY <1>0, <2>3, Zenon DEF TypeOK
  <2>5. [t EXCEPT !.turn = t.turn + 1] = [t EXCEPT !.at = "next", !.turn = t.turn + 1]
    BY <1>0, <2>1 DEF Tasks
  <2> HIDE DEF t
  <2> QED
    BY <1>1, <2>1, <2>2, <2>4, <2>5
<1>3. CASE Commit(w)
  <2>1. t.at = "commit" /\ t.turn \in Turns /\ Stored(t.s, t.turn)
    BY <1>0, <1>3 DEF Commit, At, Sound, Stored, Spoken
  <2>2. CASE t.op = "turn"
    <3>1. Ends(w, "commit", TRUE)
      BY <1>3, <2>2 DEF Commit, AfterCommit, Ends
    <3>2. task'[w] = [t EXCEPT !.at = "leave", !.ok = TRUE]
      BY <1>0, <3>1, EndsTask
    <3>3. t.turn = t.first /\ t.last = t.first
      BY <1>0, <2>1, <2>2 DEF Sound
    <3>4. \A i \in Turns : t.first <= i /\ i <= t.last => Stored(t.s, i)
      BY <1>0, <2>1, <3>3, LiveAssumption DEF Turns
    <3>5. Sound([t EXCEPT !.at = "leave", !.ok = TRUE])
      BY <1>0, <2>1, <3>4, EndedSound
    <3> QED
      BY <3>2, <3>5
  <2>3. CASE t.op # "turn"
    <3>1. task' = [task EXCEPT ![w].at = "next", ![w].turn = t.turn + 1]
      BY <1>3, <2>3, Zenon DEF Commit, AfterCommit
    <3>2. task'[w] = [t EXCEPT !.at = "next", !.turn = t.turn + 1]
      BY <1>0, <3>1, Zenon DEF TypeOK
    <3> HIDE DEF t
    <3> QED
      BY <1>1, <2>1, <2>3, <3>2
  <2> QED
    BY <2>2, <2>3
<1> QED
  BY <1>2, <1>3

\* Steps that read or write the rows of a turn.
LEMMA RowStepSound ==
    ASSUME IInv, NEW w \in Workers, ReadHistory(w) \/ Insert(w) \/ RecordUsage(w),
           NEW u, u = task'[w]
    PROVE  Sound(u)'
<1>t. PICK t : t = task[w]
  OBVIOUS
<1>0. TypeOK /\ Sound(t) /\ t \in Tasks /\ t.s \in Sessions
  <2>1. TypeOK /\ Sound(t)
    BY <1>t DEF IInv
  <2>2. t \in Tasks
    BY <1>t, <2>1, Zenon DEF TypeOK
  <2> QED
    BY <1>t, <2>1, <2>2, TaskFields
<1>1. Grows
  BY <1>0, HandlerGrows DEF Handler, Handle
<1>2. CASE ReadHistory(w)
  <2> DEFINE known == placed[t.s][t.turn] # {}
             r == [t EXCEPT !.at = "insert", !.known = known, !.high = top]
  <2>1. u = r /\ t.at = "history"
    <3>1. task' = [task EXCEPT ![w].at = "insert", ![w].known = known, ![w].high = top]
      BY <1>t, <1>2, Zenon DEF ReadHistory
    <3> QED
      BY <1>t, <1>0, <1>2, <3>1, Zenon DEF TypeOK, ReadHistory, At
  <2>2. /\ r.at = "insert" /\ r.op = t.op /\ r.s = t.s /\ r.first = t.first /\ r.last = t.last
        /\ r.turn = t.turn /\ r.cursor = t.cursor
    BY <1>0 DEF Tasks
  <2>3. r.known = known
    BY <1>0, Zenon DEF Tasks
  <2>4. r.known => Spoken(r.s, r.turn)
    BY <2>2, <2>3, Zenon DEF Spoken
  <2> HIDE DEF r
  <2>5. Sound(r)
    BY <1>0, <2>1, <2>2, <2>4 DEF Sound
  <2> QED
    BY <1>0, <1>1, <2>1, <2>2, <2>5, SoundGrows
<1>3. CASE Insert(w)
  <2>0. PICK r : r = [t EXCEPT !.at = "usage"]
    OBVIOUS
  <2>1. u = r /\ t.at = "insert"
    <3>1. Goes(w, "insert", "usage")
      BY <1>3, Zenon DEF Insert
    <3> QED
      BY <1>t, <1>0, <2>0, <3>1, GoesTask
  <2>2. /\ r.at = "usage" /\ r.op = t.op /\ r.s = t.s /\ r.first = t.first /\ r.last = t.last
        /\ r.turn = t.turn /\ r.cursor = t.cursor
    BY <1>0, <2>0 DEF Tasks
  <2>3. Spoken(t.s, t.turn)'
    <3>1. t.turn \in Turns
      BY <1>0, <2>1 DEF Sound
    <3>2. CASE t.known
      BY <1>0, <1>1, <2>1, <3>1, <3>2 DEF Sound, Grows
    <3>3. CASE ~t.known
      <4>1. placed' = [placed EXCEPT ![t.s][t.turn] = placed[t.s][t.turn] \cup {t.high + 1}]
        BY <1>t, <1>3, <3>3, Zenon DEF Insert
      <4>2. t.high + 1 \in placed'[t.s][t.turn]
        BY <1>0, <3>1, <4>1 DEF TypeOK
      <4> QED
        BY <4>2 DEF Spoken
    <3> QED
      BY <3>2, <3>3
  <2>4. Sound(t)'
    BY <1>0, <1>1, SoundGrows
  <2>5. Sound(r)'
    BY <2>1, <2>2, <2>3, <2>4 DEF Sound
  <2> QED
    BY <2>1, <2>5
<1>4. CASE RecordUsage(w)
  <2>0. PICK r : r = [t EXCEPT !.at = "commit"]
    OBVIOUS
  <2>1. u = r /\ t.at = "record"
    <3>1. Goes(w, "record", "commit")
      BY <1>4 DEF RecordUsage
    <3> QED
      BY <1>t, <1>0, <2>0, <3>1, GoesTask
  <2>2. /\ r.at = "commit" /\ r.op = t.op /\ r.s = t.s /\ r.first = t.first /\ r.last = t.last
        /\ r.turn = t.turn /\ r.cursor = t.cursor
    BY <1>0, <2>0 DEF Tasks
  <2>3. usage'[t.s][t.turn] > 0
    <3>1. t.turn \in Turns
      BY <1>0, <2>1 DEF Sound
    <3>2. usage[t.s][t.turn] \in Nat
      BY <1>0, <3>1 DEF TypeOK
    <3>3. usage'[t.s][t.turn] = usage[t.s][t.turn] + 1
      BY <1>t, <1>0, <1>4, <3>1 DEF RecordUsage, TypeOK
    <3> QED
      BY <3>2, <3>3
  <2>4. Sound(t)'
    BY <1>0, <1>1, SoundGrows
  <2>5. Sound(r)'
    BY <2>1, <2>2, <2>3, <2>4 DEF Sound
  <2> QED
    BY <2>1, <2>5
<1> QED
  BY <1>2, <1>3, <1>4

\* Handlers keep every task sound.
LEMMA HandlerSound ==
    ASSUME IInv, NEW w \in Workers, Handler(w), NEW v \in Workers
    PROVE  Sound(task[v])'
<1>0. TypeOK /\ Grows /\ Sound(task[v]) /\ task[v].s \in Sessions
  BY HandlerGrows, TaskFields DEF IInv
<1>1. CASE v # w
  <2>1. task'[v] = task[v]
    BY <1>0, <1>1, OthersKept
  <2> DEFINE t == task[v]
  <2>2. PICK u : u = task[v]
    OBVIOUS
  <2>3. Sound(u)'
    BY <1>0, <2>2, SoundGrows
  <2> QED
    BY <2>1, <2>2, <2>3
<1>2. CASE v = w
  <2>1. PICK u : u = task'[w]
    OBVIOUS
  <2>2. task'[w].s \in Sessions
    BY <1>0, TaskTyped, Zenon DEF Handler, Tasks
  <2>3. CASE ReadHistory(w) \/ Insert(w) \/ RecordUsage(w)
    BY <1>2, <2>1, <2>3, RowStepSound
  <2>4. CASE Sound(task'[w])
    BY <1>0, <1>2, <2>1, <2>2, <2>4, SoundGrows
  <2>5. CASE task' = [task EXCEPT ![w] = Rest]
    BY <1>0, <2>4, <2>5, RestSound, Zenon DEF TypeOK
  <2>6. \/ ReadHistory(w) \/ Insert(w) \/ RecordUsage(w)
        \/ Sound(task'[w])
        \/ task' = [task EXCEPT ![w] = Rest]
    <3>1. CASE ReportTurn(w) \/ Finalize(w) \/ End(w)
      BY <3>1, ArrivalSound
    <3>2. CASE Handle(w) \/ Faulty(w)
      BY <3>2, MoveSound, EndSound, CursorLoadedSound, NextTurnSound
         DEF Handle, Faulty, TurnAway, LoadLost, AnswerUnbound, Busy, Leave, Crash, Answers
    <3> QED
      BY <3>1, <3>2 DEF Handler
  <2> QED
    BY <2>3, <2>4, <2>5, <2>6
<1> QED
  BY <1>1, <1>2

\* Time, expiry and lost connections keep the invariant.
LEMMA OutsideSound ==
    ASSUME IInv, Outside
    PROVE  IInv'
<1>1. TypeOK'
  BY OutsideTyped DEF IInv
<1>2. UNCHANGED <<rows, task, acked>>
  BY Zenon DEF Outside, LoseLock, Time, Deadline, BindingExpires, ReceiptExpires, vars
<1>3. RowsSound'
  BY <1>2 DEF IInv, RowsSound, Spoken, rows
<1>4. ASSUME NEW s \in Sessions PROVE CursorSound(s)'
  <2>1. \A n : Durable(s, n) => Durable(s, n)'
    BY <1>2 DEF Durable, Stored, rows
  <2>2. /\ binding'[s] \in {binding[s], Absent}
        /\ receipt'[s] \in {receipt[s], Absent}
    BY DEF IInv, TypeOK, Outside, LoseLock, Time, Deadline, BindingExpires, ReceiptExpires, redis, vars
  <2> QED
    BY <2>1, <2>2 DEF IInv, CursorSound, Alive
<1>5. ASSUME NEW w \in Workers PROVE Sound(task[w])'
  <2>1. Grows
    BY <1>2 DEF Grows, Spoken, rows
  <2>2. PICK u : u = task[w]
    OBVIOUS
  <2>3. Sound(u)'
    BY <2>1, <2>2, SoundGrows, TaskFields DEF IInv
  <2> QED
    BY <1>2, <2>2, <2>3
<1> QED
  BY <1>1, <1>3, <1>4, <1>5 DEF IInv

\* The cursor, the receipt and every task vouch for stored turns only.
THEOREM Invariant == Spec => []IInv
<1>1. IInv /\ [Next]_vars => IInv'
  <2> SUFFICES ASSUME IInv, [Next]_vars PROVE IInv'
    OBVIOUS
  <2>1. ASSUME NEW w \in Workers, Handler(w) PROVE IInv'
    <3>1. TypeOK'
      BY <2>1, HandlerTyped DEF IInv, Sound
    <3> QED
      BY <2>1, <3>1, HandlerRows, HandlerCursor, HandlerSound DEF IInv
  <2>2. CASE Outside
    BY <2>2, OutsideSound
  <2> QED
    BY <2>1, <2>2 DEF Next, Handler, Outside
<1> QED
  BY <1>1, InitSound, PTL DEF Spec

\* Every reachable state is well typed, and a claim is always on the turn
\* behind the cursor.
THEOREM TypeCorrect == Spec => []TypeOK
<1>1. IInv => TypeOK
  BY DEF IInv
<1> QED
  BY <1>1, Invariant, PTL

------------------------------------------------------------------------------
(* The refinement.                                                         *)

\* What TurnLog sees as stored.
Rows == [s \in Sessions |-> {i \in Turns : Stored(s, i)}]

\* Rows are stored one turn at a time, behind those that precede it.
LEMMA HandlerStores ==
    ASSUME IInv, NEW w \in Workers, Handler(w)
    PROVE  \/ Rows' = Rows
           \/ \E s \in Sessions, i \in Turns : Log!Store(s, i)
<1>0. TypeOK /\ Sound(task[w]) /\ task[w].s \in Sessions
  BY TaskFields DEF IInv
<1>1. CASE UNCHANGED rows
  BY <1>1 DEF Rows, Stored, rows
<1>2. CASE Insert(w)
  <2>1. ASSUME NEW s \in Sessions, NEW i \in Turns
        PROVE  Stored(s, i)' <=> Stored(s, i)
    <3>1. UNCHANGED usage
      BY <1>2 DEF Insert
    <3>2. usage[s][i] > 0 => Spoken(s, i) /\ Spoken(s, i)'
      BY <1>0, HandlerGrows DEF IInv, RowsSound, Grows
    <3> QED
      BY <3>1, <3>2 DEF Stored, Spoken
  <2> QED
    BY <2>1 DEF Rows
<1>3. CASE RecordUsage(w)
  <2> DEFINE s == task[w].s
             i == task[w].turn
  <2>1. i \in Turns /\ Durable(s, i - 1) /\ Spoken(s, i) /\ UNCHANGED <<placed, acked>>
    BY <1>0, <1>3 DEF RecordUsage, Goes, At, Sound
  <2>2. /\ usage' = [usage EXCEPT ![s][i] = usage[s][i] + 1]
        /\ usage[s][i] \in Nat
    BY <1>0, <1>3, <2>1, Zenon DEF RecordUsage, TypeOK
  <2> HIDE DEF s, i
  <2>3. /\ usage'[s][i] > 0
        /\ \A r \in Sessions, j \in Turns : r # s \/ j # i => usage'[r][j] = usage[r][j]
    BY <1>0, <2>1, <2>2 DEF TypeOK, s
  <2>4. ASSUME NEW r \in Sessions, NEW j \in Turns
        PROVE  Stored(r, j)' <=> Stored(r, j) \/ (r = s /\ j = i)
    BY <2>1, <2>3 DEF Stored, Spoken
  <2>5. Rows' = [Rows EXCEPT ![s] = Rows[s] \cup {i}]
    <3>1. s \in Sessions
      BY <1>0 DEF s
    <3>2. ASSUME NEW r \in Sessions
          PROVE  Rows'[r] = IF r = s THEN Rows[s] \cup {i} ELSE Rows[r]
      BY <2>1, <2>4 DEF Rows
    <3> QED
      BY <3>1, <3>2 DEF Rows
  <2>6. CASE Stored(s, i)
    <3>1. Rows[s] \cup {i} = Rows[s]
      BY <1>0, <2>1, <2>6 DEF Rows, s
    <3> QED
      BY <2>5, <3>1 DEF Rows
  <2>7. CASE ~Stored(s, i)
    <3>1. i \notin Rows[s] /\ 1 .. i - 1 \subseteq Rows[s]
      BY <1>0, <2>1, <2>7, LiveAssumption DEF Rows, Durable, Turns, s
    <3>2. Log!Store(s, i)
      BY <2>1, <2>5, <3>1 DEF Log!Store, Rows
    <3> QED
      BY <1>0, <2>1, <3>2 DEF s
  <2> QED
    BY <2>6, <2>7
<1>4. Insert(w) \/ RecordUsage(w) \/ UNCHANGED rows
  BY RowsMoves
<1> QED
  BY <1>1, <1>2, <1>3, <1>4

\* What a handler's step adds to the turns that were acknowledged.
LEMMA AckedMoves ==
    ASSUME NEW w \in Workers, Handler(w)
    PROVE  \/ Leave(w) /\ UNCHANGED redis
           \/ AnswerUnbound(w) /\ UNCHANGED redis
           \/ UNCHANGED acked
BY DEF Handler, Handle, Faulty, ReportTurn, Finalize, End, Request, Load, TurnAway,
       AnswerUnbound, LoadLost, Acquire, Busy, Replay, Reload, ReloadFails, ReadLost, Skip,
       Reserve, ReserveRejected, ReserveLost, ReadHistory, NoHistory, Insert, ReadUsage,
       RecordUsage, WriteFails, Commit, CommitRejected, CommitLost, Release, ReleaseLost,
       LoadLatest, Retire, RetireLost, Consume, ConsumeRejected, ConsumeLost, Leave, Crash

\* A turn is acknowledged only when it is stored, and not in the step that
\* stores it.
LEMMA HandlerAcks ==
    ASSUME IInv, NEW w \in Workers, Handler(w)
    PROVE  \/ UNCHANGED acked
           \/ \E s \in Sessions, batch \in SUBSET Turns : Log!Ack(s, batch)
<1> DEFINE t == task[w]
<1>0. /\ TypeOK /\ Sound(t) /\ t.s \in Sessions /\ t.first \in Nat /\ t.last \in 0 .. MaxTurns
      /\ t.op \in {"turn", "finalize", "end"}
  BY TaskFields DEF IInv
<1>1. Batch(w) \in SUBSET Turns
  BY <1>0, LiveAssumption DEF Sound, Batch, Turns
<1>2. ASSUME acked' = [acked EXCEPT ![t.s] = @ \cup Batch(w)], UNCHANGED rows,
             \A i \in Turns : t.first <= i /\ i <= t.last => Stored(t.s, i)
      PROVE  \E s \in Sessions, batch \in SUBSET Turns : Log!Ack(s, batch)
  <2>1. Batch(w) \subseteq Rows[t.s]
    <3>1. ASSUME NEW i \in Batch(w) PROVE i \in Turns /\ Stored(t.s, i)
      BY <1>0, <1>1, <1>2, <3>1, LiveAssumption DEF Batch, Turns
    <3> QED
      BY <1>0, <3>1 DEF Rows
  <2>2. Rows' = Rows
    BY <1>2 DEF Rows, Stored, rows
  <2>3. Log!Ack(t.s, Batch(w))
    BY <1>2, <2>1, <2>2 DEF Log!Ack, Rows
  <2> QED
    BY <1>0, <1>1, <2>3
<1>3. CASE Leave(w)
  <2>1. t.at = "leave" /\ UNCHANGED rows
    BY <1>3 DEF Leave, At
  <2>2. CASE t.ok
    BY <1>0, <1>2, <1>3, <2>1, <2>2 DEF Leave, Sound
  <2>3. CASE ~t.ok
    BY <1>3, <2>3 DEF Leave
  <2> QED
    BY <2>2, <2>3
<1>4. CASE AnswerUnbound(w)
  <2>1. CASE Covered(w)
    <3>1. \A i \in Turns : t.first <= i /\ i <= t.last => Stored(t.s, i)
      <4>1. receipt[t.s] # Absent /\ \A i \in Batch(w) : i <= receipt[t.s]
        BY <2>1 DEF Covered
      <4>2. Durable(t.s, receipt[t.s])
        BY <1>0, <4>1 DEF IInv, CursorSound
      <4>3. ASSUME NEW i \in Turns, t.first <= i, i <= t.last PROVE i \in Batch(w)
        BY <1>0, <4>3, LiveAssumption DEF Batch, Turns
      <4> QED
        BY <4>1, <4>2, <4>3 DEF Durable
    <3>2. acked' = [acked EXCEPT ![t.s] = @ \cup Batch(w)] /\ UNCHANGED rows
      BY <1>4, <2>1 DEF AnswerUnbound
    <3> QED
      BY <1>2, <3>1, <3>2
  <2>2. CASE ~Covered(w)
    BY <1>4, <2>2 DEF AnswerUnbound
  <2> QED
    BY <2>1, <2>2
<1>5. Leave(w) \/ AnswerUnbound(w) \/ UNCHANGED acked
  BY AckedMoves
<1> QED
  BY <1>3, <1>4, <1>5

\* LiveTurns implements the log of turns: stored in order, acknowledged when
\* stored, whatever the faults.
THEOREM TurnsImplementLog == Spec => ImplementsLog
<1>1. Init => Log!Init
  BY LiveAssumption DEF Init, Log!Init, Stored, Turns
<1>2. IInv /\ [Next]_vars => [Log!Next]_(Log!log)
  <2> SUFFICES ASSUME IInv, [Next]_vars PROVE [Log!Next]_(Log!log)
    OBVIOUS
  <2>1. ASSUME NEW w \in Workers, Handler(w) PROVE [Log!Next]_(Log!log)
    <3>1. CASE \E s \in Sessions, i \in Turns : Log!Store(s, i)
      BY <3>1 DEF Log!Next, Log!Turns, Turns
    <3>2. CASE \E s \in Sessions, batch \in SUBSET Turns : Log!Ack(s, batch)
      BY <3>2 DEF Log!Next, Log!Turns, Turns
    <3>3. CASE Rows' = Rows /\ UNCHANGED acked
      BY <3>3 DEF Log!log, Rows
    <3> QED
      BY <2>1, <3>1, <3>2, <3>3, HandlerStores, HandlerAcks
  <2>2. CASE Outside
    <3>1. UNCHANGED <<rows, acked>>
      BY <2>2, Zenon DEF Outside, LoseLock, Time, Deadline, BindingExpires, ReceiptExpires, vars
    <3> QED
      BY <3>1 DEF Log!log, Stored, rows
  <2> QED
    BY <2>1, <2>2 DEF Next, Handler, Outside
<1> QED
  BY <1>1, <1>2, Invariant, PTL DEF Spec, ImplementsLog, Log!Spec

------------------------------------------------------------------------------
(* One request under the lock.                                             *)

\* Between the lock and the answer.
Under(w) == task[w].at \notin {"idle", "load", "lock"}

\* Unless its connection was lost, the lock has one request under it.
OneWriter == \A w \in Workers : Under(w) => lock = w

\* A worker's step ends the request, leaves it under the lock, or is one of
\* those that enter or that the arguments below look at.
LEMMA TaskMoves ==
    ASSUME TypeOK, NEW w \in Workers, Handler(w)
    PROVE  \/ ReportTurn(w) \/ Finalize(w) \/ End(w) \/ Load(w) \/ Acquire(w)
           \/ Reload(w) \/ LoadLatest(w) \/ Retire(w) \/ ReadHistory(w) \/ ReadUsage(w)
           \/ Replay(w) \/ ReloadFails(w) \/ Skip(w) \/ Commit(w) \/ Consume(w) \/ ConsumeRejected(w)
           \/ task'[w] = Rest
           \/ /\ Under(w)
              /\ \E step \in {"history", "usage", "commit", "release"} :
                    task'[w] = [task[w] EXCEPT !.at = step]
           \/ Under(w) /\ task'[w] = [task[w] EXCEPT !.at = "leave", !.ok = FALSE]
<1>1. CASE TurnAway(w) \/ LoadLost(w) \/ Busy(w) \/ Leave(w) \/ Crash(w)
  <2>1. task' = [task EXCEPT ![w] = Rest]
    BY <1>1, Zenon DEF TurnAway, LoadLost, AnswerUnbound, Busy, Leave, Crash, Answers
  <2> QED
    BY <2>1 DEF TypeOK
<1>2. CASE Reserve(w) \/ NoHistory(w) \/ Insert(w) \/ RecordUsage(w) \/ CommitRejected(w)
           \/ CommitLost(w) \/ WriteFails(w)
  <2>1. PICK from \in {"next", "history", "insert", "usage", "record", "commit"},
             step \in {"history", "usage", "commit", "release"} : Goes(w, from, step)
    BY <1>2 DEF Reserve, NoHistory, Insert, RecordUsage, CommitRejected, CommitLost, WriteFails
  <2>2. task'[w] = [task[w] EXCEPT !.at = step] /\ task[w].at = from
    BY <2>1, GoesTask
  <2> QED
    BY <2>2 DEF Under
<1>3. CASE ReserveRejected(w) \/ ReserveLost(w) \/ ReadLost(w) \/ Release(w) \/ ReleaseLost(w)
           \/ RetireLost(w) \/ ConsumeLost(w)
  <2>1. PICK from \in {"next", "locked", "release", "retire", "consume"} : Ends(w, from, FALSE)
    BY <1>3 DEF ReserveRejected, ReserveLost, ReadLost, Release, ReleaseLost, RetireLost, ConsumeLost
  <2>2. task'[w] = [task[w] EXCEPT !.at = "leave", !.ok = FALSE] /\ task[w].at = from
    BY <2>1, EndsTask
  <2> QED
    BY <2>2 DEF Under
<1> QED
  BY <1>1, <1>2, <1>3 DEF Handler, Handle, Faulty

\* A task that moves on is where it moved to.
LEMMA AtMoved ==
    ASSUME NEW t \in Tasks
    PROVE  /\ \A step : [t EXCEPT !.at = step].at = step
           /\ \A ok : /\ [t EXCEPT !.at = "leave", !.ok = ok].at = "leave"
                     /\ [t EXCEPT !.at = "leave", !.ok = ok].ok = ok
BY Zenon DEF Tasks

\* Where a request is after its own step.
LEMMA Arrivals ==
    ASSUME TypeOK, NEW w \in Workers, Handler(w)
    PROVE  /\ At(w, "insert")' => ReadHistory(w)
           /\ At(w, "record")' => ReadUsage(w)
           /\ At(w, "retire")' => Reload(w) \/ LoadLatest(w)
           /\ At(w, "consume")' => Retire(w)
           /\ At(w, "locked")' => Acquire(w)
           /\ At(w, "lock")' => Load(w)
           /\ At(w, "load")' => ReportTurn(w) \/ Finalize(w) \/ End(w)
           /\ At(w, "leave")' /\ task'[w].ok =>
                 Replay(w) \/ ReloadFails(w) \/ Commit(w) \/ Consume(w) \/ ConsumeRejected(w)
           /\ Under(w)' => Under(w) \/ Acquire(w)
<1> DEFINE Looked == {"insert", "record", "retire", "consume", "locked", "lock", "load"}
<1>0. task[w] \in Tasks /\ task = [v \in Workers |-> task[v]]
  BY DEF TypeOK
<1>1. CASE ReportTurn(w) \/ Finalize(w) \/ End(w)
  <2>1. PICK op, s, first, last : Request(w, op, s, first, last)
    BY <1>1, Zenon DEF ReportTurn, Finalize, End
  <2>2. task'[w] = [Rest EXCEPT !.at = "load", !.op = op, !.s = s,
                                !.first = first, !.last = last, !.turn = first]
    BY <1>0, <2>1, Zenon DEF Request
  <2>3. task'[w].at = "load"
    BY <2>2 DEF Rest
  <2> QED
    BY <1>1, <2>3 DEF At, Under
<1>2. ASSUME NEW from, NEW step, Goes(w, from, step)
      PROVE  task'[w].at = step /\ task[w].at = from
  <2>1. task'[w] = [task[w] EXCEPT !.at = step] /\ task[w].at = from
    BY <1>2, GoesTask
  <2> QED
    BY <2>1, AtMoved, <1>0
<1>3. ASSUME NEW from, NEW ok, Ends(w, from, ok)
      PROVE  task'[w].at = "leave" /\ task[w].at = from
  <2>1. task'[w] = [task[w] EXCEPT !.at = "leave", !.ok = ok] /\ task[w].at = from
    BY <1>3, EndsTask
  <2> QED
    BY <2>1, AtMoved, <1>0
<1>4. CASE Load(w) \/ Acquire(w) \/ Retire(w) \/ ReadUsage(w)
  <2>1. CASE Load(w)
    BY <1>2, <2>1 DEF Load, At, Under
  <2>2. CASE Acquire(w)
    BY <1>2, <2>2 DEF Acquire, At, Under
  <2>3. CASE Retire(w)
    BY <1>2, <2>3 DEF Retire, At, Under
  <2>4. CASE ReadUsage(w)
    <3>1. PICK step \in {"commit", "record"} : Goes(w, "usage", step)
      BY <2>4 DEF ReadUsage
    <3>2. task'[w].at = step /\ task[w].at = "usage"
      BY <1>2, <3>1
    <3> QED
      BY <2>4, <3>2 DEF At, Under
  <2> QED
    BY <1>4, <2>1, <2>2, <2>3, <2>4
<1>5. CASE Replay(w) \/ ReloadFails(w) \/ Consume(w) \/ ConsumeRejected(w)
  <2>1. task'[w].at = "leave" /\ (task[w].at = "locked" \/ task[w].at = "consume")
    <3>1. CASE Replay(w)
      BY <1>3, <3>1 DEF Replay
    <3>2. CASE ReloadFails(w)
      BY <1>3, <3>2 DEF ReloadFails
    <3>3. CASE Consume(w)
      BY <1>3, <3>3 DEF Consume
    <3>4. CASE ConsumeRejected(w)
      BY <1>3, <3>4 DEF ConsumeRejected
    <3> QED
      BY <1>5, <3>1, <3>2, <3>3, <3>4
  <2> QED
    BY <1>5, <2>1 DEF At, Under
<1>6. CASE ReadHistory(w)
  <2>1. task'[w].at = "insert" /\ task[w].at = "history"
    BY <1>0, <1>6 DEF ReadHistory, At, Tasks
  <2> QED
    BY <1>6, <2>1 DEF At, Under
<1>7. CASE Reload(w)
  <2>1. task'[w].at \in {"retire", "next"} /\ task[w].at = "locked"
    BY <1>0, <1>7 DEF Reload, At, Tasks
  <2> QED
    BY <1>7, <2>1 DEF At, Under
<1>8. CASE LoadLatest(w)
  <2>1. task[w].at = "next"
    BY <1>8 DEF LoadLatest, At
  <2>2. task'[w].at = "retire" \/ (task'[w].at = "leave" /\ task'[w].ok = FALSE)
    BY <1>0, <1>8, Zenon DEF LoadLatest, Tasks
  <2> QED
    BY <1>8, <2>1, <2>2 DEF At, Under
<1>9. CASE Skip(w)
  <2>1. task'[w].at = "next" /\ task[w].at = "next"
    BY <1>0, <1>9 DEF Skip, At, Tasks
  <2> QED
    BY <2>1 DEF At, Under
<1>10. CASE Commit(w)
  <2>1. task'[w].at \in {"leave", "next"} /\ task[w].at = "commit"
    BY <1>0, <1>10 DEF Commit, AfterCommit, At, Tasks
  <2> QED
    BY <1>10, <2>1 DEF At, Under
<1>11. CASE task'[w] = Rest
  BY <1>11 DEF Rest, At, Under
<1>12. ASSUME NEW step \in {"history", "usage", "commit", "release"}, Under(w),
              task'[w] = [task[w] EXCEPT !.at = step]
       PROVE  task'[w].at = step
  BY <1>0, <1>12, AtMoved
<1>13. ASSUME task'[w] = [task[w] EXCEPT !.at = "leave", !.ok = FALSE]
       PROVE  task'[w].at = "leave" /\ task'[w].ok = FALSE
  BY <1>0, <1>13, AtMoved
<1>14. CASE Under(w) /\ \E step \in {"history", "usage", "commit", "release"} :
                           task'[w] = [task[w] EXCEPT !.at = step]
  BY <1>12, <1>14 DEF At
<1>15. CASE Under(w) /\ task'[w] = [task[w] EXCEPT !.at = "leave", !.ok = FALSE]
  BY <1>13, <1>15 DEF At
<1> QED
  BY <1>1, <1>4, <1>5, <1>6, <1>7, <1>8, <1>9, <1>10, <1>11, <1>14, <1>15, TaskMoves

\* What happens to the lock: taken when it is free, given back by its owner.
LEMMA LockMoves ==
    ASSUME NEW w \in Workers, Handler(w)
    PROVE  /\ UNCHANGED dropped
           /\ \/ Acquire(w)
              \/ UNCHANGED lock
              \/ Unlocked(w) /\ task' = [task EXCEPT ![w] = Rest]
BY Zenon DEF Handler, Handle, Faulty, ReportTurn, Finalize, End, Request, Load, TurnAway,
       AnswerUnbound, LoadLost, Busy, Replay, Reload, ReloadFails, ReadLost, Skip,
       Reserve, ReserveRejected, ReserveLost, ReadHistory, NoHistory, Insert, ReadUsage,
       RecordUsage, WriteFails, Commit, CommitRejected, CommitLost, Release, ReleaseLost,
       LoadLatest, Retire, RetireLost, Consume, ConsumeRejected, ConsumeLost, Leave, Crash,
       Acquire, redis, rows

\* A handler that is under the lock keeps all others out.
LEMMA OneWriterStep ==
    ASSUME TypeOK, OneWriter, NEW w \in Workers, Handler(w)
    PROVE  OneWriter'
<1> SUFFICES ASSUME NEW v \in Workers, Under(v)' PROVE lock' = v
  BY DEF OneWriter
<1>1. CASE v # w
  <2>1. lock = v
    BY <1>1, OthersKept DEF OneWriter, Under
  <2>2. lock' = lock
    BY <1>1, <2>1, LockMoves, LiveAssumption DEF Acquire, Unlocked
  <2> QED
    BY <2>1, <2>2
<1>2. CASE v = w
  <2>1. CASE Acquire(w)
    BY <1>2, <2>1 DEF Acquire
  <2>2. CASE ~Acquire(w)
    <3>1. Under(w)
      BY <1>2, <2>2, Arrivals
    <3>2. task'[w] # Rest
      BY <1>2 DEF Under, Rest
    <3>3. lock' = lock
      BY <2>2, <3>2, LockMoves DEF TypeOK
    <3> QED
      BY <1>2, <3>1, <3>3 DEF OneWriter
  <2> QED
    BY <2>1, <2>2
<1> QED
  BY <1>1, <1>2


------------------------------------------------------------------------------
(* The lesson reads back what was said.                                    *)

\* What w read of the rows before it writes is still so.
ReadIsCurrent(w) ==
    /\ At(w, "insert") =>
          /\ task[w].high = top
          /\ task[w].known \/ placed[task[w].s][task[w].turn] = {}
    /\ At(w, "record") => usage[task[w].s][task[w].turn] = 0

\* A pair is stored behind every turn before its own, and counted by top.
PairsBehind ==
    \A s \in Sessions, i \in Turns : placed[s][i] # {} => Durable(s, i - 1)
PairsCounted == \A s \in Sessions, i \in Turns : \A p \in placed[s][i] : p <= top

\* Only what was said is inserted.
InsertsSpeech(w) == At(w, "insert") => task[w].turn \notin Silent

HistoryInv ==
    /\ PairsBehind
    /\ PairsCounted
    /\ \A w \in Workers : InsertsSpeech(w)
    /\ ~dropped => OneWriter /\ \A w \in Workers : ReadIsCurrent(w)
    /\ HistoryReadsBack

\* What is inserted was said, and while one writer is under the lock what it
\* read stays so.
LEMMA ReadingStep ==
    ASSUME IInv, NEW w \in Workers, Handler(w), NEW v \in Workers, InsertsSpeech(v)
    PROVE  /\ InsertsSpeech(v)'
           /\ OneWriter /\ ReadIsCurrent(v) => ReadIsCurrent(v)'
<1>0. TypeOK /\ Sound(task[w])
  BY DEF IInv
<1>1. CASE v # w
  <2>1. task'[v] = task[v]
    BY <1>0, <1>1, OthersKept
  <2>2. InsertsSpeech(v)'
    BY <2>1 DEF InsertsSpeech, At
  <2>3. ASSUME OneWriter, ReadIsCurrent(v), At(v, "insert") \/ At(v, "record")
        PROVE  ReadIsCurrent(v)'
    <3>1. ~Under(w)
      BY <1>1, <2>3 DEF OneWriter, Under, At
    <3>2. UNCHANGED rows
      BY <3>1, RowsMoves DEF Insert, RecordUsage, Goes, At, Under
    <3> QED
      BY <2>1, <2>3, <3>2 DEF ReadIsCurrent, At, rows
  <2>4. ~At(v, "insert") /\ ~At(v, "record") => ReadIsCurrent(v)'
    BY <2>1 DEF ReadIsCurrent, At
  <2> QED
    BY <2>2, <2>3, <2>4
<1>2. CASE v = w
  <2>0. task[w] \in Tasks /\ task = [x \in Workers |-> task[x]]
    BY <1>0 DEF TypeOK
  <2>1. CASE At(w, "insert")'
    <3> DEFINE t == task[w]
               known == placed[t.s][t.turn] # {}
    <3>1. ReadHistory(w)
      BY <1>0, <2>1, Arrivals
    <3>2. task'[w] = [t EXCEPT !.at = "insert", !.known = known, !.high = top]
      BY <2>0, <3>1, Zenon DEF ReadHistory
    <3>3. /\ task'[w].at = "insert" /\ task'[w].s = t.s /\ task'[w].turn = t.turn
          /\ task'[w].high = top
      BY <2>0, <3>2 DEF Tasks
    <3>4. task'[w].known = known
      BY <2>0, <3>2, Zenon DEF Tasks
    <3>5. t.turn \notin Silent /\ UNCHANGED rows
      BY <3>1, Zenon DEF ReadHistory
    <3>6. task'[w].known \/ placed[t.s][t.turn] = {}
      BY <3>4, Zenon
    <3> HIDE DEF t, known
    <3> QED
      BY <1>2, <3>3, <3>5, <3>6 DEF InsertsSpeech, ReadIsCurrent, At, rows
  <2>2. CASE At(w, "record")'
    <3>1. ReadUsage(w)
      BY <1>0, <2>2, Arrivals
    <3>2. UNCHANGED rows /\ Goes(w, "usage", IF usage[task[w].s][task[w].turn] > 0 THEN "commit" ELSE "record")
      BY <3>1, Zenon DEF ReadUsage
    <3>3. PICK step : /\ step = IF usage[task[w].s][task[w].turn] > 0 THEN "commit" ELSE "record"
                      /\ Goes(w, "usage", step)
      BY <3>2
    <3>4. task'[w] = [task[w] EXCEPT !.at = step]
      BY <1>0, <3>3, GoesTask
    <3>5. task'[w].at = step /\ task'[w].s = task[w].s /\ task'[w].turn = task[w].turn
      BY <2>0, <3>4 DEF Tasks
    <3>6. ~(usage[task[w].s][task[w].turn] > 0)
      BY <2>2, <3>3, <3>5 DEF At
    <3>7. usage[task[w].s][task[w].turn] \in Nat
      <4>1. task[w].turn \in Turns /\ task[w].s \in Sessions
        BY <1>0, <3>3, TaskFields DEF Sound, Goes, At
      <4> QED
        BY <1>0, <4>1 DEF TypeOK
    <3>8. usage[task[w].s][task[w].turn] = 0
      BY <3>6, <3>7
    <3> QED
      BY <1>2, <2>2, <3>2, <3>5, <3>8 DEF InsertsSpeech, ReadIsCurrent, At, rows
  <2>3. CASE ~At(w, "insert")' /\ ~At(w, "record")'
    BY <1>2, <2>3 DEF InsertsSpeech, ReadIsCurrent
  <2> QED
    BY <2>1, <2>2, <2>3
<1> QED
  BY <1>1, <1>2


\* The pair a request inserts is stored behind the turns before its own.
LEMMA PairsBehindStep ==
    ASSUME IInv, PairsBehind, NEW w \in Workers, Handler(w)
    PROVE  PairsBehind'
<1> SUFFICES ASSUME NEW s \in Sessions, NEW i \in Turns, placed'[s][i] # {}
             PROVE  Durable(s, i - 1)'
  BY DEF PairsBehind
<1>0. TypeOK /\ Sound(task[w])
  BY DEF IInv
<1>1. Durable(s, i - 1) => Durable(s, i - 1)'
  BY <1>0, HandlerGrows, StoredGrows
<1>2. CASE placed[s][i] # {}
  BY <1>1, <1>2 DEF PairsBehind
<1>3. CASE placed[s][i] = {}
  <2>1. Insert(w)
    BY <1>3, RowsMoves DEF RecordUsage, rows
  <2>2. placed' = [placed EXCEPT ![task[w].s][task[w].turn] =
                      placed[task[w].s][task[w].turn] \cup {task[w].high + 1}]
    BY <1>3, <2>1, Zenon DEF Insert
  <2>3. s = task[w].s /\ i = task[w].turn
    BY <1>0, <1>3, <2>2 DEF TypeOK
  <2>4. Durable(task[w].s, task[w].turn - 1)
    BY <1>0, <2>1 DEF Insert, Goes, At, Sound
  <2> QED
    BY <1>1, <2>3, <2>4
<1> QED
  BY <1>2, <1>3

\* What an insert does: nothing, or one pair above what its writer read.
LEMMA Inserted ==
    ASSUME IInv, NEW w \in Workers, Insert(w)
    PROVE  /\ UNCHANGED <<usage, dropped>>
           /\ task[w].s \in Sessions /\ task[w].turn \in Turns /\ task[w].high \in Nat
           /\ \/ UNCHANGED <<placed, top>>
              \/ /\ ~task[w].known
                 /\ top' \in Nat /\ top' >= top /\ top' >= task[w].high + 1
                 /\ \A s \in Sessions, i \in Turns :
                       placed'[s][i] = IF s = task[w].s /\ i = task[w].turn
                                       THEN placed[s][i] \cup {task[w].high + 1}
                                       ELSE placed[s][i]
<1> DEFINE t == task[w]
<1>0. TypeOK /\ t.s \in Sessions /\ t.turn \in Turns /\ t.high \in Nat
  BY TaskFields DEF IInv, Insert, Goes, At, Sound
<1>1. UNCHANGED <<usage, dropped>>
  BY Zenon DEF Insert
<1>2. CASE t.known
  BY <1>0, <1>1, <1>2, Zenon DEF Insert
<1>3. CASE ~t.known
  <2>1. /\ placed' = [placed EXCEPT ![t.s][t.turn] = placed[t.s][t.turn] \cup {t.high + 1}]
        /\ top' = IF t.high + 1 > top THEN t.high + 1 ELSE top
    BY <1>3, Zenon DEF Insert
  <2> HIDE DEF t
  <2>2. top' \in Nat /\ top' >= top /\ top' >= t.high + 1
    BY <1>0, <2>1 DEF TypeOK
  <2>3. ASSUME NEW s \in Sessions, NEW i \in Turns
        PROVE  placed'[s][i] = IF s = t.s /\ i = t.turn
                               THEN placed[s][i] \cup {t.high + 1} ELSE placed[s][i]
    BY <1>0, <2>1 DEF TypeOK
  <2> USE DEF t
  <2> QED
    BY <1>0, <1>1, <1>3, <2>2, <2>3
<1> QED
  BY <1>2, <1>3

\* top counts every position.
LEMMA PairsCountedStep ==
    ASSUME IInv, PairsCounted, NEW w \in Workers, Handler(w)
    PROVE  PairsCounted'
<1> SUFFICES ASSUME NEW s \in Sessions, NEW i \in Turns, NEW p \in placed'[s][i]
             PROVE  p <= top'
  BY DEF PairsCounted
<1>1. CASE UNCHANGED <<placed, top>>
  BY <1>1 DEF PairsCounted
<1>2. CASE ~UNCHANGED <<placed, top>>
  <2>1. Insert(w)
    BY <1>2, RowsMoves DEF RecordUsage, rows
  <2>2. p \in placed[s][i] \/ p = task[w].high + 1
    <3>1. placed'[s][i] = IF s = task[w].s /\ i = task[w].turn
                          THEN placed[s][i] \cup {task[w].high + 1} ELSE placed[s][i]
      BY <1>2, <2>1, Inserted
    <3> QED
      BY <3>1, Zenon
  <2>5. top' \in Nat /\ top' >= top /\ top' >= task[w].high + 1 /\ task[w].high \in Nat
    BY <1>2, <2>1, Inserted
  <2>6. top \in Nat
    BY DEF IInv, TypeOK
  <2>3. CASE p \in placed[s][i]
    <3>1. p <= top /\ p \in Nat
      BY <2>3 DEF PairsCounted, IInv, TypeOK
    <3> QED
      BY <2>5, <2>6, <3>1
  <2>4. CASE p = task[w].high + 1
    BY <2>5, <2>4
  <2> QED
    BY <2>2, <2>3, <2>4
<1> QED
  BY <1>1, <1>2

\* A writer alone inserts above every pair, and behind the turns before.
LEMMA InsertReadsBack ==
    ASSUME IInv, HistoryInv, NEW w \in Workers, Insert(w)
    PROVE  HistoryReadsBack'
<1> SUFFICES ASSUME ~dropped' PROVE HistoryReadsBack'
  BY DEF HistoryReadsBack
<1> DEFINE t == task[w]
<1>0. /\ ~dropped /\ UNCHANGED usage
      /\ t.s \in Sessions /\ t.turn \in Turns /\ t.high \in Nat
  BY Inserted
<1>1. CASE UNCHANGED <<placed, top>>
  BY <1>0, <1>1 DEF HistoryInv, HistoryReadsBack
<1>2. CASE ~UNCHANGED <<placed, top>>
  <2>1. /\ ~t.known
        /\ \A s \in Sessions, i \in Turns :
              placed'[s][i] = IF s = t.s /\ i = t.turn
                              THEN placed[s][i] \cup {t.high + 1} ELSE placed[s][i]
    BY <1>2, Inserted
  <2>2. t.high = top /\ placed[t.s][t.turn] = {} /\ t.turn \notin Silent
    BY <1>0, <2>1 DEF HistoryInv, ReadIsCurrent, InsertsSpeech, Insert, Goes
  <2> HIDE DEF t
  <2>3. ASSUME NEW s \in Sessions, NEW i \in Turns
        PROVE  placed'[s][i] = IF s = t.s /\ i = t.turn THEN {top + 1} ELSE placed[s][i]
    BY <2>1, <2>2
  <2>4. ASSUME NEW s \in Sessions, NEW i \in Turns, NEW p \in placed[s][i]
        PROVE  p \in Nat /\ p < top + 1
    <3>1. p \in Nat /\ top \in Nat
      BY DEF IInv, TypeOK
    <3>2. p <= top
      BY DEF HistoryInv, PairsCounted
    <3> QED
      BY <3>1, <3>2
  <2>5. ASSUME NEW i \in Turns, t.turn < i
        PROVE  placed[t.s][i] = {}
    <3>1. ~Stored(t.s, t.turn)
      BY <2>2 DEF Stored
    <3>2. t.turn <= i - 1
      BY <1>0, <2>5, LiveAssumption DEF Turns
    <3>3. ~Durable(t.s, i - 1)
      BY <1>0, <3>1, <3>2 DEF Durable
    <3> QED
      BY <1>0, <3>3 DEF HistoryInv, PairsBehind
  <2>6. \A s \in Sessions, i \in Turns : usage'[s][i] <= 1
    BY <1>0 DEF HistoryInv, HistoryReadsBack
  <2>7. ASSUME NEW s \in Sessions, NEW i \in Turns, NEW p \in placed'[s][i], NEW q \in placed'[s][i]
        PROVE  p = q
    BY <1>0, <2>3 DEF HistoryInv, HistoryReadsBack
  <2>8. ASSUME NEW s \in Sessions, NEW r \in Sessions, NEW i \in Turns, NEW j \in Turns,
               NEW p \in placed'[s][i], NEW q \in placed'[r][j]
        PROVE  (p = q => s = r /\ i = j) /\ (s = r /\ i < j => p < q)
    <3>1. CASE s = t.s /\ i = t.turn
      <4>1. p = top + 1
        BY <2>3, <3>1
      <4>2. CASE r = t.s /\ j = t.turn
        BY <3>1, <4>2, LiveAssumption DEF Turns
      <4>3. CASE ~(r = t.s /\ j = t.turn)
        <5>1. q \in placed[r][j]
          BY <2>3, <4>3
        <5>2. q \in Nat /\ q < top + 1
          BY <2>4, <5>1
        <5>3. ~(s = r /\ i < j)
          BY <2>5, <3>1, <5>1
        <5> QED
          BY <4>1, <5>2, <5>3
      <4> QED
        BY <4>2, <4>3
    <3>2. CASE ~(s = t.s /\ i = t.turn)
      <4>1. p \in placed[s][i] /\ p \in Nat /\ p < top + 1
        BY <2>3, <2>4, <3>2
      <4>2. CASE r = t.s /\ j = t.turn
        <5>1. q = top + 1
          BY <2>3, <4>2
        <5> QED
          BY <4>1, <5>1
      <4>3. CASE ~(r = t.s /\ j = t.turn)
        <5>1. q \in placed[r][j]
          BY <2>3, <4>3
        <5> QED
          BY <1>0, <4>1, <5>1 DEF HistoryInv, HistoryReadsBack
      <4> QED
        BY <4>2, <4>3
    <3> QED
      BY <3>1, <3>2
  <2> QED
    BY <2>6, <2>7, <2>8, Zenon DEF HistoryReadsBack
<1> QED
  BY <1>1, <1>2

\* A writer alone records the usage of a turn that has none.
LEMMA RecordReadsBack ==
    ASSUME IInv, HistoryInv, NEW w \in Workers, RecordUsage(w)
    PROVE  HistoryReadsBack'
<1> SUFFICES ASSUME ~dropped' PROVE HistoryReadsBack'
  BY DEF HistoryReadsBack
<1>0. /\ ~dropped /\ UNCHANGED placed
      /\ usage' = [usage EXCEPT ![task[w].s][task[w].turn] = usage[task[w].s][task[w].turn] + 1]
      /\ At(w, "record")
  BY Zenon DEF RecordUsage, Goes
<1>1. usage[task[w].s][task[w].turn] = 0
  BY <1>0 DEF HistoryInv, ReadIsCurrent
<1>2. ASSUME NEW s \in Sessions, NEW i \in Turns
      PROVE  usage'[s][i] <= 1
  <2>1. usage[s][i] <= 1 /\ usage[s][i] \in Nat
    BY <1>0 DEF HistoryInv, HistoryReadsBack, IInv, TypeOK
  <2>2. usage'[s][i] = usage[s][i] \/ usage'[s][i] = 0 + 1
    BY <1>0, <1>1 DEF IInv, TypeOK
  <2> QED
    BY <2>1, <2>2
<1>3. /\ \A s \in Sessions, i \in Turns : \A p, q \in placed[s][i] : p = q
      /\ \A s, r \in Sessions, i, j \in Turns :
            \A p \in placed[s][i], q \in placed[r][j] :
                /\ p = q => s = r /\ i = j
                /\ s = r /\ i < j => p < q
  BY <1>0, Zenon DEF HistoryInv, HistoryReadsBack
<1> QED
  <2>1. \A s \in Sessions, i \in Turns : \A p, q \in placed'[s][i] : p = q
    BY <1>0, <1>3
  <2>2. \A s, r \in Sessions, i, j \in Turns :
            \A p \in placed'[s][i], q \in placed'[r][j] :
                /\ p = q => s = r /\ i = j
                /\ s = r /\ i < j => p < q
    BY <1>0, <1>3
  <2>3. \A s \in Sessions, i \in Turns : usage'[s][i] <= 1
    BY <1>2
  <2> QED
    BY <2>1, <2>2, <2>3, Zenon DEF HistoryReadsBack

\* HistoryInv is an invariant.
LEMMA HistoryKept ==
    ASSUME IInv, HistoryInv, [Next]_vars
    PROVE  HistoryInv'
<1>1. ASSUME NEW w \in Workers, Handler(w)
      PROVE  HistoryInv'
  <2>1. PairsBehind' /\ PairsCounted'
    BY <1>1, PairsBehindStep, PairsCountedStep DEF HistoryInv
  <2>2. \A v \in Workers : InsertsSpeech(v)'
    BY <1>1, ReadingStep DEF HistoryInv
  <2>3. UNCHANGED dropped
    BY <1>1, LockMoves
  <2>4. ~dropped => OneWriter'
    BY <1>1, OneWriterStep DEF HistoryInv, IInv
  <2>5. ~dropped => \A v \in Workers : ReadIsCurrent(v)'
    BY <1>1, ReadingStep DEF HistoryInv
  <2>6. HistoryReadsBack'
    <3>1. CASE Insert(w)
      BY <3>1, InsertReadsBack
    <3>2. CASE RecordUsage(w)
      BY <3>2, RecordReadsBack
    <3>3. CASE UNCHANGED rows
      BY <2>3, <3>3 DEF HistoryInv, HistoryReadsBack, rows
    <3> QED
      BY <1>1, <3>1, <3>2, <3>3, RowsMoves
  <2> QED
    BY <2>1, <2>2, <2>3, <2>4, <2>5, <2>6 DEF HistoryInv
<1>2. CASE Outside
  <2>1. UNCHANGED <<rows, task>>
    BY <1>2, Zenon DEF Outside, LoseLock, Time, Deadline, BindingExpires, ReceiptExpires, vars
  <2>2. dropped' \/ UNCHANGED <<lock, dropped>>
    BY <1>2, Zenon DEF Outside, LoseLock, Time, Deadline, BindingExpires, ReceiptExpires, vars
  <2>3. PairsBehind' /\ PairsCounted' /\ \A v \in Workers : InsertsSpeech(v)'
    BY <2>1 DEF HistoryInv, PairsBehind, PairsCounted, InsertsSpeech, At, Durable, Stored, rows
  <2>4. ~dropped' => OneWriter' /\ \A v \in Workers : ReadIsCurrent(v)'
    BY <2>1, <2>2 DEF HistoryInv, OneWriter, Under, ReadIsCurrent, At, rows
  <2>5. HistoryReadsBack'
    BY <2>1, <2>2 DEF HistoryInv, HistoryReadsBack, rows
  <2> QED
    BY <2>3, <2>4, <2>5 DEF HistoryInv
<1> QED
  BY <1>1, <1>2 DEF Next, Handler, Outside

\* HistoryReadsBack: while no lock was lost the lesson reads back one pair and
\* one usage row per turn, in the order of the turns.
THEOREM LessonReadsBack == Spec => []HistoryReadsBack
<1>1. Init => HistoryInv
  <2> SUFFICES ASSUME Init PROVE HistoryInv
    OBVIOUS
  <2>1. \A w \in Workers : task[w].at = "idle"
    BY DEF Init, Rest
  <2>2. \A s \in Sessions, i \in Turns : placed[s][i] = {} /\ usage[s][i] = 0
    BY DEF Init
  <2> QED
    BY <2>1, <2>2 DEF HistoryInv, PairsBehind, PairsCounted, InsertsSpeech, OneWriter, Under,
                      ReadIsCurrent, At, HistoryReadsBack
<1>2. IInv /\ HistoryInv /\ [Next]_vars => HistoryInv'
  BY HistoryKept
<1>3. HistoryInv => HistoryReadsBack
  BY DEF HistoryInv
<1> QED
  BY <1>1, <1>2, <1>3, Invariant, PTL DEF Spec

------------------------------------------------------------------------------
(* Retirement covers what was acknowledged.                                *)

\* The cursor of a session in use has reached all that the session vouches for.
Reached(s, i) == Alive(s) => i <= binding[s].last
SessionReached(s) ==
    /\ receipt[s] # Absent => Reached(s, receipt[s])
    /\ \A i \in acked[s] : Reached(s, i)
    /\ s \in consumed => ~Alive(s)

\* So it has all that a request has in hand; and a retirement covers its batch.
InHand(t) == t.first .. t.last
TaskReached(t) ==
    /\ Reached(t.s, t.cursor)
    /\ \A i \in Turns : t.first <= i /\ i < t.turn => Reached(t.s, i)
    /\ t.at \in {"load", "lock", "locked"} => t.turn = t.first
    /\ t.at \in {"retire", "consume"} => \A i \in InHand(t) : i <= t.cursor
    /\ t.at = "leave" /\ t.ok => \A i \in InHand(t) : Reached(t.s, i)

\* While the lock was not lost, a retirement holds the latest cursor of a
\* session that nobody else retires.
Vouched(s, i) == s \in consumed /\ receipt[s] # Absent => i <= receipt[s]
RetiresLatest(t) ==
    /\ t.at \in {"retire", "consume"} =>
          /\ t.s \notin consumed
          /\ Alive(t.s) => t.cursor = binding[t.s].last
    /\ t.at = "consume" /\ receipt[t.s] # Absent => t.cursor <= receipt[t.s]
    /\ t.at = "leave" /\ t.ok => \A i \in InHand(t) : Vouched(t.s, i)

RetirementInv ==
    /\ \A s \in Sessions : SessionReached(s)
    /\ \A w \in Workers : TaskReached(task[w])
    /\ ~dropped =>
          /\ OneWriter
          /\ \A w \in Workers : RetiresLatest(task[w])
          /\ \A s \in Sessions : \A i \in acked[s] : Vouched(s, i)
\* Cursors only advance, and a binding that is gone does not come back.
CursorsGrow ==
    \A s \in Sessions :
        Alive(s)' =>
            /\ Alive(s)
            /\ binding[s].last \in Nat /\ binding'[s].last \in Nat
            /\ binding[s].last <= binding'[s].last

\* A handler that writes to Redis is under the lock; it retires or consumes
\* the session where its request is.
LEMMA RetireMoves ==
    ASSUME NEW w \in Workers, Handler(w)
    PROVE  /\ ~Under(w) => UNCHANGED redis
           /\ \/ UNCHANGED <<receipt, consumed>>
              \/ Receipted(w) /\ At(w, "retire") /\ UNCHANGED <<binding, consumed>>
              \/ Deleted(w) /\ At(w, "consume") /\ Alive(task[w].s) /\ UNCHANGED receipt
BY Zenon DEF Handler, Handle, Faulty, ReportTurn, Finalize, End, Request, Load, TurnAway,
       AnswerUnbound, LoadLost, Acquire, Busy, Replay, Reload, ReloadFails, ReadLost, Skip,
       Reserve, ReserveRejected, ReserveLost, ReadHistory, NoHistory, Insert, ReadUsage,
       RecordUsage, WriteFails, Commit, CommitRejected, CommitLost, Release, ReleaseLost, LoadLatest,
       Retire, RetireLost, Consume, ConsumeRejected, ConsumeLost, Leave, Crash, Goes, Ends, At,
       Writing, Under, redis

\* A handler's step advances cursors or leaves them.
LEMMA HandlerAdvances ==
    ASSUME IInv, NEW w \in Workers, Handler(w)
    PROVE  CursorsGrow
<1> SUFFICES ASSUME NEW s \in Sessions, Alive(s)'
             PROVE  /\ Alive(s)
                    /\ binding[s].last \in Nat /\ binding'[s].last \in Nat
                    /\ binding[s].last <= binding'[s].last
  BY DEF CursorsGrow
<1>0. /\ TypeOK /\ binding = [r \in Sessions |-> binding[r]] /\ task[w].s \in Sessions
      /\ Alive(s) => binding[s].last \in Nat
  BY TaskFields, LiveAssumption DEF IInv, TypeOK, Alive, Bindings
<1>1. CASE UNCHANGED binding
  BY <1>0, <1>1 DEF Alive
<1>2. CASE Claimed(w) /\ Reservable(w)
  <2>1. binding[task[w].s] \in Bindings
    BY <1>0, <1>2 DEF Reservable, Alive, TypeOK
  <2>2. Alive(s) /\ binding'[s].last = binding[s].last
    BY <1>0, <1>2, <2>1 DEF Claimed, Reservable, Alive, Bindings
  <2> QED
    BY <1>0, <2>2
<1>3. CASE Advanced(w) /\ Owns(w) /\ At(w, "commit")
  <2>1. CASE s # task[w].s
    BY <1>0, <1>3, <2>1 DEF Advanced, Alive
  <2>2. CASE s = task[w].s
    <3>1. /\ Unclaimed(binding[s]) \in Bindings /\ binding[s] \in Bindings
          /\ task[w].turn \in 0 .. MaxTurns /\ task[w].turn \in {0, binding[s].last + 1}
      BY <1>0, <1>3, <2>2, OwnsTyped
    <3>2. binding'[s].last = task[w].turn
      BY <1>0, <1>3, <2>2, <3>1 DEF Advanced, Bindings
    <3>3. Alive(s)
      BY <1>3, <2>2 DEF Owns
    <3>4. task[w].turn # 0
      BY <1>3, LiveAssumption DEF IInv, Sound, At, Turns
    <3> QED
      BY <1>0, <3>1, <3>2, <3>3, <3>4
  <2> QED
    BY <2>1, <2>2
<1>4. CASE Release(w)
  <2>1. Owns(w) => Unclaimed(binding[task[w].s]).last = binding[task[w].s].last
    BY <1>0, OwnsTyped, UnclaimedTyped
  <2>2. Alive(s) /\ binding'[s].last = binding[s].last
    BY <1>0, <1>4, <2>1 DEF Release, Owns, Alive
  <2> QED
    BY <1>0, <2>2
<1>5. CASE Deleted(w)
  BY <1>0, <1>5 DEF Deleted, Alive
<1> QED
  BY <1>1, <1>2, <1>3, <1>4, <1>5, RedisMoves DEF RedisMove, redis

\* What a session has reached it keeps,
LEMMA ReachedGrows ==
    ASSUME CursorsGrow, NEW s \in Sessions, NEW i \in Nat, Reached(s, i)
    PROVE  Reached(s, i)'
<1> SUFFICES ASSUME Alive(s)' PROVE i <= binding'[s].last
  BY DEF Reached
<1>1. /\ Alive(s) /\ binding[s].last \in Nat /\ binding'[s].last \in Nat
      /\ binding[s].last <= binding'[s].last
  BY DEF CursorsGrow
<1>2. i <= binding[s].last
  BY <1>1 DEF Reached
<1> QED
  BY <1>1, <1>2

\* ... and so does a task,
LEMMA TaskReachedGrows ==
    ASSUME CursorsGrow, NEW t \in Tasks, TaskReached(t)
    PROVE  TaskReached(t)'
<1>1. /\ t.s \in Sessions /\ t.first \in Nat /\ t.last \in Nat /\ t.cursor \in Nat
      /\ \A i \in Turns : i \in Nat
  BY LiveAssumption DEF Tasks, Turns
<1>2. \A i \in Nat : Reached(t.s, i) => Reached(t.s, i)'
  BY <1>1, ReachedGrows
<1>3. InHand(t) \subseteq Nat
  BY <1>1 DEF InHand
<1> QED
  BY <1>1, <1>2, <1>3 DEF TaskReached, InHand

\* ... also one that moves on without loading, retiring or succeeding.
LEMMA MovedReached ==
    ASSUME NEW t \in Tasks, TaskReached(t), NEW u \in Tasks,
           u.s = t.s, u.first = t.first, u.last = t.last, u.turn = t.turn, u.cursor = t.cursor,
           u.at \notin {"load", "lock", "locked", "retire", "consume"},
           u.at = "leave" => ~u.ok
    PROVE  TaskReached(u)
BY DEF TaskReached, InHand

\* A task at rest, and one that has just arrived, have nothing in hand.
LEMMA FreshReached ==
    ASSUME TypeOK, NEW u \in Tasks, u.cursor = 0, u.turn = u.first,
           u.at \in {"idle", "load"}
    PROVE  TaskReached(u)
<1>1. u.s \in Sessions /\ u.first \in Nat
  BY DEF Tasks
<1>2. Reached(u.s, 0)
  BY <1>1, LiveAssumption DEF Reached, TypeOK, Alive, Bindings
<1>3. \A i \in Turns : ~(u.first <= i /\ i < u.turn)
  BY <1>1, LiveAssumption DEF Turns
<1> QED
  BY <1>2, <1>3 DEF TaskReached

\* What a request has in hand, its session has reached.
LEMMA TaskReachedStep ==
    ASSUME IInv, NEW w \in Workers, Handler(w), TaskReached(task[w])
    PROVE  TaskReached(task[w])'
<1> DEFINE t == task[w]
<1>0. /\ TypeOK /\ Sound(t) /\ t \in Tasks /\ task = [v \in Workers |-> task[v]]
      /\ CursorsGrow /\ task'[w] \in Tasks
  BY HandlerAdvances, TaskTyped DEF IInv, TypeOK, Handler
<1>1. /\ t.s \in Sessions /\ t.first \in Nat /\ t.turn \in Nat /\ t.last \in Nat
      /\ t.cursor \in Nat
  BY <1>0, TaskFields, LiveAssumption
<1>2. PICK u \in Tasks : u = task'[w]
  BY <1>0
<1>3. SUFFICES TaskReached(u) \/ TaskReached(u)'
  BY <1>0, <1>2, TaskReachedGrows
<1> HIDE DEF t
<1>4. ASSUME NEW step, u = [t EXCEPT !.at = step],
             step \notin {"load", "lock", "locked", "retire", "consume", "leave"}
      PROVE  TaskReached(u)
  <2>1. u.at = step /\ u.s = t.s /\ u.first = t.first /\ u.last = t.last /\ u.turn = t.turn
        /\ u.cursor = t.cursor
    BY <1>0, <1>4 DEF Tasks
  <2> QED
    BY <1>0, <1>4, <2>1, MovedReached DEF t
<1>5. ASSUME NEW ok \in BOOLEAN, u = [t EXCEPT !.at = "leave", !.ok = ok],
             ok => \A i \in InHand(t) : Reached(t.s, i)
      PROVE  TaskReached(u)
  <2>1. u.at = "leave" /\ u.s = t.s /\ u.first = t.first /\ u.last = t.last /\ u.turn = t.turn
        /\ u.cursor = t.cursor
    BY <1>0, <1>5 DEF Tasks
  <2>2. u.ok = ok
    BY <1>0, <1>5, Zenon DEF Tasks
  <2>3. TaskReached(t)
    BY DEF t
  <2> QED
    BY <1>5, <2>1, <2>2, <2>3 DEF TaskReached, InHand
<1>6. CASE ReportTurn(w) \/ Finalize(w) \/ End(w)
  <2>1. PICK op, s, first, last : Request(w, op, s, first, last)
    BY <1>6, Zenon DEF ReportTurn, Finalize, End
  <2>2. u = [Rest EXCEPT !.at = "load", !.op = op, !.s = s,
                         !.first = first, !.last = last, !.turn = first]
    BY <1>0, <1>2, <2>1, Zenon DEF Request
  <2>3. u.at = "load" /\ u.cursor = 0 /\ u.turn = u.first
    BY <2>2 DEF Rest
  <2> QED
    BY <1>0, <2>3, FreshReached
<1>7. CASE u = Rest
  BY <1>0, <1>7, FreshReached DEF Rest
<1>8. CASE Load(w) \/ Acquire(w) \/ Retire(w)
  <2>1. PICK step \in {"lock", "locked", "consume"} :
            /\ u = [t EXCEPT !.at = step]
            /\ step \in {"lock", "locked"} => t.at \in {"load", "lock"}
            /\ step = "consume" => t.at = "retire"
    BY <1>0, <1>2, <1>8, GoesTask DEF Load, Acquire, Retire, t
  <2>2. u.at = step /\ u.s = t.s /\ u.first = t.first /\ u.last = t.last /\ u.turn = t.turn
        /\ u.cursor = t.cursor
    BY <1>0, <2>1 DEF Tasks
  <2> QED
    BY <2>1, <2>2 DEF TaskReached, InHand, t
<1>9. ASSUME NEW step \in {"next", "retire"}, Alive(t.s), binding[t.s].last \in Nat,
             u = [t EXCEPT !.at = step, !.cursor = binding[t.s].last],
             step = "retire" => t.last < t.turn
      PROVE  TaskReached(u)
  <2>1. u.at = step /\ u.s = t.s /\ u.first = t.first /\ u.last = t.last /\ u.turn = t.turn
        /\ u.cursor = binding[t.s].last
    BY <1>0, <1>9 DEF Tasks
  <2>2. Reached(t.s, binding[t.s].last)
    BY <1>9 DEF Reached
  <2>3. ASSUME NEW i \in Turns, t.first <= i, i < t.turn
        PROVE  i <= binding[t.s].last
    BY <1>9, <2>3 DEF TaskReached, Reached, t
  <2>4. step = "retire" => \A i \in InHand(t) : i \in Turns /\ i < t.turn
    <3>1. t.first >= 1 /\ t.last \in 0 .. MaxTurns
      BY <1>0, TaskFields DEF Sound, t
    <3> QED
      BY <1>1, <1>9, <3>1, LiveAssumption DEF InHand, Turns
  <2>5. step = "retire" => \A i \in InHand(t) : i <= binding[t.s].last
    BY <2>3, <2>4, <1>1 DEF InHand
  <2> QED
    BY <1>9, <2>1, <2>2, <2>5 DEF TaskReached, InHand, t
<1>10. CASE Reload(w)
  <2>1. Alive(t.s) /\ t.at = "locked"
    BY <1>10 DEF Reload, Usable, Open, At, t
  <2>2. binding[t.s].last \in Nat
    BY <1>0, <1>1, <2>1, LiveAssumption DEF TypeOK, Alive, Bindings
  <2>3. t.op = "end" => t.last < t.turn
    BY <1>0 DEF Sound
  <2>4. t.op = "end" => u = [t EXCEPT !.at = "retire", !.cursor = binding[t.s].last]
    BY <1>0, <1>2, <1>10, Zenon DEF Reload, t
  <2>5. t.op # "end" => u = [t EXCEPT !.at = "next", !.cursor = binding[t.s].last]
    BY <1>0, <1>2, <1>10, Zenon DEF Reload, t
  <2> QED
    BY <1>9, <2>1, <2>2, <2>3, <2>4, <2>5
<1>11. CASE LoadLatest(w)
  <2>1. t.last < t.turn
    BY <1>1, <1>11 DEF LoadLatest, LastTurnDone, t
  <2>2. CASE Alive(t.s)
    <3>1. binding[t.s].last \in Nat
      BY <1>0, <1>1, <2>2, LiveAssumption DEF TypeOK, Alive, Bindings
    <3>2. u = [t EXCEPT !.at = "retire", !.cursor = binding[t.s].last]
      BY <1>0, <1>2, <1>11, <2>2, Zenon DEF LoadLatest, t
    <3> QED
      BY <1>9, <2>1, <2>2, <3>1, <3>2
  <2>3. CASE ~Alive(t.s)
    <3>1. u = [t EXCEPT !.at = "leave", !.ok = FALSE]
      BY <1>0, <1>2, <1>11, <2>3, Zenon DEF LoadLatest, t
    <3> QED
      BY <1>5, <3>1
  <2> QED
    BY <2>2, <2>3
<1>12. CASE ReadHistory(w)
  <2>1. u.at = "insert" /\ u.s = t.s /\ u.first = t.first /\ u.last = t.last /\ u.turn = t.turn
        /\ u.cursor = t.cursor
    BY <1>0, <1>2, <1>12 DEF ReadHistory, Tasks, t
  <2> QED
    BY <1>0, <2>1, MovedReached DEF t
<1>13. CASE ReadUsage(w)
  <2>1. PICK step \in {"commit", "record"} : Goes(w, "usage", step)
    BY <1>13 DEF ReadUsage
  <2>2. u = [t EXCEPT !.at = step]
    BY <1>0, <1>2, <2>1, GoesTask DEF t
  <2> QED
    BY <1>4, <2>2
<1>14. CASE Replay(w)
  <2>1. /\ t.op = "turn" /\ t.at = "locked" /\ t.turn <= binding[t.s].last
    BY <1>14 DEF Replay, Ends, At, t
  <2>2. t.turn = t.first /\ t.last = t.first
    BY <1>0, <2>1 DEF Sound
  <2>3. \A i \in InHand(t) : Reached(t.s, i)
    BY <1>1, <2>1, <2>2 DEF InHand, Reached
  <2>4. PICK ok \in BOOLEAN : Ends(w, "locked", ok)
    <3>1. (usage[task[w].s][task[w].turn] > 0) \in BOOLEAN
      BY TruthTyped
    <3> QED
      BY <1>14, <3>1, Zenon DEF Replay
  <2>5. u = [t EXCEPT !.at = "leave", !.ok = ok]
    BY <1>0, <1>2, <2>4, EndsTask DEF t
  <2> QED
    BY <1>5, <2>3, <2>5
<1>15. CASE ReloadFails(w)
  <2>0. PICK ok \in BOOLEAN : ok = (t.op = "end")
    BY Zenon
  <2>1. Ends(w, "locked", ok)
    <3>1. Ends(w, "locked", task[w].op = "end")
      BY <1>15, Zenon DEF ReloadFails
    <3> QED
      BY <2>0, <3>1, Zenon DEF t
  <2>2. u = [t EXCEPT !.at = "leave", !.ok = ok] /\ t.at = "locked"
    BY <1>0, <1>2, <2>1, EndsTask DEF t
  <2>3. ok => t.last < t.first
    <3>1. ok => t.op = "end"
      BY <2>0
    <3> QED
      BY <1>0, <2>2, <3>1 DEF Sound, TaskReached, t
  <2>4. ok => \A i \in InHand(t) : Reached(t.s, i)
    BY <1>1, <2>3 DEF InHand
  <2> QED
    BY <1>5, <2>2, <2>4
<1>16. CASE Skip(w)
  <2>1. t.at = "next" /\ t.turn <= t.cursor /\ Reached(t.s, t.cursor)
    BY <1>16 DEF Skip, At, TaskReached, t
  <2>2. u = [t EXCEPT !.turn = t.turn + 1]
    BY <1>0, <1>2, <1>16, Zenon DEF Skip, t
  <2>3. u.at = "next" /\ u.s = t.s /\ u.first = t.first /\ u.turn = t.turn + 1 /\ u.cursor = t.cursor
    BY <1>0, <2>1, <2>2 DEF Tasks
  <2>4. ASSUME NEW i \in Turns, t.first <= i, i < t.turn + 1
        PROVE  Reached(t.s, i)
    <3>1. i \in Nat
      BY LiveAssumption DEF Turns
    <3>2. CASE i < t.turn
      BY <2>4, <3>2 DEF TaskReached, t
    <3>3. CASE i = t.turn
      <4>1. Alive(t.s) => binding[t.s].last \in Nat
        BY <1>0, <1>1, LiveAssumption DEF TypeOK, Alive, Bindings
      <4> QED
        BY <1>1, <2>1, <3>3, <4>1 DEF Reached
    <3> QED
      BY <1>1, <2>4, <3>1, <3>2, <3>3
  <2> QED
    BY <2>1, <2>3, <2>4 DEF TaskReached
<1>17. CASE Commit(w)
  <2>0. t.at = "commit" /\ t.turn \in Turns /\ Owns(w) /\ Advanced(w)
    BY <1>0, <1>17 DEF Commit, At, Sound, t
  <2>1. PICK s \in Sessions, i \in Nat : s = t.s /\ i = t.turn
    BY <1>1
  <2>2. Reached(s, i)'
    <3>1. Unclaimed(binding[s]) \in Bindings
      BY <1>0, <2>0, <2>1, OwnsTyped DEF t
    <3>2. binding'[s].last = i
      BY <1>0, <2>0, <2>1, <3>1 DEF Advanced, Bindings, TypeOK, t
    <3> QED
      BY <3>2 DEF Reached
  <2>3. CASE t.op = "turn"
    <3>1. u = [t EXCEPT !.at = "leave", !.ok = TRUE]
      BY <1>0, <1>2, <1>17, <2>3, Zenon DEF Commit, AfterCommit, t
    <3>2. t.first = i /\ t.last = i /\ t.turn = i
      BY <1>0, <2>0, <2>1, <2>3 DEF Sound
    <3>3. u.at = "leave" /\ u.s = s /\ u.first = i /\ u.last = i /\ u.turn = i /\ u.cursor = t.cursor
      BY <1>0, <2>1, <3>1, <3>2 DEF Tasks
    <3>4. Reached(s, u.cursor)'
      BY <1>0, <1>1, <2>1, <3>3, ReachedGrows DEF TaskReached, t
    <3>5. \A j \in InHand(u) : j = i
      BY <3>3 DEF InHand
    <3>6. \A j \in Turns : ~(u.first <= j /\ j < u.turn)
      BY <3>3, LiveAssumption DEF Turns
    <3> QED
      BY <2>2, <3>3, <3>4, <3>5, <3>6 DEF TaskReached
  <2>4. CASE t.op # "turn"
    <3>1. u = [t EXCEPT !.at = "next", !.turn = t.turn + 1]
      BY <1>0, <1>2, <1>17, <2>4, Zenon DEF Commit, AfterCommit, t
    <3>2. u.at = "next" /\ u.s = s /\ u.first = t.first /\ u.turn = i + 1 /\ u.cursor = t.cursor
      BY <1>0, <2>1, <3>1 DEF Tasks
    <3>3. Reached(s, u.cursor)'
      BY <1>0, <1>1, <2>1, <3>2, ReachedGrows DEF TaskReached, t
    <3>4. ASSUME NEW j \in Turns, u.first <= j, j < u.turn
          PROVE  Reached(s, j)'
      <4>1. j \in Nat /\ (j < i \/ j = i)
        BY <3>2, <3>4, LiveAssumption DEF Turns
      <4>2. CASE j < i
        <5>1. Reached(s, j)
          BY <2>1, <3>2, <3>4, <4>2 DEF TaskReached, t
        <5> QED
          BY <1>0, <4>1, <5>1, ReachedGrows
      <4>3. CASE j = i
        BY <2>2, <4>3
      <4> QED
        BY <4>1, <4>2, <4>3
    <3> QED
      BY <3>2, <3>3, <3>4 DEF TaskReached
  <2> QED
    BY <2>3, <2>4
<1>18. CASE Consume(w) \/ ConsumeRejected(w)
  <2>1. PICK s \in Sessions : s = t.s
    BY <1>1
  <2>2. ~Alive(s)'
    <3>1. CASE Consume(w)
      <4>1. binding' = [binding EXCEPT ![s] = Absent]
        BY <2>1, <3>1, Zenon DEF Consume, Deleted, t
      <4> QED
        BY <1>0, <4>1 DEF Alive, TypeOK
    <3>2. CASE ConsumeRejected(w)
      <4>1. ~Alive(s) /\ UNCHANGED binding
        BY <2>1, <3>2, Zenon DEF ConsumeRejected, redis, t
      <4> QED
        BY <4>1 DEF Alive
    <3> QED
      BY <1>18, <3>1, <3>2
  <2>3. \A i : Reached(s, i)'
    BY <2>2 DEF Reached
  <2>4. PICK ok : Ends(w, "consume", ok)
    BY <1>18, Zenon DEF Consume, ConsumeRejected
  <2>5. u = [t EXCEPT !.at = "leave", !.ok = ok]
    BY <1>0, <1>2, <2>4, EndsTask DEF t
  <2>6. u.at = "leave" /\ u.s = s
    BY <1>0, <2>1, <2>5 DEF Tasks
  <2> QED
    BY <2>3, <2>6 DEF TaskReached
<1>19. CASE \E step \in {"history", "usage", "commit", "release"} : u = [t EXCEPT !.at = step]
  BY <1>4, <1>19
<1>20. CASE u = [t EXCEPT !.at = "leave", !.ok = FALSE]
  BY <1>5, <1>20
<1> QED
  BY <1>0, <1>2, <1>6, <1>7, <1>8, <1>10, <1>11, <1>12, <1>13, <1>14, <1>15, <1>16, <1>17, <1>18,
     <1>19, <1>20, TaskMoves DEF t

\* A turn that is newly acknowledged was in the hand of a request that
\* succeeds, or is covered by the receipt.
LEMMA NewlyAcked ==
    ASSUME TypeOK, NEW w \in Workers, Handler(w),
           NEW s \in Sessions, NEW i \in acked'[s], i \notin acked[s]
    PROVE  /\ UNCHANGED redis
           /\ \/ /\ task[w].at = "leave" /\ task[w].ok
                 /\ s = task[w].s /\ i \in InHand(task[w])
              \/ receipt[s] # Absent /\ i <= receipt[s]
<1>0. acked = [r \in Sessions |-> acked[r]] /\ task[w].s \in Sessions
  BY TaskFields DEF TypeOK
<1>1. CASE Leave(w) /\ UNCHANGED redis
  <2>1. task[w].at = "leave" /\ (task[w].ok \/ UNCHANGED acked)
    BY <1>1, Zenon DEF Leave, At
  <2>2. /\ task[w].ok
        /\ acked' = [acked EXCEPT ![task[w].s] = acked[task[w].s] \cup Batch(w)]
    BY <1>1, <2>1, Zenon DEF Leave
  <2> QED
    BY <1>0, <1>1, <2>1, <2>2 DEF Batch, InHand
<1>2. CASE AnswerUnbound(w) /\ UNCHANGED redis
  <2>1. /\ Covered(w)
        /\ acked' = [acked EXCEPT ![task[w].s] = acked[task[w].s] \cup Batch(w)]
    BY <1>2, Zenon DEF AnswerUnbound
  <2>2. s = task[w].s /\ i \in Batch(w)
    BY <1>0, <2>1
  <2> QED
    BY <1>2, <2>1, <2>2 DEF Covered
<1> QED
  BY <1>1, <1>2, AckedMoves

\* The cursor has reached the receipt and every acknowledged turn.
LEMMA SessionReachedStep ==
    ASSUME IInv, NEW w \in Workers, Handler(w), NEW s \in Sessions, SessionReached(s),
           TaskReached(task[w])
    PROVE  SessionReached(s)'
<1>0. /\ TypeOK /\ CursorsGrow /\ task[w].s \in Sessions /\ task[w].cursor \in Nat
      /\ receipt = [r \in Sessions |-> receipt[r]]
      /\ \A i \in acked'[s] : i \in Nat
      /\ receipt[s] # Absent => receipt[s] \in Nat
      /\ Alive(s) => binding[s].last \in Nat
  <2>1. TypeOK /\ Handler(w) /\ Sound(task[w])
    BY DEF IInv
  <2>2. acked'[s] \subseteq Turns
    BY <2>1, HandlerTyped DEF Sound, TypeOK
  <2>3. task[w].s \in Sessions /\ task[w].cursor \in Nat
    BY <2>1, TaskFields
  <2>4. /\ receipt = [r \in Sessions |-> receipt[r]]
        /\ receipt[s] # Absent => receipt[s] \in Nat
        /\ Alive(s) => binding[s].last \in Nat
    BY <2>1, LiveAssumption DEF TypeOK, Alive, Bindings
  <2>5. \A i \in acked'[s] : i \in Nat
    BY <2>2, LiveAssumption DEF Turns
  <2> QED
    BY <2>1, <2>3, <2>4, <2>5, HandlerAdvances
<1>1. (receipt[s] # Absent => Reached(s, receipt[s]))'
  <2> SUFFICES ASSUME receipt'[s] # Absent PROVE Reached(s, receipt[s])'
    OBVIOUS
  <2>1. receipt'[s] = receipt[s] \/ (s = task[w].s /\ receipt'[s] = task[w].cursor)
    BY <1>0, RetireMoves DEF Receipted
  <2>2. PICK n \in Nat : n = receipt'[s]
    BY <1>0, <2>1
  <2>3. Reached(s, n)
    BY <2>1, <2>2 DEF SessionReached, TaskReached
  <2>4. Reached(s, n)'
    BY <1>0, <2>3, ReachedGrows
  <2> QED
    BY <2>2, <2>4 DEF Reached
<1>2. ASSUME NEW i \in acked'[s] PROVE Reached(s, i)'
  <2>1. i \in Nat
    BY <1>0
  <2>2. Reached(s, i)
    <3>1. CASE i \in acked[s]
      BY <3>1 DEF SessionReached
    <3>2. CASE i \notin acked[s]
      <4>1. CASE task[w].at = "leave" /\ task[w].ok /\ s = task[w].s /\ i \in InHand(task[w])
        BY <4>1 DEF TaskReached
      <4>2. CASE receipt[s] # Absent /\ i <= receipt[s]
        <5>1. Reached(s, receipt[s])
          BY <4>2 DEF SessionReached
        <5> QED
          BY <1>0, <2>1, <4>2, <5>1 DEF Reached
      <4> QED
        BY <1>0, <3>2, <4>1, <4>2, NewlyAcked
    <3> QED
      BY <3>1, <3>2
  <2> HIDE DEF Handler
  <2> QED
    BY <1>0, <2>1, <2>2, ReachedGrows
<1>3. s \in consumed' => ~Alive(s)'
  <2>1. CASE s \in consumed
    BY <1>0, <2>1 DEF SessionReached, CursorsGrow
  <2>2. CASE s \in consumed' /\ s \notin consumed
    <3>1. Deleted(w) /\ s = task[w].s
      BY <2>2, RetireMoves DEF Deleted
    <3> QED
      BY <1>0, <3>1 DEF Deleted, Alive, TypeOK
  <2> QED
    BY <2>1, <2>2
<1> QED
  BY <1>1, <1>2, <1>3 DEF SessionReached

\* A retirement that is under the lock alone holds the session's latest
\* cursor until the session is consumed.
LEMMA RetiresLatestStep ==
    ASSUME IInv, NEW w \in Workers, Handler(w), OneWriter,
           SessionReached(task[w].s), TaskReached(task[w]),
           NEW v \in Workers, RetiresLatest(task[v])
    PROVE  RetiresLatest(task[v])'
<1> DEFINE t == task[w]
<1>0. /\ TypeOK /\ Sound(t) /\ t \in Tasks /\ task = [x \in Workers |-> task[x]]
      /\ t.s \in Sessions
  BY TaskFields DEF IInv, TypeOK
<1>1. CASE v # w
  <2>1. task'[v] = task[v]
    BY <1>0, <1>1, OthersKept
  <2>2. CASE Under(v)
    <3>1. ~Under(w)
      BY <1>1, <2>2 DEF OneWriter
    <3>2. UNCHANGED redis
      BY <3>1, RetireMoves
    <3> QED
      BY <2>1, <3>2 DEF RetiresLatest, Vouched, InHand, Alive, redis
  <2>3. CASE ~Under(v)
    BY <2>1, <2>3 DEF RetiresLatest, Under
  <2> QED
    BY <2>2, <2>3
<1>2. CASE v = w /\ At(w, "retire")'
  <2>1. Reload(w) \/ LoadLatest(w)
    BY <1>0, <1>2, Arrivals
  <2>2. UNCHANGED redis /\ Alive(t.s)
    <3>1. CASE Reload(w)
      BY <3>1 DEF Reload, Usable, Open
    <3>2. CASE LoadLatest(w)
      <4>1. CASE ~Alive(t.s)
        <5>1. Ends(w, "next", FALSE)
          BY <3>2, <4>1, Zenon DEF LoadLatest, Ends
        <5>2. task'[w] = [t EXCEPT !.at = "leave", !.ok = FALSE]
          BY <1>0, <5>1, EndsTask
        <5>3. task'[w].at = "leave"
          BY <1>0, <5>2 DEF Tasks
        <5> QED
          BY <1>2, <5>3 DEF At
      <4> QED
        BY <3>2, <4>1, Zenon DEF LoadLatest
    <3> QED
      BY <2>1, <3>1, <3>2
  <2>3. task'[w].at = "retire" /\ task'[w].s = t.s /\ task'[w].cursor = binding[t.s].last
    <3>1. PICK step : task' = [task EXCEPT ![w].at = step, ![w].cursor = binding[t.s].last]
      BY <2>1, <2>2, Zenon DEF Reload, LoadLatest
    <3>2. task'[w] = [t EXCEPT !.at = step, !.cursor = binding[t.s].last]
      BY <1>0, <3>1, Zenon
    <3> QED
      BY <1>0, <1>2, <3>2 DEF At, Tasks
  <2>4. t.s \notin consumed
    BY <2>2 DEF SessionReached
  <2> QED
    BY <1>2, <2>2, <2>3, <2>4 DEF RetiresLatest, Alive, redis
<1>3. CASE v = w /\ At(w, "consume")'
  <2>1. Retire(w)
    BY <1>0, <1>3, Arrivals
  <2>2. t.at = "retire" /\ task'[w] = [t EXCEPT !.at = "consume"]
    BY <1>0, <2>1, GoesTask DEF Retire
  <2>3. task'[w].at = "consume" /\ task'[w].s = t.s /\ task'[w].cursor = t.cursor
    BY <1>0, <2>2 DEF Tasks
  <2>4. UNCHANGED <<binding, consumed>> /\ Receipted(w)
    BY <2>1 DEF Retire
  <2>5. t.cursor <= receipt'[t.s]
    <3>1. receipt'[t.s] = IF receipt[t.s] = Absent \/ receipt[t.s] < t.cursor
                          THEN t.cursor ELSE receipt[t.s]
      BY <1>0, <2>4 DEF Receipted, TypeOK
    <3>2. t.cursor \in Nat /\ (receipt[t.s] # Absent => receipt[t.s] \in Nat)
      BY <1>0, TaskFields, LiveAssumption DEF TypeOK
    <3> QED
      BY <3>1, <3>2
  <2> QED
    BY <1>3, <2>2, <2>3, <2>4, <2>5 DEF RetiresLatest, Alive
<1>4. CASE v = w /\ At(w, "leave")' /\ task'[w].ok
  <2>1. Replay(w) \/ ReloadFails(w) \/ Commit(w) \/ Consume(w) \/ ConsumeRejected(w)
    BY <1>0, <1>4, Arrivals
  <2>2. /\ task'[w].at = "leave" /\ task'[w].s = t.s
        /\ task'[w].first = t.first /\ task'[w].last = t.last
    <3>1. CASE \E from, ok : Ends(w, from, ok)
      <4>1. PICK from, ok : Ends(w, from, ok)
        BY <3>1
      <4>2. task'[w] = [t EXCEPT !.at = "leave", !.ok = ok]
        BY <1>0, <4>1, EndsTask
      <4> QED
        BY <1>0, <4>2 DEF Tasks
    <3>2. CASE Commit(w)
      <4>1. \/ task'[w] = [t EXCEPT !.at = "leave", !.ok = TRUE]
            \/ task'[w] = [t EXCEPT !.at = "next", !.turn = t.turn + 1]
        BY <1>0, <3>2, Zenon DEF Commit, AfterCommit
      <4>2. CASE task'[w] = [t EXCEPT !.at = "leave", !.ok = TRUE]
        BY <1>0, <4>2 DEF Tasks
      <4>3. CASE task'[w] = [t EXCEPT !.at = "next", !.turn = t.turn + 1]
        <5>1. task'[w].at = "next"
          BY <1>0, <4>3 DEF Tasks
        <5> QED
          BY <1>4, <5>1 DEF At
      <4> QED
        BY <4>1, <4>2, <4>3
    <3> QED
      BY <2>1, <3>1, <3>2 DEF Replay, ReloadFails, Consume, ConsumeRejected
  <2>3. PICK s \in Sessions : s = t.s
    BY <1>0
  <2>4. \A i \in InHand(t) : Vouched(s, i)'
    <3>1. CASE Replay(w) \/ Commit(w) \/ ConsumeRejected(w)
      <4>1. t.s \notin consumed
        <5>1. CASE Replay(w) \/ Commit(w)
          BY <5>1 DEF Replay, Commit, Usable, Open, Owns, SessionReached
        <5>2. CASE ConsumeRejected(w)
          BY <1>4, <5>2 DEF ConsumeRejected, Ends, At, RetiresLatest
        <5> QED
          BY <3>1, <5>1, <5>2
      <4>2. UNCHANGED consumed
        BY <3>1 DEF Replay, Commit, ConsumeRejected, redis
      <4> QED
        BY <2>3, <4>1, <4>2 DEF Vouched
    <3>2. CASE ReloadFails(w)
      <4>1. t.op = "end" /\ t.at = "locked"
        <5>1. Ends(w, "locked", t.op = "end")
          BY <3>2, Zenon DEF ReloadFails
        <5>2. PICK ok : ok = (t.op = "end")
          BY Zenon
        <5>3. Ends(w, "locked", ok)
          BY <5>1, <5>2, Zenon
        <5>4. task'[w] = [t EXCEPT !.at = "leave", !.ok = ok] /\ t.at = "locked"
          BY <1>0, <5>3, EndsTask
        <5>5. task'[w].ok = ok
          BY <1>0, <5>4, AtMoved
        <5> QED
          BY <1>4, <5>2, <5>4, <5>5
      <4>2. t.last < t.first
        BY <1>0, <4>1 DEF Sound, TaskReached
      <4>3. t.first \in Nat /\ t.last \in Nat
        BY <1>0, TaskFields, LiveAssumption
      <4> QED
        BY <4>2, <4>3 DEF InHand
    <3>3. CASE Consume(w)
      <4>1. t.at = "consume" /\ UNCHANGED receipt
        BY <3>3, Zenon DEF Consume, Ends, At
      <4>2. receipt[t.s] # Absent => t.cursor <= receipt[t.s]
        BY <1>4, <4>1 DEF RetiresLatest
      <4>3. \A i \in InHand(t) : i <= t.cursor
        BY <4>1 DEF TaskReached
      <4>4. /\ t.first \in Nat /\ t.last \in Nat /\ t.cursor \in Nat
            /\ receipt[t.s] # Absent => receipt[t.s] \in Nat
        BY <1>0, TaskFields, LiveAssumption DEF TypeOK
      <4> QED
        BY <2>3, <4>1, <4>2, <4>3, <4>4 DEF InHand, Vouched
    <3> QED
      BY <2>1, <3>1, <3>2, <3>3
  <2> QED
    BY <1>4, <2>2, <2>3, <2>4 DEF RetiresLatest, InHand
<1> QED
  BY <1>1, <1>2, <1>3, <1>4 DEF RetiresLatest, At

\* A session that is retired vouches for what it acknowledged.
LEMMA VouchedStep ==
    ASSUME IInv, NEW w \in Workers, Handler(w), NEW s \in Sessions, SessionReached(s),
           RetiresLatest(task[w]), \A i \in acked[s] : Vouched(s, i),
           NEW i \in acked'[s]
    PROVE  Vouched(s, i)'
<1> DEFINE t == task[w]
<1>0. /\ TypeOK /\ t.s \in Sessions /\ t.cursor \in Nat
      /\ receipt = [r \in Sessions |-> receipt[r]]
      /\ receipt[s] # Absent => receipt[s] \in Nat
      /\ Alive(s) => binding[s].last \in Nat
      /\ acked[s] \subseteq Nat
  <2>1. TypeOK
    BY DEF IInv
  <2>2. t.s \in Sessions /\ t.cursor \in Nat
    BY <2>1, TaskFields
  <2>3. /\ receipt[s] # Absent => receipt[s] \in Nat
        /\ Alive(s) => binding[s].last \in Nat
        /\ acked[s] \subseteq Nat
    BY <2>1, LiveAssumption DEF TypeOK, Alive, Bindings, Turns
  <2> QED
    BY <2>1, <2>2, <2>3 DEF TypeOK
<1>1. CASE i \notin acked[s]
  <2>1. UNCHANGED redis /\ Vouched(s, i)
    BY <1>0, <1>1, NewlyAcked DEF RetiresLatest, Vouched
  <2> QED
    BY <2>1 DEF Vouched, redis
<1>2. CASE i \in acked[s]
  <2>1. Vouched(s, i) /\ i \in Nat
    BY <1>0, <1>2
  <2>2. CASE UNCHANGED <<receipt, consumed>>
    BY <2>1, <2>2 DEF Vouched
  <2>3. CASE Receipted(w) /\ At(w, "retire") /\ UNCHANGED consumed
    <3>1. CASE s = t.s
      BY <2>3, <3>1 DEF At, RetiresLatest, Vouched
    <3>2. CASE s # t.s
      BY <1>0, <2>1, <2>3, <3>2 DEF Receipted, Vouched
    <3> QED
      BY <3>1, <3>2
  <2>4. CASE Deleted(w) /\ At(w, "consume") /\ Alive(t.s) /\ UNCHANGED receipt
    <3>1. CASE s = t.s
      <4>1. /\ t.cursor = binding[s].last
            /\ receipt[s] # Absent => t.cursor <= receipt[s]
        BY <2>4, <3>1 DEF At, RetiresLatest
      <4>2. i <= binding[s].last
        BY <1>2, <2>4, <3>1 DEF SessionReached, Reached
      <4> QED
        BY <1>0, <2>1, <2>4, <4>1, <4>2 DEF Vouched
    <3>2. CASE s # t.s
      BY <2>1, <2>4, <3>2 DEF Deleted, Vouched
    <3> QED
      BY <3>1, <3>2
  <2> QED
    BY <2>2, <2>3, <2>4, RetireMoves
<1> QED
  BY <1>1, <1>2

\* RetirementInv is an invariant.
LEMMA RetirementKept ==
    ASSUME IInv, RetirementInv, [Next]_vars
    PROVE  RetirementInv'
<1>1. ASSUME NEW w \in Workers, Handler(w)
      PROVE  RetirementInv'
  <2>0. TypeOK /\ CursorsGrow /\ task[w].s \in Sessions
    BY <1>1, HandlerAdvances, TaskFields DEF IInv
  <2>1. \A s \in Sessions : SessionReached(s)'
    BY <1>1, SessionReachedStep DEF RetirementInv
  <2>2. ASSUME NEW v \in Workers PROVE TaskReached(task[v])'
    <3>1. CASE v = w
      BY <1>1, <3>1, TaskReachedStep DEF RetirementInv
    <3>2. CASE v # w
      <4>1. PICK t \in Tasks : t = task[v]
        BY <2>0, Zenon DEF TypeOK
      <4>2. TaskReached(t)'
        BY <2>0, <4>1, TaskReachedGrows DEF RetirementInv
      <4>3. task'[v] = t
        BY <1>1, <2>0, <3>2, <4>1, OthersKept
      <4> QED
        BY <4>2, <4>3
    <3> QED
      BY <3>1, <3>2
  <2>3. UNCHANGED dropped
    BY <1>1, LockMoves
  <2>4. ~dropped => OneWriter'
    BY <1>1, <2>0, OneWriterStep DEF RetirementInv
  <2>5. ~dropped => \A v \in Workers : RetiresLatest(task[v])'
    BY <1>1, <2>0, RetiresLatestStep DEF RetirementInv
  <2>6. ~dropped => \A s \in Sessions : \A i \in acked'[s] : Vouched(s, i)'
    BY <1>1, VouchedStep DEF RetirementInv
  <2> QED
    BY <2>1, <2>2, <2>3, <2>4, <2>5, <2>6 DEF RetirementInv
<1>2. CASE Outside
  <2>1. UNCHANGED <<task, acked, consumed>> /\ (dropped' \/ UNCHANGED <<lock, dropped>>)
    BY <1>2, Zenon DEF Outside, LoseLock, Time, Deadline, BindingExpires, ReceiptExpires, vars, redis
  <2>2. ASSUME NEW s \in Sessions
        PROVE  /\ binding'[s] \in {binding[s], Absent}
               /\ receipt'[s] \in {receipt[s], Absent}
    BY <1>2 DEF IInv, TypeOK, Outside, LoseLock, Time, Deadline, BindingExpires, ReceiptExpires, redis, vars
  <2>3. \A s \in Sessions : SessionReached(s)'
    BY <2>1, <2>2 DEF RetirementInv, SessionReached, Reached, Alive
  <2>4. \A v \in Workers : task[v].s \in Sessions
    BY TaskFields DEF IInv
  <2>5. \A v \in Workers : TaskReached(task[v])'
    BY <2>1, <2>2, <2>4 DEF RetirementInv, TaskReached, InHand, Reached, Alive
  <2>6. ~dropped' => OneWriter' /\ \A v \in Workers : RetiresLatest(task[v])'
    BY <2>1, <2>2, <2>4 DEF RetirementInv, OneWriter, Under, RetiresLatest, Vouched, InHand, Alive
  <2>7. ~dropped' => \A s \in Sessions : \A i \in acked'[s] : Vouched(s, i)'
    BY <2>1, <2>2 DEF RetirementInv, Vouched
  <2> QED
    BY <2>3, <2>5, <2>6, <2>7 DEF RetirementInv
<1> QED
  BY <1>1, <1>2 DEF Next, Handler, Outside

\* RetirementLosesNoTurn: the receipt of a session that was finalized or ended
\* covers every turn the session ever acknowledged, while no lock was lost.
THEOREM RetirementCovers == Spec => []RetirementLosesNoTurn
<1>1. Init => RetirementInv
  <2> SUFFICES ASSUME Init PROVE RetirementInv
    OBVIOUS
  <2>1. \A s \in Sessions : SessionReached(s) /\ acked[s] = {}
    BY DEF Init, SessionReached
  <2>2. ASSUME NEW w \in Workers
        PROVE  task[w] = Rest /\ task[w].at = "idle"
    BY DEF Init, Rest
  <2>3. TypeOK /\ Rest.at = "idle" /\ Rest.cursor = 0 /\ Rest.turn = Rest.first
    BY InitSound DEF IInv, Rest
  <2>4. TaskReached(Rest)
    BY <2>3, RestTyped, FreshReached
  <2> QED
    BY <2>1, <2>2, <2>4 DEF RetirementInv, OneWriter, Under, RetiresLatest
<1>2. IInv /\ RetirementInv /\ [Next]_vars => RetirementInv'
  BY RetirementKept
<1>3. IInv /\ RetirementInv => RetirementLosesNoTurn
  BY DEF RetirementInv, RetirementLosesNoTurn, Vouched, IInv, TypeOK
<1> QED
  BY <1>1, <1>2, <1>3, Invariant, PTL DEF Spec

==============================================================================
