-------------------------- MODULE AgentLessonProofs --------------------------
(***************************************************************************)
(* What a reset guarantees, for any number of requests, turns and resets,  *)
(* and however often the lesson lock is lost; and that the conversation    *)
(* and the rows stay the same turns until it is.                           *)
(***************************************************************************)
EXTENDS AgentLesson, TLAPS

LEMMA IdleTyped ==
    /\ Fresh \in SessionType
    /\ NoPlan \in PlanType
    /\ Idle \in ReqType
    /\ NoBlock \in BlockType
BY AgentAssumption
   DEF Fresh, SessionType, NoPlan, PlanType, Idle, ReqType, PcType, Outcomes, NoBlock,
       BlockType, Ids

\* A request's new value is all a step changes of the requests.
LEMMA BecomesTyped ==
    ASSUME req \in [Requests -> ReqType], NEW r \in Requests, NEW x \in ReqType, Becomes(r, x)
    PROVE  req' \in [Requests -> ReqType]
BY DEF Becomes

LEMMA RestoreTyped ==
    ASSUME block \in [Ids -> BlockType], NEW doc \in SessionType, NEW b \in Ids
    PROVE  Restore(doc, b) \in SessionType
<1>1. block[b].base \in Nat /\ block[b].pending \in BOOLEAN
  BY DEF BlockType
<1> DEFINE n == IF block[b].base < Len(doc.msgs) THEN block[b].base ELSE Len(doc.msgs)
<1>2. doc.msgs \in Seq(Nat) /\ n \in 0 .. Len(doc.msgs)
  BY <1>1 DEF SessionType
<1>3. SubSeq(doc.msgs, 1, n) \in Seq(Nat)
  BY <1>2
<1>4. Restore(doc, b) = [doc EXCEPT !.msgs = SubSeq(doc.msgs, 1, n),
                                    !.pending = block[b].pending, !.done = FALSE]
  BY DEF Restore, SessionType
<1> HIDE DEF n
<1> QED BY <1>1, <1>3, <1>4 DEF SessionType

LEMMA RestoreSessionTyped ==
    ASSUME TypeOK, NEW r \in Requests
    PROVE  RestoreSession(r, session) \in SessionType
<1>1. req[r].plan.target \in 0 .. MaxTurns
  BY DEF TypeOK, ReqType, PlanType
<1>2. CASE req[r].plan.target = 0
  BY <1>2 DEF RestoreSession, TypeOK, RowTypes
<1>3. CASE req[r].plan.target # 0
  <2>1. req[r].plan.target \in Ids
    BY <1>1, <1>3, AgentAssumption DEF Ids
  <2> QED BY <2>1, <1>3, RestoreTyped DEF RestoreSession, TypeOK, RowTypes
<1> QED BY <1>2, <1>3

LEMMA TaughtTyped ==
    ASSUME TypeOK, NEW r \in Requests
    PROVE  Taught(r) \in SessionType
<1>1. /\ req[r].doc \in SessionType
      /\ req[r].turn \in Nat
  BY AgentAssumption DEF TypeOK, ReqType
<1>2. Append(req[r].doc.msgs, req[r].turn) \in Seq(Nat)
  BY <1>1 DEF SessionType
<1> QED BY <1>1, <1>2, Zenon, SMT DEF Taught, SessionType

LEMMA SavedBlocksTyped ==
    ASSUME TypeOK, NEW r \in Requests
    PROVE  SavedBlocks(r) \in [Ids -> BlockType]
<1>1. /\ req[r].doc \in SessionType
      /\ req[r].text \in BOOLEAN
  BY DEF TypeOK, ReqType
<1>2. /\ Len(req[r].doc.msgs) \in Nat
      /\ req[r].doc.pending \in BOOLEAN
  BY <1>1 DEF SessionType
<1>3. ASSUME NEW b \in Ids
      PROVE  Recorded(r, block[b]) \in BlockType /\ Retired(r, block[b]) \in BlockType
  <2>1. block[b] \in BlockType
    BY DEF TypeOK, RowTypes
  <2>2. Recorded(r, block[b]) \in BlockType
    BY <1>1, <1>2, <2>1 DEF Recorded, BlockType
  <2>3. Retired(r, block[b]) \in BlockType
    BY <2>1 DEF Retired, BlockType
  <2> QED BY <2>2, <2>3
<1>4. \A b \in Ids : block[b] \in BlockType
  BY DEF TypeOK, RowTypes
<1>5. ASSUME NEW b \in Ids
      PROVE  SavedBlocks(r)[b] \in BlockType
  BY <1>3, <1>4, <1>5 DEF SavedBlocks
<1> QED BY <1>5 DEF SavedBlocks

LEMMA DropBlockTyped ==
    ASSUME TypeOK, NEW b \in Nat
    PROVE  DropBlock(b) \in [Ids -> BlockType]
<1>1. block \in [Ids -> BlockType]
  BY DEF TypeOK, RowTypes
<1>2. \A c \in Ids : [block[c] EXCEPT !.state = "dropped"] \in BlockType
  BY <1>1 DEF BlockType
<1>3. [block EXCEPT ![b].state = "dropped"] \in [Ids -> BlockType]
  BY <1>1, <1>2
<1> QED BY <1>1, <1>3 DEF DropBlock

\* Where a request may be when it moves on: the new values the actions give
\* it are typed.
LEMMA ReqTyped ==
    ASSUME TypeOK, NEW r \in Requests
    PROVE  /\ req[r] \in ReqType
           /\ Idle \in ReqType
           /\ \A pc \in PcType : [req[r] EXCEPT !.pc = pc] \in ReqType
           /\ [Idle EXCEPT !.pc = "planned"] \in ReqType
           /\ \A p \in PlanType : [Idle EXCEPT !.pc = "planned", !.plan = p] \in ReqType
           /\ \A doc \in SessionType :
                [req[r] EXCEPT !.pc = "loaded", !.read = session, !.doc = doc] \in ReqType
           /\ \A i \in 0 .. MaxTurns, f \in BOOLEAN :
                [req[r] EXCEPT !.pc = "found", !.record = i, !.fresh = f] \in ReqType
           /\ \A i \in 0 .. MaxTurns, f \in BOOLEAN :
                [Idle EXCEPT !.pc = "visiting", !.record = i, !.fresh = f] \in ReqType
           /\ \A b \in Ids, i \in 0 .. MaxTurns :
                [req[r] EXCEPT !.pc = "teaching", !.turn = b, !.record = i, !.fresh = FALSE] \in ReqType
<1>1. req[r] \in ReqType
  BY DEF TypeOK
<1>2. Idle \in ReqType /\ session \in SessionType /\ Ids \subseteq 0 .. MaxTurns
  BY IdleTyped, AgentAssumption DEF TypeOK, RowTypes, Ids
<1>3. \A pc \in PcType : [req[r] EXCEPT !.pc = pc] \in ReqType
  BY <1>1 DEF ReqType
<1>4. [Idle EXCEPT !.pc = "planned"] \in ReqType
  BY <1>2 DEF ReqType, PcType
<1>5. \A p \in PlanType : [Idle EXCEPT !.pc = "planned", !.plan = p] \in ReqType
  BY <1>2 DEF ReqType, PcType
<1>6. \A doc \in SessionType :
        [req[r] EXCEPT !.pc = "loaded", !.read = session, !.doc = doc] \in ReqType
  BY <1>1, <1>2 DEF ReqType, PcType
<1>7. \A i \in 0 .. MaxTurns, f \in BOOLEAN :
        [req[r] EXCEPT !.pc = "found", !.record = i, !.fresh = f] \in ReqType
  BY <1>1 DEF ReqType, PcType
<1>8. \A b \in Ids, i \in 0 .. MaxTurns :
        [req[r] EXCEPT !.pc = "teaching", !.turn = b, !.record = i, !.fresh = FALSE] \in ReqType
  BY <1>1, <1>2 DEF ReqType, PcType
<1>9. \A i \in 0 .. MaxTurns, f \in BOOLEAN :
        [Idle EXCEPT !.pc = "visiting", !.record = i, !.fresh = f] \in ReqType
  BY <1>2 DEF ReqType, PcType
<1> QED BY <1>1, <1>2, <1>3, <1>4, <1>5, <1>6, <1>7, <1>8, <1>9

LEMMA LiveTyped == \A i : Live(i) => i \in Ids
BY DEF Live

LEMMA RetiresTyped ==
    ASSUME TypeOK, NEW b \in Nat, Retires(b)
    PROVE  block' \in [Ids -> BlockType] /\ orphaned' \in SUBSET Ids
<1>1. block' = block \/ block' = DropBlock(b)
  BY DEF Retires
<1>2. orphaned' = orphaned \/ orphaned' = Unretired(b)
  BY DEF Retires
<1>3. Unretired(b) \in SUBSET Ids
  BY DEF Unretired, TypeOK, HistoryTypes
<1> QED BY <1>1, <1>2, <1>3, DropBlockTyped DEF TypeOK, RowTypes, HistoryTypes

\* One lemma for the actions that only move a request, one step per action.
LEMMA StepTyped ==
    ASSUME TypeOK, [Next]_vars
    PROVE  TypeOK'
<1> USE DEF TypeOK
<1>i. ASSUME NEW r \in Requests, NEW x \in ReqType, Becomes(r, x)
      PROVE  req' \in [Requests -> ReqType]
  BY <1>i, BecomesTyped
<1>u. ASSUME UNCHANGED rows
      PROVE  RowTypes'
  BY <1>u DEF rows, RowTypes
<1>h. ASSUME UNCHANGED history
      PROVE  HistoryTypes'
  BY <1>h DEF history, HistoryTypes
<1>x. ASSUME NEW r \in Requests, crossed' = (crossed \/ Crosses(r)), UNCHANGED <<resets, orphaned>>
      PROVE  HistoryTypes'
  <2>1. crossed' \in BOOLEAN
    BY <1>x
  <2> QED BY <2>1, <1>x DEF HistoryTypes
<1>1. ASSUME NEW r \in Requests, Start(r)
      PROVE  TypeOK'
  <2>1. \A b \in Ids : PlanFor(b) \in PlanType
    <3> SUFFICES ASSUME NEW b \in Ids
                 PROVE  PlanFor(b) \in PlanType
      OBVIOUS
    <3>1. RowsFrom(b) \in SUBSET Ids /\ b \in 0 .. MaxTurns
      BY AgentAssumption DEF RowsFrom, Ids
    <3>2. (block[b].record \in controls) \in BOOLEAN
      OBVIOUS
    <3> QED BY <3>1, <3>2 DEF PlanFor, PlanType
  <2>2. \E x \in ReqType : Becomes(r, x)
    BY <1>1, <2>1, ReqTyped DEF Start
  <2>3. crossed' \in BOOLEAN
    <3>1. crossed' = (crossed \/ ~Alone)
      BY <1>1 DEF Start
    <3> QED BY <3>1 DEF HistoryTypes
  <2>4. HistoryTypes'
    BY <1>1, <2>3 DEF Start, HistoryTypes
  <2>5. UNCHANGED rows
    BY <1>1 DEF Start
  <2> QED BY <1>i, <1>u, <2>2, <2>4, <2>5
<1>2. ASSUME NEW r \in Requests, Load(r)
      PROVE  TypeOK'
  <2>1. \E x \in ReqType : Becomes(r, x)
    BY <1>2, ReqTyped, RestoreSessionTyped DEF Load
  <2> QED BY <1>2, <1>i, <1>u, <1>h, <2>1 DEF Load
<1>3. ASSUME NEW r \in Requests, LoadUnusable(r) \/ LoadEnds(r)
      PROVE  TypeOK'
  <2>1. \E x \in ReqType : Becomes(r, x)
    BY <1>3, ReqTyped DEF LoadUnusable, LoadEnds, Ends, PcType
  <2>2. UNCHANGED <<rows, history>>
    BY <1>3 DEF LoadUnusable, LoadEnds
  <2> QED BY <2>1, <2>2, <1>i, <1>u, <1>h
<1>4. ASSUME NEW r \in Requests, FindRecord(r)
      PROVE  TypeOK'
  <2>1. \E x \in ReqType : Becomes(r, x)
    <3>1. PICK i \in 0 .. MaxTurns :
            Becomes(r, [req[r] EXCEPT !.pc = "found", !.record = i, !.fresh = NotStarted(i)])
      BY <1>4 DEF FindRecord
    <3>2. NotStarted(i) \in BOOLEAN
      BY DEF NotStarted
    <3> QED BY <3>1, <3>2, ReqTyped
  <2> QED BY <2>1, <1>4, <1>i, <1>u, <1>h DEF FindRecord
<1>5. ASSUME NEW r \in Requests, Open(r)
      PROVE  TypeOK'
  <2> DEFINE b == opened + 1
             i == IF req[r].record = 0 THEN b ELSE req[r].record
  <2>1. b \in Ids /\ b \in 0 .. MaxTurns /\ i \in 0 .. MaxTurns
    <3>1. b \in Ids /\ req[r].record \in 0 .. MaxTurns
      BY <1>5 DEF Open, ReqType
    <3> QED BY <3>1, AgentAssumption DEF Ids
  <2>2. record' \in [Ids -> {"none", "fresh", "open", "completed", "reset"}]
    BY <1>5 DEF Open, RowTypes
  <2>3. [NoBlock EXCEPT !.state = "open", !.record = i] \in BlockType
    BY <2>1 DEF NoBlock, BlockType
  <2>4. block' \in [Ids -> BlockType]
    BY <1>5, <2>3 DEF Open, RowTypes
  <2>5. Becomes(r, [req[r] EXCEPT !.pc = "teaching", !.turn = b, !.record = i, !.fresh = FALSE])
    BY <1>5 DEF Open
  <2>6. req' \in [Requests -> ReqType]
    BY <2>1, <2>5, <1>i, ReqTyped
  <2>7. RowTypes'
    BY <1>5, <2>1, <2>2, <2>4 DEF Open, RowTypes
  <2>8. crossed' = (crossed \/ Crosses(r)) /\ UNCHANGED <<resets, orphaned>>
    BY <1>5 DEF Open
  <2> QED BY <2>6, <2>7, <2>8, <1>x
<1>6. ASSUME NEW r \in Requests, NEW outcome \in Outcomes, NEW text \in BOOLEAN,
             BeginSave(r, outcome, text)
      PROVE  TypeOK'
  <2>1. [req[r] EXCEPT !.pc = "saving", !.outcome = outcome, !.text = text,
                       !.row = (session # Fresh)] \in ReqType
    <3>1. req[r] \in ReqType /\ (session # Fresh) \in BOOLEAN
      BY ReqTyped
    <3> QED BY <3>1 DEF ReqType, PcType
  <2> QED BY <2>1, <1>6, <1>i, <1>u, <1>h DEF BeginSave
<1>7. ASSUME NEW r \in Requests, GoOn(r) \/ Finish(r)
      PROVE  TypeOK'
  <2>1. \E x \in ReqType : Becomes(r, x)
    BY <1>7, ReqTyped DEF GoOn, Finish, Ends
  <2>2. UNCHANGED <<rows, history>>
    BY <1>7 DEF GoOn, Finish
  <2> QED BY <2>1, <2>2, <1>i, <1>u, <1>h
<1>8. ASSUME NEW r \in Requests, Commit(r)
      PROVE  TypeOK'
  <2>1. record' \in [Ids -> {"none", "fresh", "open", "completed", "reset"}]
    BY <1>8 DEF Commit, RowTypes
  <2>2. block' \in [Ids -> BlockType]
    BY <1>8, SavedBlocksTyped DEF Commit
  <2>3. [Taught(r) EXCEPT !.writer = req[r].turn] \in SessionType
    <3>1. Taught(r) \in SessionType /\ req[r].turn \in Nat
      BY TaughtTyped, AgentAssumption DEF ReqType
    <3> QED BY <3>1 DEF SessionType
  <2>4. controls' \in SUBSET (0 .. MaxTurns)
    BY <1>8 DEF Commit, RowTypes
  <2>5. crossed' \in BOOLEAN
    <3>1. crossed' = (crossed \/ session # req[r].read)
      BY <1>8 DEF Commit
    <3> QED BY <3>1 DEF HistoryTypes
  <2>6. RowTypes' /\ HistoryTypes'
    BY <1>8, <2>1, <2>2, <2>3, <2>4, <2>5 DEF Commit, RowTypes, HistoryTypes
  <2>7. [Idle EXCEPT !.pc = "saved", !.record = req[r].record, !.turn = req[r].turn,
                     !.outcome = req[r].outcome, !.text = req[r].text] \in ReqType
    <3>1. req[r] \in ReqType /\ Idle \in ReqType
      BY ReqTyped
    <3> QED BY <3>1 DEF ReqType, PcType
  <2>8. req' \in [Requests -> ReqType]
    BY <1>8, <1>i, <2>7 DEF Commit
  <2> QED BY <2>6, <2>8
<1>9. ASSUME NEW r \in Requests, InsertLost(r) \/ Abandon(r)
      PROVE  TypeOK'
  <2>1. block' \in [Ids -> BlockType] /\ orphaned' \in SUBSET Ids
    <3>1. req[r].turn \in Nat /\ Retires(req[r].turn)
      BY <1>9, AgentAssumption DEF ReqType, InsertLost, Abandon
    <3> QED BY <3>1, RetiresTyped
  <2>2. req' \in [Requests -> ReqType]
    BY <1>9, <1>i, ReqTyped DEF InsertLost, Abandon, Ends
  <2>3. UNCHANGED <<record, opened, session, controls, handed, resets, crossed>>
    BY <1>9 DEF InsertLost, Abandon
  <2> QED BY <2>1, <2>2, <2>3 DEF RowTypes, HistoryTypes
<1>10. ASSUME NEW r \in Requests, Progress(r)
       PROVE  TypeOK'
  <2>1. record' \in [Ids -> {"none", "fresh", "open", "completed", "reset"}] /\ handed' \in BOOLEAN
    BY <1>10 DEF Progress, RowTypes
  <2>2. Becomes(r, [req[r] EXCEPT !.pc = "progressed"])
    BY <1>10 DEF Progress, Moves
  <2>3. req' \in [Requests -> ReqType]
    BY <2>2, <1>i, ReqTyped DEF PcType
  <2> QED BY <1>10, <2>1, <2>3, <1>h DEF Progress, RowTypes
<1>11. ASSUME NEW r \in Requests, OfferNext(r)
       PROVE  TypeOK'
  <2>1. req[r].record \in 0 .. MaxTurns
    BY DEF ReqType
  <2>2. req' \in [Requests -> ReqType]
    BY <1>11, <1>i, ReqTyped DEF OfferNext, Ends
  <2> QED BY <1>11, <2>1, <2>2, <1>h DEF OfferNext, RowTypes
<1>12. ASSUME NEW r \in Requests,
              Visit(r) \/ HandOver(r) \/ \E status \in {"fresh", "open"} : Announce(r, status)
       PROVE  TypeOK'
  <2>1. \E x \in ReqType : Becomes(r, x)
    <3>1. CASE Visit(r)
      <4>1. PICK i \in 0 .. MaxTurns :
              Becomes(r, [Idle EXCEPT !.pc = "visiting", !.record = i, !.fresh = NotStarted(i)])
        BY <3>1 DEF Visit
      <4>2. NotStarted(i) \in BOOLEAN
        BY DEF NotStarted
      <4> QED BY <4>1, <4>2, ReqTyped
    <3>2. CASE ~Visit(r)
      BY <1>12, <3>2, ReqTyped DEF HandOver, Announce, Ends
    <3> QED BY <3>1, <3>2
  <2>2. req' \in [Requests -> ReqType]
    BY <2>1, <1>i
  <2>3. CASE Visit(r)
    BY <2>2, <2>3, <1>u, <1>h DEF Visit
  <2>4. CASE HandOver(r)
    <3>1. record' \in [Ids -> {"none", "fresh", "open", "completed", "reset"}]
      BY <2>4 DEF HandOver, RowTypes
    <3>2. RowTypes'
      BY <2>4, <3>1 DEF HandOver, RowTypes
    <3>3. crossed' = (crossed \/ Crosses(r)) /\ UNCHANGED <<resets, orphaned>>
      BY <2>4 DEF HandOver
    <3> QED BY <2>2, <3>2, <3>3, <1>x
  <2>5. ASSUME NEW status \in {"fresh", "open"}, Announce(r, status)
        PROVE  TypeOK'
    <3>1. record' \in [Ids -> {"none", "fresh", "open", "completed", "reset"}]
      BY <2>5 DEF Announce, RowTypes
    <3>2. opened' \in 0 .. MaxTurns
      BY <2>5, AgentAssumption DEF Announce, RowTypes, Ids
    <3>3. RowTypes'
      BY <2>5, <3>1, <3>2 DEF Announce, RowTypes
    <3>4. crossed' = (crossed \/ Crosses(r)) /\ UNCHANGED <<resets, orphaned>>
      BY <2>5 DEF Announce
    <3> QED BY <2>2, <3>3, <3>4, <1>x
  <2> QED BY <1>12, <2>3, <2>4, <2>5
<1>13. ASSUME NEW r \in Requests, Discard(r) \/ Die(r)
       PROVE  TypeOK'
  <2>1. orphaned' \in SUBSET Ids
    BY <1>13 DEF Discard, Die, Unretired, HistoryTypes
  <2>2. req' \in [Requests -> ReqType]
    BY <1>13, <1>i, ReqTyped DEF Discard, Die, Ends
  <2>3. RowTypes' /\ UNCHANGED <<resets, crossed>>
    BY <1>13, <1>u DEF Discard, Die
  <2> QED BY <2>1, <2>2, <2>3 DEF HistoryTypes
<1>14. ASSUME Reset
       PROVE  TypeOK'
  <2>1. record' \in [Ids -> {"none", "fresh", "open", "completed", "reset"}]
    <3>1. \A i \in Ids : record[i] \in {"none", "fresh", "open", "completed", "reset"}
      BY DEF RowTypes
    <3> QED BY <1>14, <3>1 DEF Reset
  <2>2. session' \in SessionType
    BY <1>14, IdleTyped DEF Reset
  <2>3. resets' \in 0 .. MaxResets
    BY <1>14, AgentAssumption DEF Reset, HistoryTypes
  <2> QED BY <1>14, <2>1, <2>2, <2>3 DEF Reset, RowTypes, HistoryTypes
<1>15. ASSUME UNCHANGED vars
       PROVE  TypeOK'
  BY <1>15 DEF vars, RowTypes, HistoryTypes
<1> QED BY <1>1, <1>2, <1>3, <1>4, <1>5, <1>6, <1>7, <1>8, <1>9, <1>10, <1>11, <1>12,
           <1>13, <1>14, <1>15 DEF Next

LEMMA InitTyped ==
    ASSUME Init
    PROVE  TypeOK
<1>1. handed \in BOOLEAN /\ crossed \in BOOLEAN
  BY Zenon DEF Init
<1>2. RowTypes
  <2>1. record \in [Ids -> {"none", "fresh", "open", "completed", "reset"}]
    BY DEF Init
  <2>2. block \in [Ids -> BlockType]
    BY IdleTyped DEF Init
  <2>3. opened \in 0 .. MaxTurns /\ session \in SessionType /\ controls \in SUBSET (0 .. MaxTurns)
    BY IdleTyped, AgentAssumption DEF Init
  <2> QED BY <1>1, <2>1, <2>2, <2>3 DEF RowTypes
<1>3. HistoryTypes
  <2>1. resets \in 0 .. MaxResets /\ orphaned \in SUBSET Ids
    BY AgentAssumption DEF Init
  <2> QED BY <1>1, <2>1 DEF HistoryTypes
<1>4. req \in [Requests -> ReqType]
  BY IdleTyped DEF Init
<1> QED BY <1>2, <1>3, <1>4 DEF TypeOK

\* Every variable stays in its range, in every behaviour.
THEOREM TypeCorrect == Spec => []TypeOK
<1>1. Init => TypeOK
  BY InitTyped
<1>2. TypeOK /\ [Next]_vars => TypeOK'
  BY StepTyped
<1> QED BY <1>1, <1>2, PTL DEF Spec

------------------------------------------------------------------------------
(* Resets.  A turn that was opened keeps its block, and the block its      *)
(* record; a request that saves holds a record that no reset can take.     *)

Past == {"teaching", "saving", "saved", "progressed"}

\* What a request holds.
RequestSound(r) ==
    /\ req[r].pc \in {"found", "visiting"} /\ req[r].record # 0 => record[req[r].record] # "none"
    /\ req[r].pc \notin Past => req[r].turn = 0
    /\ req[r].pc \in Past =>
        /\ req[r].turn \in 1 .. opened
        /\ req[r].record \in Ids
        /\ block[req[r].turn].record = req[r].record
        /\ record[req[r].record] # "none"
    /\ req[r].pc = "saving" => Live(req[r].record)
    /\ req[r].pc \in {"saved", "progressed"} => block[req[r].turn].state # "open"

RequestsSound == \A r \in Requests : RequestSound(r)
RecordsSound == \A i \in Ids : i > opened => record[i] = "none"
BlocksSound ==
    \A b \in Ids : block[b].state = "open" =>
        b <= opened /\ block[b].record \in Ids /\ ~block[b].text
SessionSound ==
    session # Fresh => session.writer \in 1 .. opened /\ Live(block[session.writer].record)

Sound == RequestsSound /\ RecordsSound /\ BlocksSound /\ SessionSound
IInv == TypeOK /\ Sound /\ NoTurnLeftOpen

\* What no step takes back.
Keeps ==
    /\ opened <= opened'
    /\ \A b \in 1 .. opened : block'[b].record = block[b].record
    /\ \A b \in Ids : block'[b].state = "open" =>
        \/ block[b].state = "open" /\ block'[b].text = block[b].text
        \/ opened < b /\ b <= opened' /\ block'[b].record \in Ids /\ ~block'[b].text
    /\ \A i \in Ids :
        /\ record[i] # "none" => record'[i] # "none"
        /\ record'[i] # "none" => record[i] # "none" \/ i <= opened'
        /\ record[i] = "reset" =>
            record'[i] = "reset" \/ (record'[i] = "open" /\ ReadNotStarted(i))
    /\ orphaned \subseteq orphaned'

\* A request that lets go of its turn leaves no open block.
Leaves(r) ==
    \A b \in Ids : req[r].turn = b /\ block'[b].state = "open" =>
        req'[r].turn = b \/ b \in orphaned'

\* What a step of request r does.
StepOf(r) ==
    /\ Keeps
    /\ \A i : Live(i) => Live(i)'
    /\ RequestSound(r)'
    /\ Leaves(r)
    /\ SessionSound'
    /\ \A b \in Ids : opened < b /\ block'[b].state = "open" => req'[r].turn = b
    /\ \A s \in Requests \ {r} : req'[s] = req[s]

\* Who does not move stays sound.
LEMMA StaysSound ==
    ASSUME TypeOK, TypeOK', Keeps, NEW s \in Requests, RequestSound(s), req'[s] = req[s],
           req[s].pc = "saving" => (Live(req[s].record) => Live(req[s].record)')
    PROVE  RequestSound(s)'
<1>1. /\ opened \in Nat /\ opened \in 0 .. MaxTurns
      /\ req[s].record \in 0 .. MaxTurns
      /\ opened' \in Nat
  BY AgentAssumption DEF TypeOK, RowTypes, ReqType
<1>3. req[s].pc \in {"found", "visiting"} /\ req[s].record # 0 => record'[req[s].record] # "none"
  BY <1>1, AgentAssumption DEF RequestSound, Keeps, Ids
<1>4. req[s].pc \in Past =>
        /\ req[s].turn \in 1 .. opened
        /\ req[s].turn \in 1 .. opened'
        /\ req[s].record \in Ids
        /\ block'[req[s].turn].record = req[s].record
        /\ record'[req[s].record] # "none"
  BY <1>1 DEF RequestSound, Keeps
<1>5. req[s].pc \in {"saved", "progressed"} => block'[req[s].turn].state # "open"
  <2> SUFFICES ASSUME req[s].pc \in {"saved", "progressed"}
               PROVE  block'[req[s].turn].state # "open"
    OBVIOUS
  <2>1. req[s].turn \in 1 .. opened /\ block[req[s].turn].state # "open"
    BY <1>4 DEF RequestSound, Past
  <2>2. req[s].turn \in Ids /\ ~(opened < req[s].turn)
    BY <1>1, <2>1, AgentAssumption DEF Ids
  <2> QED BY <2>1, <2>2 DEF Keeps
<1>6. req[s].pc \notin Past => req[s].turn = 0
  BY DEF RequestSound
<1>7. req[s].pc = "saving" => Live(req[s].record)'
  BY DEF RequestSound
<1> QED BY <1>3, <1>4, <1>5, <1>6, <1>7 DEF RequestSound, Live, Past

\* A request at rest holds nothing.
LEMMA RestSound ==
    ASSUME NEW r \in Requests, req'[r].turn = 0,
           req'[r].pc \in {"idle", "planned", "loaded"}
    PROVE  RequestSound(r)'
BY DEF RequestSound, Past

LEMMA Became ==
    ASSUME TypeOK, NEW r \in Requests, NEW x, Becomes(r, x)
    PROVE  /\ req'[r] = x
           /\ \A s \in Requests \ {r} : req'[s] = req[s]
BY DEF Becomes, TypeOK

\* The session stays sound while it is not written.
LEMMA SessionStays ==
    ASSUME TypeOK, TypeOK', SessionSound, Keeps, \A i : Live(i) => Live(i)', session' = session
    PROVE  SessionSound'
<1>1. opened \in Nat /\ opened' \in Nat
  BY AgentAssumption DEF TypeOK, RowTypes
<1> SUFFICES ASSUME session # Fresh
             PROVE  session.writer \in 1 .. opened' /\ Live(block[session.writer].record)'
  BY DEF SessionSound
<1>2. session.writer \in 1 .. opened /\ Live(block[session.writer].record)
  BY DEF SessionSound
<1>3. block'[session.writer].record = block[session.writer].record
  BY <1>2 DEF Keeps
<1>4. Live(block[session.writer].record)'
  BY <1>2, <1>3 DEF Live
<1> QED BY <1>1, <1>2, <1>4 DEF Keeps

\* Steps that write no row.
LEMMA RowsStay ==
    ASSUME TypeOK, TypeOK', Sound, UNCHANGED rows, orphaned \subseteq orphaned'
    PROVE  /\ Keeps
           /\ \A i : Live(i) => Live(i)'
           /\ SessionSound'
           /\ \A b \in Ids : block'[b].state = "open" => ~(opened < b)
<1>1. opened \in Nat /\ opened' = opened /\ record' = record /\ block' = block /\ session' = session
  BY AgentAssumption DEF TypeOK, RowTypes, rows
<1>2. Keeps
  BY <1>1 DEF Keeps
<1>3. \A i : Live(i) => Live(i)'
  BY <1>1 DEF Live
<1>4. SessionSound'
  BY <1>2, <1>3, <1>1, SessionStays DEF Sound
<1>5. \A b \in Ids : block'[b].state = "open" => ~(opened < b)
  BY <1>1 DEF Ids, Sound, BlocksSound
<1> QED BY <1>2, <1>3, <1>4, <1>5

\* The steps of a request that has no turn yet, but for Open.
LEMMA EarlySteps ==
    ASSUME TypeOK, TypeOK', Sound, NEW r \in Requests,
           Start(r) \/ Load(r) \/ LoadUnusable(r) \/ LoadEnds(r) \/ FindRecord(r) \/ Visit(r)
    PROVE  StepOf(r)
<1>0. req[r] \in ReqType
  BY ReqTyped
<1>1. UNCHANGED <<rows, orphaned>>
  BY DEF Start, Load, LoadUnusable, LoadEnds, FindRecord, Visit, history
<1>2. req[r].turn = 0
  BY DEF Start, Load, LoadUnusable, LoadEnds, FindRecord, Visit, Sound, RequestsSound,
     RequestSound, Past
<1>3. \E x : Becomes(r, x)
  BY DEF Start, Load, LoadUnusable, LoadEnds, FindRecord, Visit, Ends
<1>4. RequestSound(r)'
  <2>1. CASE Start(r) \/ LoadEnds(r)
    <3> DEFINE at(x) == x.turn = 0 /\ x.pc \in {"idle", "planned"}
    <3>1. /\ at(Idle) /\ at([Idle EXCEPT !.pc = "planned"])
          /\ \A p : at([Idle EXCEPT !.pc = "planned", !.plan = p])
      BY DEF Idle
    <3>2. \E x : Becomes(r, x) /\ at(x)
      <4> HIDE DEF at
      <4>1. CASE Start(r)
        BY <3>1, <4>1, Zenon DEF Start
      <4>2. CASE LoadEnds(r)
        BY <3>1, <4>2, Zenon DEF LoadEnds, Ends
      <4> QED BY <2>1, <4>1, <4>2
    <3> QED BY <3>2, Became, RestSound
  <2>2. CASE Load(r) \/ LoadUnusable(r)
    <3> DEFINE at(x) == x.turn = 0 /\ x.pc = "loaded"
    <3>1. /\ at([req[r] EXCEPT !.pc = "loaded"])
          /\ \A read, doc : at([req[r] EXCEPT !.pc = "loaded", !.read = read, !.doc = doc])
      BY <1>2, <1>0 DEF ReqType
    <3>2. \E x : Becomes(r, x) /\ at(x)
      <4> HIDE DEF at
      <4> QED BY <3>1, <2>2, Zenon DEF Load, LoadUnusable
    <3> QED BY <3>2, Became, RestSound
  <2>3. CASE FindRecord(r) \/ Visit(r)
    <3>1. PICK i \in 0 .. MaxTurns :
            /\ IsNewest(i)
            /\ \/ Becomes(r, [req[r] EXCEPT !.pc = "found", !.record = i, !.fresh = NotStarted(i)])
               \/ Becomes(r, [Idle EXCEPT !.pc = "visiting", !.record = i, !.fresh = NotStarted(i)])
      BY <2>3 DEF FindRecord, Visit
    <3>2. req'[r].pc \in {"found", "visiting"} /\ req'[r].record = i /\ req'[r].turn = 0
      <4>1. \/ req'[r] = [req[r] EXCEPT !.pc = "found", !.record = i, !.fresh = NotStarted(i)]
            \/ req'[r] = [Idle EXCEPT !.pc = "visiting", !.record = i, !.fresh = NotStarted(i)]
        BY <3>1, Became
      <4> QED BY <4>1, <1>0, <1>2 DEF ReqType, Idle
    <3>3. i # 0 => record[i] # "none"
      BY <3>1 DEF IsNewest, LiveRecords, Live
    <3>4. record' = record
      BY <1>1 DEF rows
    <3> QED BY <3>2, <3>3, <3>4 DEF RequestSound, Past
  <2> QED BY <2>1, <2>2, <2>3
<1>5. Leaves(r)
  BY <1>2, AgentAssumption DEF Leaves, Ids
<1> QED BY <1>1, <1>3, <1>4, <1>5, RowsStay, Became DEF StepOf

LEMMA OpenStep ==
    ASSUME TypeOK, TypeOK', Sound, NEW r \in Requests, Open(r)
    PROVE  StepOf(r)
<1> DEFINE b == opened + 1
           i == IF req[r].record = 0 THEN b ELSE req[r].record
<1>0. /\ req[r] \in ReqType
      /\ opened \in Nat /\ b \in Ids /\ opened' = b
      /\ req[r].turn = 0
  <2>1. req[r] \in ReqType
    BY ReqTyped
  <2>2. opened \in Nat
    BY AgentAssumption DEF TypeOK, RowTypes
  <2>3. b \in Ids /\ opened' = b /\ req[r].pc = "found"
    BY DEF Open
  <2>4. req[r].turn = 0
    BY <2>3 DEF Sound, RequestsSound, RequestSound, Past
  <2> QED BY <2>1, <2>2, <2>3, <2>4
<1>1. /\ record' = IF req[r].record = 0 \/ req[r].fresh THEN [record EXCEPT ![i] = "open"] ELSE record
      /\ block' = [block EXCEPT ![b] = [NoBlock EXCEPT !.state = "open", !.record = i]]
      /\ session' = session /\ orphaned' = orphaned
      /\ Becomes(r, [req[r] EXCEPT !.pc = "teaching", !.turn = b, !.record = i, !.fresh = FALSE])
  BY DEF Open
<1>2. i \in Ids /\ record'[i] # "none"
  <2>1. req[r].record \in 0 .. MaxTurns /\ record \in [Ids -> {"none", "fresh", "open", "completed", "reset"}]
    BY <1>0 DEF ReqType, TypeOK, RowTypes
  <2>2. CASE req[r].record = 0
    BY <2>1, <2>2, <1>0, <1>1
  <2>3. CASE req[r].record # 0
    <3>1. req[r].record \in Ids
      BY <2>1, <2>3, AgentAssumption DEF Ids
    <3>2. record[req[r].record] # "none"
      BY <2>3 DEF Open, Sound, RequestsSound, RequestSound
    <3> QED BY <2>1, <3>1, <3>2, <2>3, <1>1
  <2> QED BY <2>2, <2>3
<1>3. block'[b].record = i /\ block'[b].state = "open" /\ ~block'[b].text
  <2>1. block'[b] = [NoBlock EXCEPT !.state = "open", !.record = i]
    BY <1>0, <1>1 DEF TypeOK, RowTypes
  <2> QED BY <2>1 DEF NoBlock
<1>4. \A c \in Ids : c # b => block'[c] = block[c]
  BY <1>1 DEF TypeOK, RowTypes
<1>5. req'[r].pc = "teaching" /\ req'[r].turn = b /\ req'[r].record = i
  <2>1. req'[r] = [req[r] EXCEPT !.pc = "teaching", !.turn = b, !.record = i, !.fresh = FALSE]
    BY <1>1, Became
  <2> HIDE DEF i, b
  <2> QED BY <2>1, <1>0 DEF ReqType
<1>6. \A j \in Ids :
        \/ record'[j] = record[j]
        \/ record'[j] = "open" /\ (IF j = b THEN record[j] = "none" ELSE
                                   record[j] # "none" /\ ReadNotStarted(j))
  <2>1. record[b] = "none"
    <3>1. b > opened
      BY <1>0
    <3> QED BY <1>0, <3>1 DEF Sound, RecordsSound
  <2>2. record \in [Ids -> {"none", "fresh", "open", "completed", "reset"}]
    BY DEF TypeOK, RowTypes
  <2>3. req[r].pc = "found"
    BY DEF Open
  <2>4. CASE req[r].record = 0
    BY <2>1, <2>2, <2>4, <1>0, <1>1
  <2>5. CASE req[r].record # 0 /\ req[r].fresh
    <3>1. i = req[r].record /\ record' = [record EXCEPT ![i] = "open"]
      BY <2>5, <1>1
    <3>2. record[i] # "none" /\ ReadNotStarted(i)
      BY <2>3, <2>5, <3>1, <1>2 DEF ReadNotStarted, Sound, RequestsSound, RequestSound
    <3> HIDE DEF b, i
    <3> QED BY <2>1, <2>2, <3>1, <3>2, <1>2
  <2>6. CASE req[r].record # 0 /\ ~req[r].fresh
    BY <2>6, <1>1
  <2> QED BY <2>4, <2>5, <2>6
<1> HIDE DEF i
<1>7. Keeps
  <2>1. \A c \in 1 .. opened : block'[c].record = block[c].record
    BY <1>0, <1>4, AgentAssumption DEF Ids
  <2>2. \A c \in Ids : block'[c].state = "open" =>
            \/ block[c].state = "open" /\ block'[c].text = block[c].text
            \/ opened < c /\ c <= opened' /\ block'[c].record \in Ids /\ ~block'[c].text
    BY <1>0, <1>2, <1>3, <1>4
  <2>3. \A j \in Ids :
            /\ record[j] # "none" => record'[j] # "none"
            /\ record'[j] # "none" => record[j] # "none" \/ j <= opened'
            /\ record[j] = "reset" =>
                 record'[j] = "reset" \/ (record'[j] = "open" /\ ReadNotStarted(j))
    BY <1>0, <1>6
  <2> QED BY <1>0, <1>1, <2>1, <2>2, <2>3 DEF Keeps
<1>8. \A j : Live(j) => Live(j)'
  BY <1>6 DEF Live
<1>9. RequestSound(r)'
  <2>1. b \in 1 .. opened'
    BY <1>0
  <2> QED BY <2>1, <1>2, <1>3, <1>5 DEF RequestSound, Past
<1>10. Leaves(r)
  BY <1>0, AgentAssumption DEF Leaves, Ids
<1>11. SessionSound'
  BY <1>1, <1>7, <1>8, SessionStays DEF Sound
<1>12. \A c \in Ids : opened < c /\ block'[c].state = "open" => req'[r].turn = c
  BY <1>0, <1>4, <1>5 DEF Sound, BlocksSound, Ids
<1> QED BY <1>1, <1>7, <1>8, <1>9, <1>10, <1>11, <1>12, Became DEF StepOf

\* A record that someone else asked for.
LEMMA VisitSteps ==
    ASSUME TypeOK, TypeOK', Sound, NEW r \in Requests,
           HandOver(r) \/ \E status \in {"fresh", "open"} : Announce(r, status)
    PROVE  StepOf(r)
<1>0. /\ opened \in Nat /\ opened \in 0 .. MaxTurns /\ record \in [Ids -> {"none", "fresh", "open", "completed", "reset"}]
      /\ req[r].pc = "visiting" /\ req[r].turn = 0 /\ RequestSound(r)
  BY AgentAssumption
     DEF HandOver, Announce, TypeOK, RowTypes, Sound, RequestsSound, RequestSound, Past
<1>1. /\ block' = block /\ session' = session /\ orphaned' = orphaned
      /\ req'[r] = Idle /\ \A s \in Requests \ {r} : req'[s] = req[s]
  BY Became DEF HandOver, Announce, Ends
<1>2. PICK i, s :
        /\ record' = [record EXCEPT ![i] = s]
        /\ \/ /\ s = "open" /\ opened' = opened
              /\ i \in Ids => record[i] # "none" /\ ReadNotStarted(i)
           \/ s \in {"fresh", "open"} /\ i = opened + 1 /\ i \in Ids /\ opened' = opened + 1
  <2>1. CASE HandOver(r)
    <3>1. record' = [record EXCEPT ![req[r].record] = "open"] /\ opened' = opened /\ req[r].fresh
      BY <2>1 DEF HandOver
    <3>2. req[r].record \in Ids => record[req[r].record] # "none" /\ ReadNotStarted(req[r].record)
      BY <3>1, <1>0, AgentAssumption DEF RequestSound, ReadNotStarted, Ids
    <3> QED BY <3>1, <3>2
  <2>2. ASSUME NEW status \in {"fresh", "open"}, Announce(r, status)
        PROVE  record' = [record EXCEPT ![opened + 1] = status]
               /\ opened + 1 \in Ids /\ opened' = opened + 1
    BY <2>2 DEF Announce
  <2> QED BY <2>1, <2>2
<1>3. \A j \in Ids : j > opened => record[j] = "none"
  BY DEF Sound, RecordsSound
<1>4. \A j \in Ids :
        \/ record'[j] = record[j]
        \/ /\ record'[j] \in {"fresh", "open"}
           /\ \/ record[j] = "none" /\ j <= opened'
              \/ record[j] # "none" /\ record'[j] = "open" /\ ReadNotStarted(j)
  <2> SUFFICES ASSUME NEW j \in Ids
               PROVE  \/ record'[j] = record[j]
                      \/ /\ record'[j] \in {"fresh", "open"}
                         /\ \/ record[j] = "none" /\ j <= opened'
                            \/ record[j] # "none" /\ record'[j] = "open" /\ ReadNotStarted(j)
    OBVIOUS
  <2>1. CASE j # i
    BY <2>1, <1>0, <1>2
  <2>2. CASE j = i
    <3>1. record'[j] = s
      BY <2>2, <1>0, <1>2
    <3>2. j = opened + 1 => record[j] = "none" /\ j <= opened + 1
      BY <1>0, <1>3 DEF Ids
    <3> QED BY <2>2, <3>1, <3>2, <1>2
  <2> QED BY <2>1, <2>2
<1>5. opened <= opened'
  BY <1>0, <1>2
<1>6. Keeps
  BY <1>1, <1>4, <1>5 DEF Keeps
<1>7. \A j : Live(j) => Live(j)'
  BY <1>4 DEF Live
<1>8. RequestSound(r)'
  BY <1>1, RestSound DEF Idle
<1>9. Leaves(r)
  BY <1>0, AgentAssumption DEF Leaves, Ids
<1>10. SessionSound'
  BY <1>1, <1>6, <1>7, SessionStays DEF Sound
<1>11. \A c \in Ids : block'[c].state = "open" => ~(opened < c)
  BY <1>0, <1>1 DEF Sound, BlocksSound, Ids
<1> QED BY <1>1, <1>6, <1>7, <1>8, <1>9, <1>10, <1>11 DEF StepOf

\* Steps that only move a request; a live block is left by none of them.
LEMMA QuietSteps ==
    ASSUME TypeOK, TypeOK', Sound, NEW r \in Requests,
           \/ \E outcome \in Outcomes, text \in BOOLEAN : BeginSave(r, outcome, text)
           \/ Discard(r) \/ GoOn(r) \/ Finish(r) \/ Die(r)
    PROVE  StepOf(r)
<1>0. /\ req[r] \in ReqType
      /\ RequestSound(r)
      /\ record' = record /\ block' = block /\ opened' = opened
  BY ReqTyped DEF BeginSave, Discard, GoOn, Finish, Die, rows, Sound, RequestsSound
<1>1. UNCHANGED rows /\ orphaned \subseteq orphaned'
  <2>1. CASE Die(r) \/ Discard(r)
    BY <2>1 DEF Die, Discard, Unretired
  <2>2. CASE ~(Die(r) \/ Discard(r))
    BY <2>2 DEF BeginSave, Discard, GoOn, Finish, history
  <2> QED BY <2>1, <2>2
<1>2. \E x : Becomes(r, x)
  BY DEF BeginSave, Discard, GoOn, Finish, Die, Ends
<1>3. RequestSound(r)' /\ Leaves(r)
  <2>1. ASSUME NEW outcome \in Outcomes, NEW text \in BOOLEAN, BeginSave(r, outcome, text)
        PROVE  RequestSound(r)' /\ Leaves(r)
    <3>1. req'[r] = [req[r] EXCEPT !.pc = "saving", !.outcome = outcome, !.text = text,
                                   !.row = (session # Fresh)]
      BY <2>1, Became DEF BeginSave
    <3>2. req'[r].pc = "saving" /\ req'[r].turn = req[r].turn /\ req'[r].record = req[r].record
      BY <3>1, <1>0 DEF ReqType
    <3>3. req[r].pc = "teaching" /\ Live(req[r].record)
      BY <2>1 DEF BeginSave
    <3> QED BY <1>0, <3>2, <3>3 DEF RequestSound, Past, Live, Leaves
  <2>2. ASSUME Discard(r) \/ GoOn(r) \/ Finish(r) \/ Die(r)
        PROVE  RequestSound(r)'
    <3>1. req'[r].turn = 0 /\ req'[r].pc \in {"idle", "planned"}
      <4>1. req'[r] = Idle \/ req'[r] = [Idle EXCEPT !.pc = "planned"]
        BY <2>2, Became DEF Discard, GoOn, Finish, Die, Ends
      <4> QED BY <4>1 DEF Idle
    <3> QED BY <3>1, RestSound
  <2>3. CASE Discard(r) \/ Die(r)
    <3>1. orphaned' = Unretired(req[r].turn)
      BY <2>3 DEF Discard, Die
    <3>2. ASSUME NEW b \in Ids, req[r].turn = b, block'[b].state = "open"
          PROVE  b \in orphaned'
      BY <1>0, <3>1, <3>2 DEF Unretired
    <3>3. Leaves(r)
      BY <3>2 DEF Leaves
    <3> QED BY <2>2, <2>3, <3>3
  <2>4. CASE GoOn(r) \/ Finish(r)
    <3>1. block[req[r].turn].state # "open"
      BY <1>0, <2>4 DEF GoOn, Finish, RequestSound
    <3> QED BY <1>0, <2>2, <2>4, <3>1 DEF Leaves
  <2> QED BY <2>1, <2>3, <2>4, <2>2
<1> QED BY <1>1, <1>2, <1>3, RowsStay, Became DEF StepOf

\* Steps that fill in, retire or drop blocks, or complete a live record.
LEMMA RowsMove ==
    ASSUME TypeOK, TypeOK', opened' = opened, orphaned \subseteq orphaned', RecordsSound, BlocksSound,
           \A c \in Ids : /\ block'[c].record = block[c].record
                          /\ block'[c].state = "open" => block'[c] = block[c],
           \A i \in Ids : record'[i] = record[i] \/ (Live(i) /\ record'[i] = "completed")
    PROVE  /\ Keeps /\ \A i : Live(i) => Live(i)'
           /\ \A c \in Ids : block'[c].state = "open" => ~(opened < c)
<1>1. opened \in Nat /\ 1 .. opened \subseteq Ids
  BY AgentAssumption DEF TypeOK, RowTypes, Ids
<1>2. \A i \in Ids :
        /\ record[i] # "none" => record'[i] # "none"
        /\ record'[i] # "none" => record[i] # "none" \/ i <= opened'
        /\ record[i] = "reset" => record'[i] = "reset"
  BY DEF Live
<1>3. Keeps
  BY <1>1, <1>2 DEF Keeps
<1>4. \A i : Live(i) => Live(i)'
  BY DEF Live
<1> QED BY <1>1, <1>3, <1>4 DEF Ids, BlocksSound

LEMMA CommitStep ==
    ASSUME TypeOK, TypeOK', Sound, NEW r \in Requests, Commit(r)
    PROVE  StepOf(r)
<1>0. /\ req[r] \in ReqType
      /\ RequestSound(r)
      /\ req[r].pc = "saving" /\ Live(req[r].record)
      /\ opened' = opened /\ orphaned' = orphaned
      /\ block' = SavedBlocks(r)
      /\ req[r].turn \in 1 .. opened
  BY ReqTyped DEF Commit, Sound, RequestsSound, RequestSound, Past
<1>1. \A c \in Ids : /\ block'[c].record = block[c].record
                     /\ block'[c].state = "open" => block'[c] = block[c]
  <2> SUFFICES ASSUME NEW c \in Ids
               PROVE  /\ block'[c].record = block[c].record
                      /\ block'[c].state = "open" => block'[c] = block[c]
    OBVIOUS
  <2>1. block[c] \in BlockType
    BY DEF TypeOK, RowTypes
  <2>2. /\ Recorded(r, block[c]).record = block[c].record
        /\ Recorded(r, block[c]).state # "open"
    BY <2>1 DEF Recorded, BlockType
  <2>3. /\ Retired(r, block[c]).record = block[c].record
        /\ Retired(r, block[c]).state # "open"
    BY <2>1 DEF Retired, BlockType
  <2>4. block'[c] \in {Recorded(r, block[c]), Retired(r, block[c]), block[c]}
    BY <1>0 DEF SavedBlocks
  <2> QED BY <2>2, <2>3, <2>4
<1>2. \A i \in Ids : record'[i] = record[i] \/ (Live(i) /\ record'[i] = "completed")
  <2>1. record \in [Ids -> {"none", "fresh", "open", "completed", "reset"}]
    BY DEF TypeOK, RowTypes
  <2>2. record' = record \/ record' = [record EXCEPT ![req[r].record] = "completed"]
    BY DEF Commit
  <2> QED BY <2>1, <2>2, <1>0
<1>3. /\ Keeps /\ \A i : Live(i) => Live(i)'
      /\ \A c \in Ids : block'[c].state = "open" => ~(opened < c)
  BY <1>0, <1>1, <1>2, RowsMove DEF Sound
<1>4. /\ req'[r].pc = "saved"
      /\ req'[r].record = req[r].record
      /\ req'[r].turn = req[r].turn
  <2>1. req'[r] = [Idle EXCEPT !.pc = "saved", !.record = req[r].record, !.turn = req[r].turn,
                               !.outcome = req[r].outcome, !.text = req[r].text]
    BY Became DEF Commit
  <2> QED BY <2>1 DEF Idle
<1>5. req[r].turn \in Ids /\ opened \in Nat
  BY <1>0, AgentAssumption DEF TypeOK, RowTypes, Ids
<1>6. block'[req[r].turn].state # "open"
  <2>1. block[req[r].turn] \in BlockType
    BY <1>5 DEF TypeOK, RowTypes
  <2>2. block'[req[r].turn] = Recorded(r, block[req[r].turn])
    BY <1>0, <1>5 DEF SavedBlocks
  <2> QED BY <2>1, <2>2 DEF Recorded, BlockType
<1>7. RequestSound(r)'
  <2>1. /\ req[r].record \in Ids
        /\ block[req[r].turn].record = req[r].record
        /\ record[req[r].record] # "none"
    BY <1>0 DEF RequestSound, Past
  <2>2. block'[req[r].turn].record = req[r].record /\ record'[req[r].record] # "none"
    BY <1>1, <1>5, <2>1, <1>3 DEF Keeps
  <2> QED BY <1>0, <1>4, <1>6, <2>1, <2>2 DEF RequestSound, Past
<1>8. SessionSound'
  <2>1. session'.writer = req[r].turn
    BY TaughtTyped DEF Commit, SessionType
  <2>2. /\ block'[req[r].turn].record \in Ids
        /\ record'[block'[req[r].turn].record] \in {"fresh", "open", "completed"}
    <3>1. block'[req[r].turn].record = req[r].record
      BY <1>0, <1>1, <1>5 DEF RequestSound, Past
    <3>2. req[r].record \in Ids /\ record'[req[r].record] \in {"fresh", "open", "completed"}
      BY <1>0, <1>2 DEF Live
    <3> QED BY <3>1, <3>2
  <2>3. session'.writer \in 1 .. opened'
    BY <1>0, <2>1
  <2>4. Live(block[session.writer].record)'
    BY <2>1, <2>2 DEF Live
  <2> QED BY <2>3, <2>4 DEF SessionSound
<1>9. \A s \in Requests \ {r} : req'[s] = req[s]
  BY Became DEF Commit
<1> QED BY <1>3, <1>4, <1>7, <1>8, <1>9 DEF StepOf, Leaves

\* The steps after the save, and a save that lost its insert.
LEMMA LateSteps ==
    ASSUME TypeOK, TypeOK', Sound, NEW r \in Requests,
           InsertLost(r) \/ Progress(r) \/ OfferNext(r) \/ Abandon(r)
    PROVE  StepOf(r)
<1>0. /\ req[r] \in ReqType
      /\ RequestSound(r)
      /\ req[r].pc \in Past
      /\ opened' = opened /\ orphaned \subseteq orphaned' /\ session' = session
  BY ReqTyped
     DEF InsertLost, Progress, OfferNext, Abandon, Retires, Unretired, Moves, history, Past,
         Sound, RequestsSound
<1>1. req[r].turn \in Ids /\ opened \in Nat
  BY <1>0, AgentAssumption DEF RequestSound, TypeOK, RowTypes, Ids
<1>2. \A c \in Ids :
        \/ block'[c] = block[c]
        \/ c = req[r].turn /\ block'[c] = [block[c] EXCEPT !.state = "dropped"]
  <2>1. block' = block \/ block' = [block EXCEPT ![req[r].turn].state = "dropped"]
    BY DEF InsertLost, Progress, OfferNext, Abandon, Retires, DropBlock
  <2> QED BY <2>1 DEF TypeOK, RowTypes
<1>3. \A c \in Ids : /\ block'[c].record = block[c].record
                     /\ block'[c].state = "open" => block'[c] = block[c]
  <2>1. \A c \in Ids : block[c] \in BlockType
    BY DEF TypeOK, RowTypes
  <2> QED BY <1>2, <2>1 DEF BlockType
<1>4. \A i \in Ids : record'[i] = record[i] \/ (Live(i) /\ record'[i] = "completed")
  <2>1. record \in [Ids -> {"none", "fresh", "open", "completed", "reset"}]
    BY DEF TypeOK, RowTypes
  <2>2. \/ record' = record
        \/ Live(req[r].record) /\ record' = [record EXCEPT ![req[r].record] = "completed"]
    BY DEF InsertLost, Progress, OfferNext, Abandon
  <2> QED BY <2>1, <2>2
<1>5. /\ Keeps /\ \A i : Live(i) => Live(i)'
      /\ \A c \in Ids : block'[c].state = "open" => ~(opened < c)
  BY <1>0, <1>3, <1>4, RowsMove DEF Sound
<1>6. SessionSound'
  BY <1>0, <1>5, SessionStays DEF Sound
<1>7. CASE Progress(r)
  <2>1. /\ req'[r] = [req[r] EXCEPT !.pc = "progressed"]
        /\ req[r].pc = "saved"
        /\ block' = block
        /\ \A s \in Requests \ {r} : req'[s] = req[s]
    BY <1>7, Became DEF Progress, Moves
  <2>2. /\ req'[r].pc = "progressed" /\ req'[r].turn = req[r].turn
        /\ req'[r].record = req[r].record
    BY <2>1, <1>0 DEF ReqType
  <2>3. RequestSound(r)'
    BY <1>0, <1>5, <2>1, <2>2 DEF RequestSound, Past, Keeps
  <2> QED BY <2>1, <2>2, <2>3, <1>5, <1>6 DEF StepOf, Leaves
<1>8. CASE InsertLost(r) \/ OfferNext(r) \/ Abandon(r)
  <2>1. req'[r] = Idle /\ \A s \in Requests \ {r} : req'[s] = req[s]
    BY <1>8, Became DEF InsertLost, OfferNext, Abandon, Ends
  <2>2. RequestSound(r)'
    BY <2>1, RestSound DEF Idle
  <2>3. block'[req[r].turn].state = "open" => req[r].turn \in orphaned'
    <3>0. block[req[r].turn] \in BlockType
      BY <1>1 DEF TypeOK, RowTypes
    <3>2. CASE OfferNext(r)
      BY <1>0, <3>2 DEF OfferNext, RequestSound
    <3>3. CASE block' = DropBlock(req[r].turn)
      <4>1. CASE Untouched(req[r].turn)
        <5>1. block'[req[r].turn] = [block[req[r].turn] EXCEPT !.state = "dropped"]
          BY <1>1, <3>3, <4>1 DEF DropBlock, TypeOK, RowTypes
        <5> QED BY <5>1, <3>0 DEF BlockType
      <4>2. CASE ~Untouched(req[r].turn)
        <5>1. block' = block
          BY <3>3, <4>2 DEF DropBlock
        <5>2. block[req[r].turn].state # "open"
          BY <1>1, <4>2 DEF Untouched, Sound, BlocksSound
        <5> QED BY <5>1, <5>2
      <4> QED BY <4>1, <4>2
    <3>4. CASE block' = block /\ orphaned' = Unretired(req[r].turn)
      BY <1>1, <3>4 DEF Unretired
    <3> QED BY <1>8, <3>2, <3>3, <3>4 DEF InsertLost, Abandon, Retires
  <2> QED BY <2>1, <2>2, <2>3, <1>5, <1>6 DEF StepOf, Leaves
<1> QED BY <1>7, <1>8

\* Every action of a request is such a step.
LEMMA RequestSteps ==
    ASSUME TypeOK, TypeOK', Sound, Next
    PROVE  (\E r \in Requests : StepOf(r)) \/ Reset
BY EarlySteps, OpenStep, VisitSteps, QuietSteps, CommitStep, LateSteps DEF Next

LEMMA StepSound ==
    ASSUME TypeOK, TypeOK', Sound, NoTurnLeftOpen, NEW r \in Requests, StepOf(r)
    PROVE  Sound' /\ NoTurnLeftOpen'
<1>0. /\ Keeps
      /\ opened \in Nat /\ opened' \in Nat
      /\ \A s \in Requests \ {r} : req'[s] = req[s]
  BY AgentAssumption DEF StepOf, TypeOK, RowTypes
<1>1. RequestsSound'
  <2>1. \A s \in Requests \ {r} : RequestSound(s)'
    <3> SUFFICES ASSUME NEW s \in Requests \ {r}
                 PROVE  RequestSound(s)'
      OBVIOUS
    <3>1. RequestSound(s) /\ req'[s] = req[s]
      BY <1>0 DEF Sound, RequestsSound
    <3>2. Live(req[s].record) => Live(req[s].record)'
      <4>1. \A i : Live(i) => Live(i)'
        BY DEF StepOf
      <4>2. Live(req[s].record) =>
              req[s].record \in Ids /\ record'[req[s].record] \in {"fresh", "open", "completed"}
        BY <4>1 DEF Live
      <4> QED BY <4>2, <3>1 DEF Live
    <3> QED BY <3>1, <3>2, <1>0, StaysSound
  <2>2. RequestSound(r)'
    BY DEF StepOf
  <2> QED BY <2>1, <2>2 DEF RequestsSound
<1>2. RecordsSound'
  <2> SUFFICES ASSUME NEW i \in Ids, i > opened'
               PROVE  record'[i] = "none"
    BY DEF RecordsSound
  <2>1. i > opened /\ ~(i <= opened')
    BY <1>0 DEF Ids, Keeps
  <2> QED BY <1>0, <2>1 DEF Keeps, Sound, RecordsSound
<1>3. BlocksSound'
  <2> SUFFICES ASSUME NEW b \in Ids, block'[b].state = "open"
               PROVE  b <= opened' /\ block'[b].record \in Ids /\ ~block'[b].text
    BY DEF BlocksSound
  <2>1. CASE block[b].state = "open" /\ block'[b].text = block[b].text
    <3>1. b <= opened /\ block[b].record \in Ids /\ ~block[b].text
      BY <2>1 DEF Sound, BlocksSound
    <3>2. b <= opened' /\ block'[b].record = block[b].record
      BY <3>1, <1>0 DEF Keeps, Ids
    <3> QED BY <2>1, <3>1, <3>2
  <2>2. CASE b <= opened' /\ block'[b].record \in Ids /\ ~block'[b].text
    BY <2>2
  <2> QED BY <2>1, <2>2, <1>0 DEF Keeps
<1>4. SessionSound'
  BY DEF StepOf
<1>5. NoTurnLeftOpen'
  <2> SUFFICES ASSUME NEW b \in Ids, block'[b].state = "open"
               PROVE  b \in orphaned' \/ \E s \in Requests : req'[s].turn = b
    BY DEF NoTurnLeftOpen
  <2>1. CASE opened < b /\ b <= opened'
    BY <2>1 DEF StepOf
  <2>2. CASE block[b].state = "open"
    <3>3. CASE b \in orphaned
      BY <3>3, <1>0 DEF Keeps
    <3>4. CASE req[r].turn = b
      BY <3>4, Zenon DEF StepOf, Leaves
    <3>5. ASSUME NEW s \in Requests \ {r}, req[s].turn = b
          PROVE  req'[s].turn = b
      BY <3>5, <1>0
    <3> QED BY <2>2, <3>3, <3>4, <3>5 DEF NoTurnLeftOpen
  <2> QED BY <2>1, <2>2, <1>0 DEF Keeps
<1> QED BY <1>1, <1>2, <1>3, <1>4, <1>5 DEF Sound

\* A reset finds no request saving into a live record, and leaves no session.
LEMMA ResetStep ==
    ASSUME TypeOK, TypeOK', Sound, NoTurnLeftOpen, Reset
    PROVE  Keeps /\ Sound' /\ NoTurnLeftOpen'
<1>1. /\ record' = [i \in Ids |-> IF Live(i) THEN "reset" ELSE record[i]]
      /\ session' = Fresh
      /\ block' = block /\ opened' = opened /\ req' = req /\ orphaned' = orphaned
      /\ opened \in Nat
  BY AgentAssumption DEF Reset, TypeOK, RowTypes
<1>2. \A i \in Ids :
        /\ record[i] # "none" => record'[i] # "none"
        /\ record[i] = "none" => record'[i] = "none"
        /\ record[i] = "reset" => record'[i] = "reset"
  BY <1>1 DEF Live
<1>3. Keeps
  BY <1>1, <1>2 DEF Keeps
<1>4. RequestsSound'
  <2> SUFFICES ASSUME NEW s \in Requests
               PROVE  RequestSound(s)'
    BY DEF RequestsSound
  <2>1. RequestSound(s) /\ req'[s] = req[s]
    BY <1>1 DEF Sound, RequestsSound
  <2>2. req[s].pc # "saving"
    <3> SUFFICES ASSUME req[s].pc = "saving"
                 PROVE  FALSE
      OBVIOUS
    <3>1. Live(req[s].record)
      BY <2>1 DEF RequestSound
    <3> QED BY <3>1 DEF Reset, LiveRecords, Live, Locked
  <2> QED BY <2>1, <2>2, <1>3, StaysSound
<1>5. RecordsSound'
  BY <1>1, <1>2 DEF Sound, RecordsSound
<1>6. BlocksSound'
  BY <1>1 DEF Sound, BlocksSound
<1>7. SessionSound'
  BY <1>1 DEF SessionSound, Fresh
<1>8. NoTurnLeftOpen'
  BY <1>1 DEF NoTurnLeftOpen
<1> QED BY <1>3, <1>4, <1>5, <1>6, <1>7, <1>8 DEF Sound

\* The induction: what the theorems below rest on.
THEOREM Invariant == Spec => []IInv
<1>1. Init => IInv
  <2> SUFFICES ASSUME Init
               PROVE  Sound /\ NoTurnLeftOpen
    BY InitTyped DEF IInv
  <2>1. /\ \A i \in Ids : record[i] = "none" /\ block[i].state = "none"
        /\ \A r \in Requests : req[r].pc = "idle" /\ req[r].turn = 0
        /\ session = Fresh
    BY DEF Init, NoBlock, Idle
  <2>2. Sound
    BY <2>1 DEF Sound, RequestsSound, RequestSound, RecordsSound, BlocksSound, SessionSound, Past
  <2>3. NoTurnLeftOpen
    BY <2>1 DEF NoTurnLeftOpen
  <2> QED BY <2>2, <2>3
<1>2. IInv /\ [Next]_vars => IInv'
  <2> SUFFICES ASSUME IInv, [Next]_vars
               PROVE  IInv'
    OBVIOUS
  <2>1. TypeOK /\ TypeOK' /\ Sound /\ NoTurnLeftOpen
    BY StepTyped DEF IInv
  <2>2. CASE Next
    BY <2>1, <2>2, RequestSteps, StepSound, ResetStep DEF IInv
  <2>3. CASE UNCHANGED vars
    <3>1. Sound'
      BY <2>1, <2>3
         DEF vars, Sound, RequestsSound, RequestSound, RecordsSound, BlocksSound, SessionSound, Live
    <3>2. NoTurnLeftOpen'
      BY <2>1, <2>3 DEF vars, NoTurnLeftOpen
    <3> QED BY <2>1, <3>1, <3>2 DEF IInv
  <2> QED BY <2>2, <2>3
<1> QED BY <1>1, <1>2, PTL DEF Spec

\* The conversation that is stored was saved by an attempt that was not reset.
THEOREM SessionIsLive == Spec => []SessionOfLiveAttempt
<1>1. IInv => SessionOfLiveAttempt
  BY DEF IInv, Sound, SessionSound, SessionOfLiveAttempt
<1> QED BY <1>1, Invariant, PTL

\* No turn that is over leaves its block open, unless nobody could retire it.
THEOREM NoTurnOpen == Spec => []NoTurnLeftOpen
<1>1. IInv => NoTurnLeftOpen
  BY DEF IInv
<1> QED BY <1>1, Invariant, PTL

\* No step but a start that had read the record before undoes a reset, and
\* none offers the next lesson of a reset attempt.
THEOREM ResetsAreFinal == Spec => ResetIsFinal
<1>1. IInv /\ [Next]_vars =>
        [\A i \in Ids : record[i] = "reset" =>
            /\ record'[i] = "reset" \/ (record'[i] = "open" /\ ReadNotStarted(i))
            /\ i \in controls' => i \in controls]_vars
  <2> SUFFICES ASSUME IInv, Next, NEW i \in Ids, record[i] = "reset"
               PROVE  /\ record'[i] = "reset" \/ (record'[i] = "open" /\ ReadNotStarted(i))
                      /\ i \in controls' => i \in controls
    OBVIOUS
  <2>1. Keeps
    BY StepTyped, RequestSteps, ResetStep DEF IInv, StepOf
  <2>2. i \in controls' => i \in controls
    <3>1. ASSUME NEW r \in Requests, OfferNext(r)
          PROVE  i \in controls' => i \in controls
      BY <3>1 DEF OfferNext
    <3>2. CASE \A r \in Requests : ~OfferNext(r)
      <4>1. CASE \E r \in Requests : Commit(r)
        BY <4>1 DEF Commit
      <4>2. CASE \A r \in Requests : ~Commit(r)
        BY <3>2, <4>2 DEF Next, Start, Load, LoadUnusable, LoadEnds, FindRecord, Open,
           Visit, Announce, HandOver, BeginSave, Discard, InsertLost, Progress, GoOn, Finish, Abandon, Die, Reset, rows
      <4> QED BY <4>1, <4>2
    <3> QED BY <3>1, <3>2
  <2> QED BY <2>1, <2>2 DEF Keeps
<1> QED BY <1>1, Invariant, PTL DEF Spec, ResetIsFinal

------------------------------------------------------------------------------
(* The conversation and the rows.  While no runs crossed, at most one      *)
(* request is at work, and what it planned, loaded and opened is still so: *)
(* only a reset comes between, and takes everything away.                  *)

Busy == {"planned", "loaded", "found", "teaching", "saving"}
Stands(b) == block[b].state = "saved" /\ Live(block[b].record)
Said == session.msgs

Working(r) == req[r].pc \notin {"idle", "visiting"}
OnlyOne == \A r, s \in Requests : Working(r) /\ Working(s) => r = s
BlocksOpened ==
    \A b \in Ids : block[b].state # "none" =>
        b <= opened /\ block[b].record \in Ids /\ record[block[b].record] # "none"
OneAttempt == \A i, j \in Ids : Live(i) /\ Live(j) => i = j

\* What is said was said by the turns of the attempt, in order; a turn that
\* left no text may have been dropped.
MsgKept(n) ==
    /\ Said[n] \in 1 .. opened
    /\ Live(block[Said[n]].record)
    /\ block[Said[n]].state # "saved" =>
          block[Said[n]].state = "dropped" /\ ~block[Said[n]].text
    /\ \A m \in DOMAIN Said : m < n => Said[m] < Said[n]
MsgsKept == \A n \in DOMAIN Said : MsgKept(n)
\* The checkpoint of a turn that stands counts what was said before it.
Counted ==
    \A b \in Ids : Stands(b) =>
        /\ session # Fresh
        /\ block[b].base <= Len(Said)
        /\ \A n \in DOMAIN Said : Said[n] < b <=> n <= block[b].base
\* A turn that stands and left text was said.
Recalled ==
    \A b \in Ids : Stands(b) /\ block[b].text => \E n \in DOMAIN Said : Said[n] = b
RowsKept == BlocksOpened /\ OneAttempt /\ MsgsKept /\ Counted /\ Recalled

\* A plan still names all rows that stand from its target on.
PlanKept(r) ==
    /\ req[r].plan.target = 0 => req[r].plan.retired = {}
    /\ req[r].plan.target # 0 =>
        /\ req[r].plan.target \in 1 .. opened
        /\ req[r].pc # "planned" => req[r].read # Fresh
        /\ \A c \in req[r].plan.retired : c >= req[r].plan.target
        /\ session # Fresh =>
            /\ Stands(req[r].plan.target)
            /\ \A c \in Ids : Stands(c) /\ c >= req[r].plan.target => c \in req[r].plan.retired
DocKept(r) ==
    IF req[r].pc = "planned" THEN req[r].read = Fresh /\ req[r].doc = Fresh
    ELSE req[r].doc = RestoreSession(r, req[r].read)
TurnKept(r) ==
    /\ req[r].turn = opened
    /\ block[opened].state = "open"
    /\ \A n \in DOMAIN Said : Said[n] < opened
RequestKept(r) ==
    /\ req[r].pc \in Busy => PlanKept(r) /\ DocKept(r)
    /\ req[r].pc \in {"teaching", "saving"} /\ Live(req[r].record) => TurnKept(r)
    /\ req[r].pc = "saving" /\ req[r].outcome = "same" => ~req[r].text
Together == OnlyOne /\ RowsKept /\ \A r \in Requests : RequestKept(r)

\* The arithmetic the steps below need of the types.
LEMMA Sizes ==
    ASSUME TypeOK
    PROVE  /\ opened \in Nat /\ MaxTurns \in Nat /\ opened <= MaxTurns
           /\ Ids = 1 .. MaxTurns /\ 1 .. opened \subseteq Ids
           /\ Said \in Seq(Nat) /\ DOMAIN Said = 1 .. Len(Said) /\ Len(Said) \in Nat
           /\ \A n \in DOMAIN Said : Said[n] \in Nat
           /\ \A b \in Ids : block[b] \in BlockType /\ block[b].base \in Nat
<1>1. /\ opened \in Nat /\ MaxTurns \in Nat /\ opened <= MaxTurns
      /\ Ids = 1 .. MaxTurns /\ 1 .. opened \subseteq Ids
  BY AgentAssumption DEF TypeOK, RowTypes, Ids
<1>2. Said \in Seq(Nat)
  BY DEF TypeOK, RowTypes, SessionType, Said
<1>3. \A b \in Ids : block[b] \in BlockType /\ block[b].base \in Nat
  BY DEF TypeOK, RowTypes, BlockType
<1> HIDE DEF Said
<1>4. DOMAIN Said = 1 .. Len(Said) /\ Len(Said) \in Nat /\ \A n \in DOMAIN Said : Said[n] \in Nat
  BY <1>2
<1> QED BY <1>1, <1>2, <1>3, <1>4

\* Steps that write no row.
LEMMA RowsRest ==
    ASSUME RowsKept, UNCHANGED rows
    PROVE  RowsKept'
BY DEF RowsKept, rows, BlocksOpened, OneAttempt, MsgsKept, MsgKept, Counted, Recalled, Stands, Said, Live

\* Steps that write no row and keep the plan.
LEMMA PlanRests ==
    ASSUME NEW r \in Requests, PlanKept(r), UNCHANGED rows, req'[r].plan = req[r].plan,
           req[r].plan.target # 0 /\ req'[r].pc # "planned" => req'[r].read # Fresh
    PROVE  PlanKept(r)'
BY DEF PlanKept, rows, Stands, Live

\* Steps that write no row and keep what was loaded.
LEMMA DocRests ==
    ASSUME NEW r \in Requests, DocKept(r), req[r].pc # "planned", UNCHANGED rows,
           req'[r].pc # "planned", req'[r].plan = req[r].plan,
           req'[r].read = req[r].read, req'[r].doc = req[r].doc
    PROVE  DocKept(r)'
BY DEF DocKept, RestoreSession, Restore, rows

\* Nobody is at work, or only the request that moves: the others are idle.
LEMMA OthersIdle ==
    ASSUME TypeOK, OnlyOne, NEW r \in Requests, Working(r) \/ Alone,
           \A s \in Requests \ {r} : req'[s] = req[s]
    PROVE  /\ OnlyOne'
           /\ \A s \in Requests \ {r} : RequestKept(s)'
<1>1. \A s \in Requests \ {r} : req'[s].pc \in {"idle", "visiting"}
  BY DEF OnlyOne, Working, Alone
<1>2. OnlyOne'
  BY <1>1 DEF OnlyOne, Working
<1>3. \A s \in Requests \ {r} : RequestKept(s)'
  BY <1>1 DEF RequestKept, Busy
<1> QED BY <1>2, <1>3

\* A request that takes up a lesson, and perhaps back.
LEMMA StartKept ==
    ASSUME TypeOK, TypeOK', Together, NEW r \in Requests, Start(r) \/ GoOn(r)
    PROVE  RowsKept' /\ RequestKept(r)'
<1>1. UNCHANGED rows
  BY DEF Start, GoOn
<1>2. RowsKept'
  BY <1>1, RowsRest DEF Together
<1>3. CASE req'[r] = [Idle EXCEPT !.pc = "planned"]
  <2>1. /\ req'[r].pc = "planned" /\ req'[r].plan = NoPlan
        /\ req'[r].read = Fresh /\ req'[r].doc = Fresh
    BY <1>3 DEF Idle
  <2> QED BY <1>2, <2>1 DEF RequestKept, PlanKept, DocKept, NoPlan
<1>4. ASSUME NEW b \in Ids, CanTakeBack(b),
             req'[r] = [Idle EXCEPT !.pc = "planned", !.plan = PlanFor(b)]
      PROVE  RequestKept(r)'
  <2>1. /\ req'[r].pc = "planned" /\ req'[r].plan = PlanFor(b)
        /\ req'[r].read = Fresh /\ req'[r].doc = Fresh
    BY <1>4 DEF Idle
  <2>2. req'[r].plan.target = b /\ req'[r].plan.retired = RowsFrom(b)
    BY <2>1 DEF PlanFor
  <2>3. b # 0 /\ b \in 1 .. opened
    BY <1>4, Sizes DEF CanTakeBack, Together, RowsKept, BlocksOpened
  <2>4. Stands(b) /\ \A c \in Ids : Stands(c) /\ c >= b => c \in RowsFrom(b)
    BY <1>4 DEF CanTakeBack, Stands, RowsFrom, LiveRow, Together, RowsKept, OneAttempt, Live
  <2>5. \A c \in RowsFrom(b) : c >= b
    BY DEF RowsFrom
  <2>6. opened' = opened /\ session' = session /\ \A c : Stands(c)' <=> Stands(c)
    BY <1>1 DEF rows, Stands, Live
  <2>7. PlanKept(r)'
    BY <2>1, <2>2, <2>3, <2>4, <2>5, <2>6 DEF PlanKept
  <2> QED BY <2>1, <2>7 DEF RequestKept, DocKept
<1> QED BY <1>2, <1>3, <1>4, Became DEF Start, GoOn

\* The other steps that only move a request.
LEMMA MoveKept ==
    ASSUME TypeOK, TypeOK', Together, NEW r \in Requests,
           \/ Load(r) \/ LoadUnusable(r) \/ FindRecord(r)
           \/ \E outcome \in Outcomes, text \in BOOLEAN : BeginSave(r, outcome, text)
    PROVE  RowsKept' /\ RequestKept(r)'
<1>1. UNCHANGED rows
  BY DEF Load, LoadUnusable, FindRecord, BeginSave
<1>2. RowsKept'
  BY <1>1, RowsRest DEF Together
<1>3. req[r] \in ReqType /\ RequestKept(r) /\ Fresh \in SessionType
  BY ReqTyped, IdleTyped DEF Together
<1>4. ASSUME Load(r)
      PROVE  RequestKept(r)'
  <2>1. req'[r] = [req[r] EXCEPT !.pc = "loaded", !.read = session, !.doc = RestoreSession(r, session)]
    BY <1>4, Became DEF Load
  <2>2. /\ req'[r].pc = "loaded" /\ req'[r].plan = req[r].plan
        /\ req'[r].read = session /\ req'[r].doc = RestoreSession(r, session)
    BY <2>1, <1>3 DEF ReqType
  <2>3. PlanKept(r) /\ (req[r].plan.target # 0 => session # Fresh)
    BY <1>3, <1>4 DEF Load, RequestKept, Busy
  <2>4. PlanKept(r)'
    BY <2>2, <2>3, <1>1, PlanRests
  <2>5. DocKept(r)'
    BY <2>2, <1>1 DEF DocKept, RestoreSession, Restore, rows
  <2> QED BY <2>2, <2>4, <2>5 DEF RequestKept
<1>5. ASSUME LoadUnusable(r)
      PROVE  RequestKept(r)'
  <2>1. req'[r] = [req[r] EXCEPT !.pc = "loaded"]
    BY <1>5, Became DEF LoadUnusable
  <2>2. /\ req'[r].pc = "loaded" /\ req'[r].plan = req[r].plan
        /\ req'[r].read = req[r].read /\ req'[r].doc = req[r].doc
    BY <2>1, <1>3 DEF ReqType
  <2>3. PlanKept(r) /\ DocKept(r) /\ req[r].plan.target = 0 /\ req[r].pc = "planned"
    BY <1>3, <1>5 DEF LoadUnusable, RequestKept, Busy
  <2>4. PlanKept(r)'
    BY <2>2, <2>3, <1>1, PlanRests
  <2>5. DocKept(r)'
    BY <2>2, <2>3 DEF DocKept, RestoreSession
  <2> QED BY <2>2, <2>4, <2>5 DEF RequestKept
<1>6. ASSUME FindRecord(r)
      PROVE  RequestKept(r)'
  <2>0. PICK i \in 0 .. MaxTurns :
          Becomes(r, [req[r] EXCEPT !.pc = "found", !.record = i, !.fresh = NotStarted(i)])
    BY <1>6 DEF FindRecord
  <2>1. req'[r] = [req[r] EXCEPT !.pc = "found", !.record = i, !.fresh = NotStarted(i)]
    BY <2>0, Became
  <2>2. /\ req'[r].pc = "found" /\ req'[r].plan = req[r].plan
        /\ req'[r].read = req[r].read /\ req'[r].doc = req[r].doc
    BY <2>1, <1>3 DEF ReqType
  <2>3. PlanKept(r) /\ DocKept(r) /\ req[r].pc = "loaded"
    BY <1>3, <1>6 DEF FindRecord, RequestKept, Busy
  <2>4. PlanKept(r)'
    BY <2>2, <2>3, <1>1, PlanRests DEF PlanKept
  <2>5. DocKept(r)'
    BY <2>2, <2>3, <1>1, DocRests
  <2> QED BY <2>2, <2>4, <2>5 DEF RequestKept
<1>7. ASSUME NEW outcome \in Outcomes, NEW text \in BOOLEAN, BeginSave(r, outcome, text)
      PROVE  RequestKept(r)'
  <2>1. req'[r] = [req[r] EXCEPT !.pc = "saving", !.outcome = outcome, !.text = text,
                                 !.row = (session # Fresh)]
    BY <1>7, Became DEF BeginSave
  <2>2. /\ req'[r].pc = "saving" /\ req'[r].plan = req[r].plan /\ req'[r].turn = req[r].turn
        /\ req'[r].read = req[r].read /\ req'[r].doc = req[r].doc
        /\ req'[r].outcome = outcome /\ req'[r].text = text
    BY <2>1, <1>3 DEF ReqType
  <2>3. PlanKept(r) /\ DocKept(r) /\ TurnKept(r) /\ req[r].pc = "teaching"
    BY <1>3, <1>7 DEF BeginSave, RequestKept, Busy
  <2>4. PlanKept(r)'
    BY <2>2, <2>3, <1>1, PlanRests DEF PlanKept
  <2>5. DocKept(r)'
    BY <2>2, <2>3, <1>1, DocRests
  <2>6. TurnKept(r)'
    BY <2>2, <2>3, <1>1 DEF TurnKept, rows, Said
  <2>7. outcome = "same" => ~text
    BY <1>7 DEF BeginSave
  <2> QED BY <2>2, <2>4, <2>5, <2>6, <2>7 DEF RequestKept
<1> QED BY <1>2, <1>4, <1>5, <1>6, <1>7

\* A request that ends without writing a row.
LEMMA EndKept ==
    ASSUME TypeOK, TypeOK', Together, NEW r \in Requests,
           LoadEnds(r) \/ Discard(r) \/ Finish(r) \/ Die(r)
    PROVE  RowsKept' /\ RequestKept(r)'
<1>1. UNCHANGED rows
  BY DEF LoadEnds, Discard, Finish, Die
<1>2. req'[r].pc = "idle"
  <2>1. req'[r] = Idle
    BY Became DEF LoadEnds, Discard, Finish, Die, Ends
  <2> QED BY <2>1 DEF Idle
<1> QED BY <1>1, <1>2, RowsRest DEF Together, RequestKept, Busy

\* A new turn stands last.
LEMMA OpenKept ==
    ASSUME TypeOK, TypeOK', Sound, Together, NEW r \in Requests, Open(r), ~Crosses(r)
    PROVE  RowsKept' /\ RequestKept(r)'
<1> DEFINE b == opened + 1
           i == IF req[r].record = 0 THEN b ELSE req[r].record
<1>0. /\ RequestKept(r) /\ RowsKept /\ RequestSound(r)
      /\ b \in Ids /\ opened' = b /\ session' = session /\ Said' = Said
      /\ req[r] \in ReqType /\ req[r].pc = "found"
  BY ReqTyped DEF Together, Sound, RequestsSound, Open, Said
<1>1. /\ record' = IF req[r].record = 0 \/ req[r].fresh THEN [record EXCEPT ![i] = "open"] ELSE record
      /\ block' = [block EXCEPT ![b] = [NoBlock EXCEPT !.state = "open", !.record = i]]
      /\ Becomes(r, [req[r] EXCEPT !.pc = "teaching", !.turn = b, !.record = i, !.fresh = FALSE])
  BY DEF Open
<1>2. /\ block'[b].state = "open" /\ block'[b].record = i
      /\ \A c \in Ids : c # b => block'[c] = block[c]
  <2>1. block'[b] = [NoBlock EXCEPT !.state = "open", !.record = i]
    BY <1>0, <1>1 DEF TypeOK, RowTypes
  <2>2. \A c \in Ids : c # b => block'[c] = block[c]
    BY <1>0, <1>1 DEF TypeOK, RowTypes
  <2> HIDE DEF i, b
  <2> QED BY <2>1, <2>2 DEF NoBlock
<1>3. /\ req'[r].pc = "teaching" /\ req'[r].turn = b /\ req'[r].plan = req[r].plan
      /\ req'[r].read = req[r].read /\ req'[r].doc = req[r].doc
  <2>1. req'[r] = [req[r] EXCEPT !.pc = "teaching", !.turn = b, !.record = i, !.fresh = FALSE]
    BY <1>1, Became
  <2> HIDE DEF i, b
  <2> QED BY <2>1, <1>0 DEF ReqType
<1>4. \/ record' = record /\ req[r].record # 0
      \/ LiveRecords = {} /\ req[r].record = 0 /\ record' = [record EXCEPT ![b] = "open"]
      \/ /\ req[r].record # 0 /\ record[req[r].record] \notin {"none", "reset"}
         /\ record' = [record EXCEPT ![req[r].record] = "open"]
  BY <1>0, <1>1 DEF RequestSound, Crosses
<1>5. record[b] = "none" /\ record \in [Ids -> {"none", "fresh", "open", "completed", "reset"}]
  <2>1. b > opened
    BY Sizes
  <2> QED BY <1>0, <2>1 DEF Sound, RecordsSound, TypeOK, RowTypes
<1>6. i \in Ids /\ record'[i] # "none"
  <2>1. CASE req[r].record = 0
    BY <2>1, <1>0, <1>1, <1>5
  <2>2. CASE req[r].record # 0
    <3>1. req[r].record \in Ids
      BY <2>2, <1>0, Sizes DEF ReqType
    <3>2. record[req[r].record] # "none"
      BY <2>2, <1>0 DEF RequestSound
    <3> QED BY <3>1, <3>2, <2>2, <1>1
  <2> QED BY <2>1, <2>2
<1>7. \A c \in Ids : c <= opened => c # b
  BY Sizes
<1>8. b \notin 1 .. opened /\ opened <= b /\ 1 .. opened \subseteq 1 .. b
  BY Sizes
<1>9. DOMAIN Said = 1 .. Len(Said) /\ (\A n \in DOMAIN Said : Said[n] \in Nat) /\ 1 .. opened \subseteq Ids
  BY Sizes
<1> HIDE DEF i, b
<1>10. /\ \A j \in Ids : j # b => (Live(j)' <=> Live(j))
       /\ \A j \in Ids : record[j] # "none" => record'[j] # "none" /\ j # b
  BY <1>4, <1>5 DEF Live
<1>11. \A j : Live(j) => Live(j)'
  <2>1. ~Live(b)
    BY <1>5 DEF Live
  <2> QED BY <2>1, <1>10, LiveTyped
<1>12. \A c \in Ids : Stands(c)' => c # b /\ Stands(c) /\ block'[c] = block[c]
  <2> SUFFICES ASSUME NEW c \in Ids, Stands(c)'
               PROVE  c # b /\ Stands(c) /\ block'[c] = block[c]
    OBVIOUS
  <2>1. c # b /\ block'[c] = block[c] /\ block[c].state = "saved"
    BY <1>2 DEF Stands
  <2>2. record[block[c].record] # "none" /\ block[c].record \in Ids
    BY <2>1, <1>0 DEF RowsKept, BlocksOpened
  <2>3. Live(block[c].record)'
    BY <2>1 DEF Stands, Live
  <2> QED BY <2>1, <2>2, <2>3, <1>10 DEF Stands
<1>13. \A c \in Ids : Stands(c) => Stands(c)'
  <2> SUFFICES ASSUME NEW c \in Ids, Stands(c)
               PROVE  Stands(c)'
    OBVIOUS
  <2>1. c # b
    BY <1>0, <1>7 DEF RowsKept, BlocksOpened, Stands
  <2>2. block'[c] = block[c] /\ Live(block[c].record)'
    BY <2>1, <1>2, <1>11 DEF Stands
  <2> QED BY <2>2 DEF Stands, Live
<1>14. BlocksOpened'
  <2> SUFFICES ASSUME NEW c \in Ids, block'[c].state # "none"
               PROVE  c <= opened' /\ block'[c].record \in Ids /\ record'[block'[c].record] # "none"
    BY DEF BlocksOpened
  <2>1. CASE c = b
    BY <2>1, <1>0, <1>2, <1>6, Sizes
  <2>2. CASE c # b
    <3>1. c <= opened /\ block[c].record \in Ids /\ record[block[c].record] # "none"
      BY <2>2, <1>0, <1>2 DEF RowsKept, BlocksOpened
    <3>2. c <= b
      BY <3>1, <1>8, <1>0, Sizes
    <3> QED BY <2>2, <3>1, <3>2, <1>0, <1>2, <1>10
  <2> QED BY <2>1, <2>2
<1>15. OneAttempt'
  <2>1. CASE LiveRecords = {}
    BY <2>1, <1>10 DEF OneAttempt, LiveRecords
  <2>2. CASE req[r].record # 0
    <3>1. \A j \in Ids : Live(j)' <=> Live(j)
      BY <2>2, <1>4, <1>5 DEF Live
    <3> QED BY <3>1, <1>0 DEF RowsKept, OneAttempt
  <2> QED BY <2>1, <2>2, <1>4
<1>16. MsgsKept'
  <2> SUFFICES ASSUME NEW n \in DOMAIN Said
               PROVE  MsgKept(n)'
    BY <1>0 DEF MsgsKept
  <2>1. Said[n] \in 1 .. opened /\ Said[n] \in Ids /\ Said[n] # b
    BY <1>0, <1>8, <1>9 DEF RowsKept, MsgsKept, MsgKept
  <2>2. block'[Said[n]] = block[Said[n]]
    BY <2>1, <1>2
  <2>3. Live(block[Said[n]].record)'
    BY <2>2, <1>0, <1>11 DEF RowsKept, MsgsKept, MsgKept, Live
  <2>4. MsgKept(n)
    BY <1>0 DEF RowsKept, MsgsKept
  <2> QED BY <2>1, <2>2, <2>3, <2>4, <1>0, <1>8 DEF MsgKept
<1>17. Counted' /\ Recalled'
  BY <1>0, <1>12 DEF RowsKept, Counted, Recalled
<1>18. PlanKept(r) /\ DocKept(r)
  BY <1>0 DEF RequestKept, Busy
<1>19. PlanKept(r)'
  <2>1. CASE req[r].plan.target = 0
    BY <2>1, <1>3, <1>18 DEF PlanKept
  <2>2. CASE req[r].plan.target # 0
    <3>1. req[r].plan.target \in 1 .. opened /\ req[r].plan.target \in Ids
      BY <2>2, <1>9, <1>18 DEF PlanKept
    <3>2. \A c \in req[r].plan.retired : c >= req[r].plan.target
      BY <2>2, <1>18 DEF PlanKept
    <3>3. req[r].read # Fresh
      BY <2>2, <1>0, <1>18 DEF PlanKept
    <3>4. session' # Fresh =>
            /\ Stands(req[r].plan.target)'
            /\ \A c \in Ids : Stands(c)' /\ c >= req[r].plan.target => c \in req[r].plan.retired
      BY <2>2, <3>1, <1>0, <1>3, <1>12, <1>13, <1>18 DEF PlanKept
    <3> HIDE DEF Stands
    <3> QED BY <2>2, <3>1, <3>2, <3>3, <3>4, <1>0, <1>3, <1>8 DEF PlanKept
  <2> QED BY <2>1, <2>2
<1>20. DocKept(r)'
  <2>1. req[r].doc = RestoreSession(r, req[r].read)
    BY <1>0, <1>18 DEF DocKept
  <2>2. req[r].plan.target # 0 => block'[req[r].plan.target] = block[req[r].plan.target]
    BY <1>2, <1>8, <1>9, <1>18 DEF PlanKept
  <2> QED BY <2>1, <2>2, <1>3 DEF DocKept, RestoreSession, Restore
<1>21. TurnKept(r)'
  <2>1. \A n \in DOMAIN Said : Said[n] < b
    <3> SUFFICES ASSUME NEW n \in DOMAIN Said
                 PROVE  Said[n] < b
      OBVIOUS
    <3>1. Said[n] \in 1 .. opened
      BY <1>0 DEF RowsKept, MsgsKept, MsgKept
    <3> QED BY <3>1, Sizes DEF b
  <2> QED BY <2>1, <1>0, <1>2, <1>3 DEF TurnKept
<1> QED BY <1>3, <1>14, <1>15, <1>16, <1>17, <1>19, <1>20, <1>21 DEF RowsKept, RequestKept

\* Steps that drop a turn without text, or complete a record that is live.
LEMMA RowsDropped ==
    ASSUME TypeOK, TypeOK', RowsKept, opened' = opened, session' = session,
           \A c \in Ids :
               \/ block'[c] = block[c]
               \/ /\ block[c].state # "none" /\ ~block[c].text
                  /\ block'[c] = [block[c] EXCEPT !.state = "dropped"],
           \A i \in Ids : record'[i] = record[i] \/ (Live(i) /\ record'[i] = "completed")
    PROVE  RowsKept'
<1>1. /\ \A i : Live(i)' <=> Live(i)
      /\ \A i \in Ids : record[i] # "none" => record'[i] # "none"
      /\ Said' = Said /\ DOMAIN Said = 1 .. Len(Said) /\ 1 .. opened \subseteq Ids
  BY Sizes DEF Live, Said
<1>2. \A c \in Ids :
        /\ block'[c].record = block[c].record /\ block'[c].text = block[c].text
        /\ block'[c].base = block[c].base
        /\ \/ block'[c].state = block[c].state
           \/ block[c].state # "none" /\ ~block[c].text /\ block'[c].state = "dropped"
  <2> SUFFICES ASSUME NEW c \in Ids
               PROVE  /\ block'[c].record = block[c].record /\ block'[c].text = block[c].text
                      /\ block'[c].base = block[c].base
                      /\ \/ block'[c].state = block[c].state
                         \/ /\ block[c].state # "none" /\ ~block[c].text
                            /\ block'[c].state = "dropped"
    OBVIOUS
  <2>1. block[c] \in BlockType
    BY Sizes
  <2>2. CASE block'[c] = block[c]
    BY <2>2
  <2>3. CASE /\ block[c].state # "none" /\ ~block[c].text
             /\ block'[c] = [block[c] EXCEPT !.state = "dropped"]
    BY <2>1, <2>3 DEF BlockType
  <2> QED BY <2>2, <2>3
<1>3. \A c \in Ids : Stands(c)' => Stands(c)
  BY <1>1, <1>2 DEF Stands, Live
<1>4. BlocksOpened'
  BY <1>1, <1>2 DEF RowsKept, BlocksOpened
<1>5. OneAttempt'
  BY <1>1 DEF RowsKept, OneAttempt
<1>6. MsgsKept'
  <2> SUFFICES ASSUME NEW n \in DOMAIN Said
               PROVE  MsgKept(n)'
    BY <1>1 DEF MsgsKept
  <2>1. Said[n] \in 1 .. opened /\ Said[n] \in Ids
    BY <1>1 DEF RowsKept, MsgsKept, MsgKept
  <2>2. MsgKept(n) /\ block'[Said[n]].record = block[Said[n]].record
    BY <2>1, <1>2 DEF RowsKept, MsgsKept
  <2>3. Live(block[Said[n]].record)'
    BY <2>2, <1>1 DEF MsgKept, Live
  <2> QED BY <2>1, <2>2, <2>3, <1>1, <1>2 DEF MsgKept
<1>7. Counted' /\ Recalled'
  BY <1>1, <1>2, <1>3 DEF RowsKept, Counted, Recalled
<1> QED BY <1>4, <1>5, <1>6, <1>7 DEF RowsKept

\* The steps after the save, and a save that lost its insert.
LEMMA LateKept ==
    ASSUME TypeOK, TypeOK', Sound, Together, NEW r \in Requests,
           InsertLost(r) \/ Progress(r) \/ OfferNext(r) \/ Abandon(r)
    PROVE  RowsKept' /\ RequestKept(r)'
<1>0. /\ req[r] \in ReqType /\ RequestSound(r) /\ RequestKept(r) /\ RowsKept
      /\ req[r].pc \in Past
      /\ opened' = opened /\ session' = session
  BY ReqTyped
     DEF InsertLost, Progress, OfferNext, Abandon, Moves, Past, Sound, RequestsSound, Together
<1>1. req[r].turn \in Ids
  BY <1>0, Sizes DEF RequestSound
<1>2. \A c \in Ids :
        \/ block'[c] = block[c]
        \/ /\ block[c].state # "none" /\ ~block[c].text
           /\ block'[c] = [block[c] EXCEPT !.state = "dropped"]
  <2>1. \/ block' = block
        \/ /\ block[req[r].turn].state # "none" /\ ~block[req[r].turn].text
           /\ block' = [block EXCEPT ![req[r].turn].state = "dropped"]
    BY DEF InsertLost, Progress, OfferNext, Abandon, Retires, DropBlock, Untouched
  <2> QED BY <2>1 DEF TypeOK, RowTypes
<1>3. \A i \in Ids : record'[i] = record[i] \/ (Live(i) /\ record'[i] = "completed")
  <2>1. record \in [Ids -> {"none", "fresh", "open", "completed", "reset"}]
    BY DEF TypeOK, RowTypes
  <2>2. \/ record' = record
        \/ Live(req[r].record) /\ record' = [record EXCEPT ![req[r].record] = "completed"]
    BY DEF InsertLost, Progress, OfferNext, Abandon
  <2> QED BY <2>1, <2>2
<1>4. req'[r].pc \in {"idle", "progressed"}
  <2>1. CASE Progress(r)
    <3>1. req'[r] = [req[r] EXCEPT !.pc = "progressed"]
      BY <2>1, Became DEF Progress, Moves
    <3> QED BY <3>1, <1>0 DEF ReqType
  <2>2. CASE ~Progress(r)
    <3>1. req'[r] = Idle
      BY <2>2, Became DEF InsertLost, OfferNext, Abandon, Ends
    <3> QED BY <3>1 DEF Idle
  <2> QED BY <2>1, <2>2
<1>5. RowsKept'
  BY <1>0, <1>2, <1>3, RowsDropped
<1> QED BY <1>4, <1>5 DEF RequestKept, Busy

\* A reset leaves nothing said and nothing that stands.
LEMMA ResetKept ==
    ASSUME TypeOK, TypeOK', Together, Reset
    PROVE  Together'
<1>1. /\ record' = [i \in Ids |-> IF Live(i) THEN "reset" ELSE record[i]]
      /\ session' = Fresh
      /\ block' = block /\ opened' = opened /\ req' = req
  BY DEF Reset
<1>2. /\ \A i : ~Live(i)'
      /\ \A i \in Ids : record[i] # "none" => record'[i] # "none"
      /\ LiveRecords' = {}
      /\ Said' = <<>> /\ DOMAIN Said' = {}
  BY <1>1 DEF Live, Said, Fresh, LiveRecords
<1>3. \A c : ~Stands(c)'
  BY <1>2 DEF Stands
<1>4. RowsKept'
  BY <1>1, <1>2, <1>3
     DEF Together, RowsKept, BlocksOpened, OneAttempt, MsgsKept, Counted, Recalled
<1>5. ASSUME NEW r \in Requests
      PROVE  RequestKept(r)'
  <2>1. RequestKept(r)
    BY DEF Together
  <2>2. PlanKept(r) => PlanKept(r)'
    BY <1>1 DEF PlanKept
  <2>3. DocKept(r) => DocKept(r)'
    BY <1>1 DEF DocKept, RestoreSession, Restore
  <2>4. ~Live(req[r].record)'
    BY <1>1, <1>2 DEF Live
  <2> QED BY <2>1, <2>2, <2>3, <2>4, <1>1 DEF RequestKept
<1>6. OnlyOne'
  BY <1>1 DEF Together, OnlyOne, Working
<1> QED BY <1>4, <1>5, <1>6 DEF Together

\* The commit of a turn over the session it loaded.
LEMMA CommitKept ==
    ASSUME TypeOK, TypeOK', Sound, Together, NEW r \in Requests, Commit(r), session = req[r].read
    PROVE  RowsKept' /\ RequestKept(r)'
<1> DEFINE t == req[r].turn
           d == req[r].doc.msgs
           k == Len(d)
           T == req[r].plan.target
           gone == req[r].plan.retired
<1>0. /\ req[r] \in ReqType /\ RequestSound(r) /\ RequestKept(r) /\ RowsKept
      /\ req[r].pc = "saving" /\ opened' = opened
      /\ PlanKept(r) /\ DocKept(r) /\ TurnKept(r)
  <2>1. /\ req[r] \in ReqType /\ RequestSound(r) /\ RequestKept(r) /\ RowsKept
        /\ req[r].pc = "saving" /\ opened' = opened
    BY ReqTyped DEF Commit, Sound, RequestsSound, Together
  <2>2. Live(req[r].record)
    BY <2>1 DEF RequestSound
  <2> QED BY <2>1, <2>2 DEF RequestKept, Busy
<1>1. /\ t = opened /\ t \in Ids /\ t \in 1 .. opened /\ block[t].state = "open"
      /\ block[t].record = req[r].record /\ Live(req[r].record)
      /\ \A n \in DOMAIN Said : Said[n] < t
  BY <1>0, Sizes DEF TurnKept, RequestSound, Past
<1>2. T # 0 => /\ session # Fresh /\ Stands(T) /\ T \in Ids
               /\ \A c \in gone : c >= T
               /\ \A c \in Ids : Stands(c) /\ c >= T => c \in gone
  BY <1>0, Sizes DEF PlanKept
<1>3. T = 0 => gone = {}
  BY <1>0 DEF PlanKept
<1>4. /\ k \in Nat /\ k <= Len(Said) /\ DOMAIN d = 1 .. k
      /\ \A n \in 1 .. k : d[n] = Said[n]
      /\ T = 0 => k = Len(Said)
      /\ T # 0 => k = block[T].base
  <2>1. req[r].doc = RestoreSession(r, session)
    BY <1>0 DEF DocKept
  <2>2. session \in SessionType /\ Said \in Seq(Nat) /\ Said = session.msgs
    BY Sizes DEF TypeOK, RowTypes, Said
  <2>3. CASE T = 0
    <3>1. d = Said
      BY <2>1, <2>3, <2>2 DEF RestoreSession
    <3> QED BY <3>1, <2>2, <2>3
  <2>4. CASE T # 0
    <3>1. req[r].doc = Restore(session, T)
      BY <2>1, <2>4 DEF RestoreSession
    <3>2. T \in Ids /\ block[T].base \in Nat /\ block[T].base <= Len(Said)
      BY <2>4, <1>0, <1>2, Sizes DEF RowsKept, Counted
    <3>3. d = SubSeq(Said, 1, block[T].base)
      <4>1. (IF block[T].base < Len(Said) THEN block[T].base ELSE Len(Said)) = block[T].base
        BY <3>2, <2>2
      <4> QED BY <4>1, <3>1, <2>2 DEF Restore, SessionType
    <3>4. PICK base \in Nat : base = block[T].base /\ base <= Len(Said)
      BY <3>2
    <3>5. d = SubSeq(Said, 1, base)
      BY <3>3, <3>4
    <3> HIDE DEF d, T
    <3>6. Len(d) = base /\ DOMAIN d = 1 .. base /\ \A n \in 1 .. base : d[n] = Said[n]
      BY <3>4, <3>5, <2>2
    <3> QED BY <2>4, <3>4, <3>6
  <2> QED BY <2>3, <2>4
<1>5. /\ Said' = IF req[r].outcome = "same" THEN d ELSE Append(d, t)
      /\ session' # Fresh
  <2>1. session' = [Taught(r) EXCEPT !.writer = t] /\ Taught(r) \in SessionType
    BY TaughtTyped DEF Commit
  <2>2. session'.msgs = Taught(r).msgs /\ session'.writer = t
    BY <2>1 DEF SessionType
  <2>3. Taught(r).msgs = IF req[r].outcome = "same" THEN d ELSE Append(d, t)
    BY <1>0 DEF Taught, ReqType, SessionType
  <2> QED BY <2>2, <2>3, <1>1, Sizes DEF Said, Fresh
<1>6. PICK len \in {k, k + 1} :
        /\ Len(Said') = len /\ DOMAIN Said' = 1 .. len
        /\ \A n \in 1 .. k : Said'[n] = Said[n]
        /\ len = k + 1 => Said'[k + 1] = t
        /\ req[r].outcome # "same" => len = k + 1
  <2>1. d \in Seq(Nat) /\ t \in Nat
    BY <1>0, <1>1, Sizes DEF ReqType, SessionType
  <2>2. PICK n \in Nat : n = k
    BY <1>4
  <2>3. Len(d) = n /\ DOMAIN d = 1 .. n
    BY <1>4, <2>2
  <2> HIDE DEF d, t, k
  <2>4. CASE req[r].outcome = "same"
    <3>1. Said' = d
      BY <1>5, <2>4
    <3>2. Len(Said') = k /\ DOMAIN Said' = 1 .. k
      BY <3>1, <2>2, <2>3
    <3>3. k # k + 1
      BY <1>4
    <3> QED BY <3>1, <3>2, <3>3, <1>4, <2>4
  <2>5. CASE req[r].outcome # "same"
    <3>1. Said' = Append(d, t)
      BY <1>5, <2>5
    <3>2. Len(Said') = n + 1 /\ DOMAIN Said' = 1 .. (n + 1) /\ Said'[n + 1] = t
      BY <3>1, <2>1, <2>3
    <3>3. \A m \in 1 .. n : Said'[m] = d[m]
      BY <3>1, <2>1, <2>3
    <3> QED BY <2>2, <3>2, <3>3, <1>4
  <2> QED BY <2>4, <2>5
<1> HIDE DEF d, k
<1>7. \A n \in DOMAIN Said' :
        (n \in 1 .. k /\ n \in DOMAIN Said) \/ (n = k + 1 /\ len = k + 1)
  <2>1. Len(Said) \in Nat /\ DOMAIN Said = 1 .. Len(Said)
    BY Sizes
  <2>2. k \in Nat /\ k <= Len(Said)
    BY <1>4
  <2>3. DOMAIN Said' = 1 .. len /\ len \in {k, k + 1}
    BY <1>6
  <2> QED BY <2>1, <2>2, <2>3
<1>8. /\ block'[t].state = "saved" /\ block'[t].record = req[r].record
      /\ block'[t].base = k /\ block'[t].text = req[r].text
  <2>1. block'[t] = Recorded(r, block[t])
    BY <1>1 DEF Commit, SavedBlocks
  <2>2. block[t] \in BlockType
    BY <1>1, Sizes
  <2> QED BY <2>1, <2>2, <1>1 DEF Recorded, BlockType, d, k
<1>9. \A c \in Ids : c # t =>
        IF c \in gone THEN /\ block'[c].state # "saved"
                           /\ block'[c].record = block[c].record
                           /\ block'[c].state # "none" => block[c].state # "none"
        ELSE block'[c] = block[c]
  <2> SUFFICES ASSUME NEW c \in Ids, c # t
               PROVE  IF c \in gone THEN /\ block'[c].state # "saved"
                                         /\ block'[c].record = block[c].record
                                         /\ block'[c].state # "none" => block[c].state # "none"
                      ELSE block'[c] = block[c]
    OBVIOUS
  <2>1. block'[c] = IF c \in gone THEN Retired(r, block[c]) ELSE block[c]
    BY DEF Commit, SavedBlocks
  <2>2. block[c] \in BlockType
    BY Sizes
  <2> HIDE DEF gone
  <2> QED BY <2>1, <2>2 DEF Retired, BlockType
<1>10. /\ \A i : Live(i)' <=> Live(i)
       /\ \A i \in Ids : record[i] # "none" => record'[i] # "none"
  <2>1. record \in [Ids -> {"none", "fresh", "open", "completed", "reset"}]
    BY DEF TypeOK, RowTypes
  <2>2. record' = record \/ record' = [record EXCEPT ![req[r].record] = "completed"]
    BY DEF Commit
  <2> QED BY <2>1, <2>2, <1>1 DEF Live
<1>11. \A c \in Ids : Stands(c)' /\ c # t =>
         Stands(c) /\ block'[c] = block[c] /\ c < t /\ block[c].base <= k
         /\ (T # 0 => c < T)
  <2> SUFFICES ASSUME NEW c \in Ids, Stands(c)', c # t
               PROVE  /\ Stands(c) /\ block'[c] = block[c] /\ c < t /\ block[c].base <= k
                      /\ T # 0 => c < T
    OBVIOUS
  <2>1. c \notin gone /\ block'[c] = block[c] /\ Stands(c)
    BY <1>9, <1>10 DEF Stands
  <2>2. c <= opened
    BY <2>1, <1>0 DEF RowsKept, BlocksOpened, Stands
  <2>3. T # 0 => c < T
    BY <2>1, <1>2, Sizes
  <2>4. /\ block[c].base <= Len(Said) /\ block[c].base \in Nat
        /\ \A n \in DOMAIN Said : Said[n] < c <=> n <= block[c].base
    BY <2>1, <1>0, Sizes DEF RowsKept, Counted
  <2>5. CASE T = 0
    BY <2>1, <2>2, <2>3, <2>4, <2>5, <1>1, <1>4, Sizes
  <2>6. CASE T # 0
    <3>1. \A n \in DOMAIN Said : Said[n] < T <=> n <= block[T].base
      BY <2>6, <1>0, <1>2 DEF RowsKept, Counted
    <3>2. block[c].base = 0 \/ block[c].base \in DOMAIN Said
      <4>1. Len(Said) \in Nat /\ DOMAIN Said = 1 .. Len(Said)
        BY Sizes
      <4> QED BY <4>1, <2>4
    <3>3. ASSUME block[c].base \in DOMAIN Said
          PROVE  Said[block[c].base] < T
      <4>1. Said[block[c].base] < c
        BY <3>3, <2>4
      <4>2. Said[block[c].base] \in Nat /\ c \in Nat /\ T \in Nat
        BY <3>3, <2>6, <1>2, Sizes
      <4> QED BY <4>1, <4>2, <2>3, <2>6
    <3>4. block[c].base <= k
      BY <3>1, <3>2, <3>3, <2>4, <2>6, <1>4
    <3> QED BY <3>4, <2>1, <2>2, <2>3, <1>1, Sizes
  <2> QED BY <2>5, <2>6
<1>12. BlocksOpened'
  <2> SUFFICES ASSUME NEW c \in Ids, block'[c].state # "none"
               PROVE  c <= opened' /\ block'[c].record \in Ids /\ record'[block'[c].record] # "none"
    BY DEF BlocksOpened
  <2>1. CASE c = t
    BY <2>1, <1>0, <1>1, <1>8, <1>10, Sizes DEF Live
  <2>2. CASE c # t
    <3>1. block[c].state # "none" /\ block'[c].record = block[c].record
      BY <2>2, <1>9
    <3> QED BY <3>1, <1>0, <1>10 DEF RowsKept, BlocksOpened
  <2> QED BY <2>1, <2>2
<1>13. OneAttempt'
  BY <1>0, <1>10 DEF RowsKept, OneAttempt
<1>14. \A n \in 1 .. k : n \in DOMAIN Said
  <2>1. Len(Said) \in Nat /\ DOMAIN Said = 1 .. Len(Said)
    BY Sizes
  <2>2. k \in Nat /\ k <= Len(Said)
    BY <1>4
  <2> QED BY <2>1, <2>2
<1>15. MsgsKept'
  <2> SUFFICES ASSUME NEW n \in DOMAIN Said'
               PROVE  MsgKept(n)'
    BY DEF MsgsKept
  <2>1. \A m \in DOMAIN Said' : m < n => Said'[m] < Said'[n]
    <3> SUFFICES ASSUME NEW m \in DOMAIN Said', m < n
                 PROVE  Said'[m] < Said'[n]
      OBVIOUS
    <3>1. m \in 1 .. k /\ m \in DOMAIN Said /\ Said'[m] = Said[m]
      BY <1>4, <1>6, <1>7
    <3>2. CASE n \in 1 .. k
      <4>1. n \in DOMAIN Said /\ Said'[n] = Said[n]
        BY <3>2, <1>6, <1>14
      <4> QED BY <4>1, <3>1, <1>0 DEF RowsKept, MsgsKept, MsgKept
    <3>3. CASE n = k + 1 /\ len = k + 1
      BY <3>1, <3>3, <1>1, <1>6
    <3> QED BY <3>2, <3>3, <1>7
  <2>2. CASE n \in 1 .. k
    <3>1. n \in DOMAIN Said /\ Said'[n] = Said[n]
      BY <2>2, <1>6, <1>14
    <3>2. MsgKept(n) /\ Said[n] \in Ids /\ Said[n] # t
      BY <3>1, <1>0, <1>1, Sizes DEF RowsKept, MsgsKept, MsgKept
    <3>3. Said[n] \notin gone
      <4>1. CASE T = 0
        BY <4>1, <1>3
      <4>2. CASE T # 0
        <5>1. n <= block[T].base
          BY <4>2, <2>2, <1>4
        <5>2. Said[n] < T
          BY <5>1, <4>2, <3>1, <1>0, <1>2 DEF RowsKept, Counted
        <5> QED BY <5>2, <4>2, <3>2, <1>2, Sizes
      <4> QED BY <4>1, <4>2
    <3>4. block'[Said[n]] = block[Said[n]]
      BY <3>2, <3>3, <1>9
    <3> QED BY <2>1, <3>1, <3>2, <3>4, <1>0, <1>10 DEF MsgKept
  <2>3. CASE n = k + 1 /\ len = k + 1
    <3>1. Said'[n] = t
      BY <2>3, <1>6
    <3> QED BY <2>1, <3>1, <1>0, <1>1, <1>8, <1>10 DEF MsgKept
  <2> QED BY <2>2, <2>3, <1>7
<1>16. Counted'
  <2> SUFFICES ASSUME NEW c \in Ids, Stands(c)'
               PROVE  /\ block'[c].base <= Len(Said')
                      /\ \A n \in DOMAIN Said' : Said'[n] < c <=> n <= block'[c].base
    BY <1>5 DEF Counted
  <2>0. k <= Len(Said')
    BY <1>4, <1>6
  <2>1. CASE c = t
    <3> SUFFICES ASSUME NEW n \in DOMAIN Said'
                 PROVE  Said'[n] < t <=> n <= k
      BY <2>0, <2>1, <1>8
    <3>1. CASE n \in 1 .. k
      BY <3>1, <1>1, <1>6, <1>14
    <3>2. CASE n = k + 1 /\ len = k + 1
      <4>1. Said'[n] = t /\ t \in Nat
        BY <3>2, <1>1, <1>6, Sizes
      <4> QED BY <4>1, <3>2, <1>4
    <3> QED BY <3>1, <3>2, <1>7
  <2>2. CASE c # t
    <3>1. Stands(c) /\ block'[c] = block[c] /\ c < t /\ block[c].base <= k /\ block[c].base \in Nat
      BY <2>2, <1>11, Sizes
    <3>2. block'[c].base <= Len(Said')
      BY <3>1, <2>0, <1>4, <1>6
    <3>3. ASSUME NEW n \in DOMAIN Said'
          PROVE  Said'[n] < c <=> n <= block[c].base
      <4>1. CASE n \in 1 .. k
        BY <4>1, <3>1, <1>0, <1>6, <1>14 DEF RowsKept, Counted
      <4>2. CASE n = k + 1 /\ len = k + 1
        BY <4>2, <3>1, <1>1, <1>4, <1>6, Sizes
      <4> QED BY <4>1, <4>2, <1>7
    <3> QED BY <3>1, <3>2, <3>3
  <2> QED BY <2>1, <2>2
<1>17. Recalled'
  <2> SUFFICES ASSUME NEW c \in Ids, Stands(c)', block'[c].text
               PROVE  \E n \in DOMAIN Said' : Said'[n] = c
    BY DEF Recalled
  <2>1. CASE c = t
    <3>1. req[r].outcome # "same"
      BY <2>1, <1>0, <1>8 DEF RequestKept
    <3> QED BY <2>1, <3>1, <1>4, <1>6
  <2>2. CASE c # t
    <3>1. Stands(c) /\ block'[c] = block[c] /\ (T # 0 => c < T)
      BY <2>2, <1>11
    <3>2. PICK n \in DOMAIN Said : Said[n] = c
      BY <3>1, <1>0 DEF RowsKept, Recalled
    <3>3. n \in 1 .. k
      <4>1. CASE T = 0
        BY <4>1, <3>2, <1>4, Sizes
      <4>2. CASE T # 0
        <5>1. n <= block[T].base
          BY <4>2, <3>1, <3>2, <1>0, <1>2 DEF RowsKept, Counted
        <5>2. n \in Nat /\ n >= 1
          BY <3>2, Sizes
        <5> QED BY <5>1, <5>2, <4>2, <1>4
      <4> QED BY <4>1, <4>2
    <3>4. n \in DOMAIN Said' /\ Said'[n] = c
      BY <3>2, <3>3, <1>4, <1>6
    <3> QED BY <3>4
  <2> QED BY <2>1, <2>2
<1>18. req'[r].pc = "saved"
  <2>1. req'[r] = [Idle EXCEPT !.pc = "saved", !.record = req[r].record, !.turn = req[r].turn,
                               !.outcome = req[r].outcome, !.text = req[r].text]
    BY Became DEF Commit
  <2> QED BY <2>1 DEF Idle
<1> QED BY <1>12, <1>13, <1>15, <1>16, <1>17, <1>18 DEF RowsKept, RequestKept, Busy

\* Someone else asks for a record, or writes one: while nobody crosses, there
\* was none, and so nothing said, or it was and stays the live one.
Visits(r) ==
    \/ Visit(r) \/ HandOver(r) \/ \E status \in {"fresh", "open"} : Announce(r, status)
    \/ req[r].pc = "visiting" /\ Die(r)
LEMMA VisitKept ==
    ASSUME TypeOK, TypeOK', Sound, Together, NEW r \in Requests, ~crossed', Visits(r)
    PROVE  Together'
<1>0. /\ block' = block /\ session' = session /\ Said' = Said
      /\ req[r].pc \in {"idle", "visiting"} /\ RequestSound(r) /\ RowsKept
  BY DEF Visits, Visit, HandOver, Announce, Die, rows, Said, Sound, RequestsSound, Together
<1>1. req'[r].pc \in {"idle", "visiting"} /\ \A s \in Requests \ {r} : req'[s] = req[s]
  <2>1. CASE Visit(r)
    <3>1. PICK i \in 0 .. MaxTurns :
            Becomes(r, [Idle EXCEPT !.pc = "visiting", !.record = i, !.fresh = NotStarted(i)])
      BY <2>1 DEF Visit
    <3>2. /\ req'[r] = [Idle EXCEPT !.pc = "visiting", !.record = i, !.fresh = NotStarted(i)]
          /\ \A s \in Requests \ {r} : req'[s] = req[s]
      BY <3>1, Became
    <3>3. req'[r].pc = "visiting"
      BY <3>2 DEF Idle
    <3> QED BY <3>2, <3>3
  <2>2. CASE ~Visit(r)
    BY <2>2, Became DEF Visits, HandOver, Announce, Die, Ends, Idle
  <2> QED BY <2>1, <2>2
<1>2. OnlyOne'
  BY <1>1 DEF Together, OnlyOne, Working
<1>3. /\ opened \in Nat /\ opened' \in Nat /\ opened <= opened'
      /\ record \in [Ids -> {"none", "fresh", "open", "completed", "reset"}]
      /\ 1 .. opened \subseteq Ids /\ 1 .. opened \subseteq 1 .. opened'
  <2>1. opened' \in {opened, opened + 1}
    BY DEF Visits, Visit, HandOver, Announce, Die, rows
  <2> QED BY <2>1, Sizes DEF TypeOK, RowTypes
<1>4. \/ /\ opened' = opened
         /\ \A j \in Ids : Live(j)' <=> Live(j)
         /\ \A j \in Ids : record[j] # "none" => record'[j] # "none"
      \/ /\ LiveRecords = {}
         /\ opened' = opened + 1 /\ opened' \in Ids /\ record[opened'] = "none"
         /\ \A j \in Ids \ {opened'} : record'[j] = record[j]
  <2>1. CASE Visit(r) \/ Die(r)
    BY <2>1 DEF Visit, Die, rows, Live
  <2>2. CASE HandOver(r)
    <3>1. record' = [record EXCEPT ![req[r].record] = "open"] /\ opened' = opened /\ ~Crosses(r)
          /\ req[r].pc = "visiting" /\ req[r].fresh
      BY <2>2 DEF HandOver
    <3>2. req[r].record \in Ids => record[req[r].record] \notin {"none", "reset"}
      BY <3>1, <1>0, AgentAssumption DEF Crosses, RequestSound, Ids
    <3>3. \A j \in Ids : record'[j] = record[j] \/ (Live(j) /\ record'[j] = "open")
      BY <3>1, <3>2, <1>3 DEF Live
    <3> QED BY <3>1, <3>3 DEF Live
  <2>3. ASSUME NEW status \in {"fresh", "open"}, Announce(r, status)
        PROVE  /\ LiveRecords = {}
               /\ opened' = opened + 1 /\ opened' \in Ids /\ record[opened'] = "none"
               /\ \A j \in Ids \ {opened'} : record'[j] = record[j]
    <3>1. /\ opened' = opened + 1 /\ opened' \in Ids /\ LiveRecords = {}
          /\ record' = [record EXCEPT ![opened'] = status]
      BY <2>3 DEF Announce, Crosses
    <3>2. record[opened'] = "none"
      BY <3>1, <1>3 DEF Sound, RecordsSound
    <3> QED BY <3>1, <3>2, <1>3
  <2> QED BY <2>1, <2>2, <2>3 DEF Visits
<1>5. CASE /\ opened' = opened
           /\ \A j \in Ids : Live(j)' <=> Live(j)
           /\ \A j \in Ids : record[j] # "none" => record'[j] # "none"
  <2>0. \A j : (Live(j) => j \in Ids) /\ (Live(j)' => j \in Ids)
    BY DEF Live
  <2>1. \A j : Live(j)' <=> Live(j)
    <3> SUFFICES ASSUME NEW j PROVE Live(j)' <=> Live(j)
      OBVIOUS
    <3>1. CASE j \in Ids
      BY <1>5, <3>1
    <3>2. CASE j \notin Ids
      BY <2>0, <3>2
    <3> QED BY <3>1, <3>2
  <2>2. \A c : Stands(c)' <=> Stands(c)
    BY <1>0, <2>1 DEF Stands, Live
  <2>3. BlocksOpened' /\ OneAttempt'
    <3>1. BlocksOpened'
      <4> SUFFICES ASSUME NEW c \in Ids, block[c].state # "none"
                   PROVE  c <= opened' /\ block[c].record \in Ids /\ record'[block[c].record] # "none"
        BY <1>0 DEF BlocksOpened
      <4>1. c <= opened /\ block[c].record \in Ids /\ record[block[c].record] # "none"
        BY <1>0 DEF RowsKept, BlocksOpened
      <4> QED BY <4>1, <1>5
    <3>2. OneAttempt'
      BY <1>0, <2>1 DEF RowsKept, OneAttempt
    <3> QED BY <3>1, <3>2
  <2>4. MsgsKept'
    BY <1>0, <1>5, <2>1 DEF RowsKept, MsgsKept, MsgKept, Live
  <2>5. Counted' /\ Recalled'
    BY <1>0, <2>2 DEF RowsKept, Counted, Recalled
  <2>6. ASSUME NEW s \in Requests \ {r}
        PROVE  RequestKept(s)'
    <3>1. RequestKept(s) /\ req'[s] = req[s]
      BY <1>1 DEF Together
    <3>2. PlanKept(s) => PlanKept(s)'
      BY <1>0, <1>5, <2>2, <3>1 DEF PlanKept
    <3>3. DocKept(s) => DocKept(s)'
      BY <1>0, <3>1 DEF DocKept, RestoreSession, Restore
    <3>4. TurnKept(s) => TurnKept(s)'
      BY <1>0, <1>5, <3>1 DEF TurnKept
    <3>5. Live(req[s].record)' <=> Live(req[s].record)
      BY <2>1, <3>1 DEF Live
    <3> QED BY <3>1, <3>2, <3>3, <3>4, <3>5 DEF RequestKept, Live
  <2> QED BY <1>1, <1>2, <2>3, <2>4, <2>5, <2>6 DEF Together, RowsKept, RequestKept, Busy
<1>6. CASE /\ LiveRecords = {}
           /\ opened' = opened + 1 /\ opened' \in Ids /\ record[opened'] = "none"
           /\ \A j \in Ids \ {opened'} : record'[j] = record[j]
  <2>1. \A j : ~Live(j)
    BY <1>6 DEF LiveRecords, Live
  <2>2. session = Fresh /\ DOMAIN Said = {}
    BY <2>1 DEF Sound, SessionSound, Said, Fresh
  <2>3. \A j \in Ids : Live(j)' => j = opened'
    BY <1>6, <2>1 DEF Live
  <2>4. \A c \in Ids : ~Stands(c)'
    <3> SUFFICES ASSUME NEW c \in Ids, Stands(c)'
                 PROVE  FALSE
      OBVIOUS
    <3>1. block[c].state # "none" /\ block[c].record = opened'
      BY <1>0, <2>3 DEF Stands, Live
    <3> QED BY <3>1, <1>0, <1>6 DEF RowsKept, BlocksOpened
  <2>5. BlocksOpened'
    <3> SUFFICES ASSUME NEW c \in Ids, block[c].state # "none"
                 PROVE  c <= opened' /\ block[c].record \in Ids /\ record'[block[c].record] # "none"
      BY <1>0 DEF BlocksOpened
    <3>1. c <= opened /\ block[c].record \in Ids /\ record[block[c].record] # "none"
      BY <1>0 DEF RowsKept, BlocksOpened
    <3> QED BY <3>1, <1>3, <1>6 DEF Ids
  <2>6. RowsKept'
    BY <1>0, <2>2, <2>3, <2>4, <2>5 DEF RowsKept, OneAttempt, MsgsKept, Counted, Recalled
  <2>7. ASSUME NEW s \in Requests \ {r}
        PROVE  RequestKept(s)'
    <3>1. RequestKept(s) /\ RequestSound(s) /\ req'[s] = req[s]
      BY <1>1 DEF Together, Sound, RequestsSound
    <3>2. PlanKept(s) => PlanKept(s)'
      BY <1>0, <1>3, <2>2, <3>1 DEF PlanKept
    <3>3. DocKept(s) => DocKept(s)'
      BY <1>0, <3>1 DEF DocKept, RestoreSession, Restore
    <3>4. req[s].pc \in {"teaching", "saving"} => ~Live(req[s].record)'
      <4>1. req[s].pc \in {"teaching", "saving"} =>
              req[s].record \in Ids /\ record[req[s].record] # "none"
        BY <3>1 DEF RequestSound, Past
      <4> QED BY <4>1, <3>1, <1>6, <2>3 DEF Live
    <3> QED BY <3>1, <3>2, <3>3, <3>4 DEF RequestKept
  <2> QED BY <1>1, <1>2, <2>6, <2>7 DEF Together, RequestKept, Busy
<1> QED BY <1>4, <1>5, <1>6

\* While no runs crossed, every step keeps the conversation and the rows together.
LEMMA StepTogether ==
    ASSUME TypeOK, TypeOK', Sound, Together, Next, ~crossed'
    PROVE  Together'
<1>1. CASE Reset
  BY <1>1, ResetKept
<1>3. CASE \E r \in Requests : Visits(r)
  BY <1>3, VisitKept
<1>2. CASE ~Reset /\ \A r \in Requests : ~Visits(r)
  <2>1. PICK r \in Requests :
          \/ Start(r) \/ Load(r) \/ LoadUnusable(r) \/ LoadEnds(r)
          \/ FindRecord(r) \/ Open(r)
          \/ \E outcome \in Outcomes, text \in BOOLEAN : BeginSave(r, outcome, text)
          \/ Discard(r) \/ Commit(r) \/ InsertLost(r)
          \/ Progress(r) \/ OfferNext(r) \/ GoOn(r) \/ Finish(r)
          \/ Abandon(r) \/ Die(r)
    BY <1>2, Zenon DEF Next, Visits
  <2>2. RowsKept' /\ RequestKept(r)'
    <3>1. CASE Commit(r)
      <4>1. session = req[r].read
        BY <3>1 DEF Commit
      <4> QED BY <3>1, <4>1, CommitKept
    <3>2. CASE Open(r)
      <4>1. ~Crosses(r)
        BY <3>2 DEF Open
      <4> QED BY <3>2, <4>1, OpenKept
    <3>3. CASE ~Commit(r) /\ ~Open(r)
      BY <2>1, <3>3, StartKept, MoveKept, EndKept, LateKept
    <3> QED BY <3>1, <3>2, <3>3
  <2>3. Working(r) \/ Alone
    BY <1>2, <2>1 DEF Visits, Start, Load, LoadUnusable, LoadEnds, FindRecord, Open, BeginSave, Discard,
       Commit, InsertLost, Progress, OfferNext, GoOn, Finish, Abandon, Die, Moves, Working
  <2>4. \A s \in Requests \ {r} : req'[s] = req[s]
    <3>1. StepOf(r)
      BY <2>1, EarlySteps, OpenStep, QuietSteps, CommitStep, LateSteps
    <3> QED BY <3>1 DEF StepOf
  <2>5. OnlyOne' /\ \A s \in Requests \ {r} : RequestKept(s)'
    BY <2>3, <2>4, OthersIdle DEF Together
  <2> QED BY <2>2, <2>5 DEF Together
<1> QED BY <1>1, <1>2, <1>3

\* The second induction, on top of the first.
THEOREM TogetherUnlessCrossed == Spec => [](~crossed => Together)
<1> DEFINE TInv == ~crossed => Together
<1>1. Init => TInv
  <2> SUFFICES ASSUME Init
               PROVE  Together
    OBVIOUS
  <2>1. /\ \A i : ~Live(i)
        /\ \A b \in Ids : block[b].state = "none"
        /\ \A r \in Requests : req[r].pc = "idle"
        /\ DOMAIN Said = {}
    BY DEF Init, Live, NoBlock, Idle, Said, Fresh
  <2> QED BY <2>1
       DEF Together, OnlyOne, RowsKept, BlocksOpened, OneAttempt, MsgsKept, Counted, Recalled,
           Stands, RequestKept, Busy, Working
<1>2. IInv /\ TInv /\ [Next]_vars => TInv'
  <2> SUFFICES ASSUME IInv, TInv, [Next]_vars, ~crossed'
               PROVE  Together'
    OBVIOUS
  <2>1. ~crossed
    <3>1. CASE UNCHANGED vars
      BY <3>1 DEF vars
    <3>2. CASE Reset
      BY <3>2 DEF Reset
    <3>3. ASSUME NEW r \in Requests,
                 \/ Start(r) \/ Load(r) \/ LoadUnusable(r) \/ FindRecord(r) \/ Open(r)
                 \/ Visit(r) \/ HandOver(r) \/ LoadEnds(r) \/ \E status \in {"fresh", "open"} : Announce(r, status)
          PROVE  ~crossed
      BY <3>3 DEF Start, Load, LoadUnusable, LoadEnds, FindRecord, Open, Visit, Announce,
         HandOver, history
    <3>4. ASSUME NEW r \in Requests,
                 \/ \E outcome \in Outcomes, text \in BOOLEAN : BeginSave(r, outcome, text)
                 \/ Discard(r) \/ Commit(r) \/ InsertLost(r) \/ Progress(r)
                 \/ OfferNext(r) \/ GoOn(r) \/ Finish(r) \/ Abandon(r) \/ Die(r)
          PROVE  ~crossed
      BY <3>4 DEF BeginSave, Discard, Commit, InsertLost, Progress, OfferNext, GoOn, Finish,
         Abandon, Die, history
    <3> QED BY <3>1, <3>2, <3>3, <3>4 DEF Next
  <2>2. CASE Next
    BY <2>1, <2>2, StepTyped, StepTogether DEF IInv
  <2>3. CASE UNCHANGED vars
    <3>1. UNCHANGED rows /\ req' = req /\ Together
      BY <2>1, <2>3 DEF vars, rows
    <3>2. RowsKept'
      BY <3>1, RowsRest DEF Together
    <3>3. ASSUME NEW r \in Requests
          PROVE  RequestKept(r)'
      <4>1. PlanKept(r) => PlanKept(r)'
        BY <3>1, PlanRests DEF PlanKept
      <4>2. DocKept(r) => DocKept(r)'
        BY <3>1 DEF DocKept, RestoreSession, Restore, rows
      <4>3. TurnKept(r) => TurnKept(r)'
        BY <3>1 DEF TurnKept, Said, rows
      <4>4. Live(req[r].record)' <=> Live(req[r].record)
        BY <3>1 DEF Live, rows
      <4> QED BY <3>1, <4>1, <4>2, <4>3, <4>4 DEF Together, RequestKept
    <3> QED BY <3>1, <3>2, <3>3 DEF Together, OnlyOne, Working
  <2> QED BY <2>2, <2>3
<1> QED BY <1>1, <1>2, Invariant, PTL DEF Spec

\* Unless runs crossed, the conversation the model is shown and the rows the
\* learner sees are the same turns in the same order.
THEOREM SessionTells == Spec => []SessionTellsTheRows
<1>1. IInv /\ (~crossed => Together) => SessionTellsTheRows
  <2> SUFFICES ASSUME IInv, RowsKept
               PROVE  LET told == {n \in DOMAIN session.msgs : block[session.msgs[n]].text}
                      IN  /\ {session.msgs[n] : n \in told} = TaughtRows
                          /\ \A m, n \in told : m < n => session.msgs[m] < session.msgs[n]
    BY DEF SessionTellsTheRows, Together
  <2> DEFINE told == {n \in DOMAIN Said : block[Said[n]].text}
  <2>1. \A n \in told : Said[n] \in TaughtRows
    BY Sizes DEF IInv, RowsKept, MsgsKept, MsgKept, TaughtRows
  <2>2. \A b \in TaughtRows : \E n \in told : Said[n] = b
    BY DEF RowsKept, Recalled, TaughtRows, Stands
  <2>3. \A m, n \in told : m < n => Said[m] < Said[n]
    BY DEF RowsKept, MsgsKept, MsgKept
  <2> HIDE DEF told
  <2>4. {Said[n] : n \in told} = TaughtRows
    BY <2>1, <2>2
  <2> QED BY <2>3, <2>4 DEF Said, told
<1> QED BY <1>1, Invariant, TogetherUnlessCrossed, PTL

\* A turn of the conversation that still stands can be taken back to.
THEOREM CheckpointsPrecede == Spec => []CheckpointPrecedesTurn
<1>1. IInv /\ (~crossed => Together) => CheckpointPrecedesTurn
  <2> SUFFICES ASSUME IInv, RowsKept, NEW n \in DOMAIN Said, LiveRow(Said[n])
               PROVE  block[Said[n]].base = n - 1
    BY DEF CheckpointPrecedesTurn, Together, Said
  <2>1. MsgKept(n) /\ Said[n] \in Ids /\ Stands(Said[n])
    BY Sizes DEF IInv, RowsKept, MsgsKept, MsgKept, LiveRow, Stands
  <2>2. PICK base \in Nat : base = block[Said[n]].base
    BY <2>1, Sizes DEF IInv
  <2>3. \A m \in DOMAIN Said : Said[m] < Said[n] <=> m <= base
    BY <2>1, <2>2 DEF RowsKept, Counted
  <2>4. n \in Nat /\ n >= 1 /\ Said[n] \in Nat
    BY Sizes DEF IInv
  <2>5. ~(n <= base)
    BY <2>3, <2>4
  <2>6. n = 1 \/ n - 1 <= base
    <3>1. n = 1 \/ n - 1 \in DOMAIN Said
      BY <2>4, Sizes DEF IInv
    <3>2. n - 1 \in DOMAIN Said => Said[n - 1] < Said[n]
      BY <2>1, <2>4 DEF MsgKept
    <3> QED BY <3>1, <3>2, <2>3
  <2> QED BY <2>2, <2>4, <2>5, <2>6
<1> QED BY <1>1, Invariant, TogetherUnlessCrossed, PTL
==============================================================================
