------------------------------ MODULE RunGate ------------------------------
(***************************************************************************)
(* Admission of the run requests of one learner in one lesson:             *)
(* flaskr/service/learn/runscript_v2.py.  Lesson runs share a lock with a  *)
(* time to live, ask (follow-up) runs a counting semaphore in Redis, and   *)
(* lesson runs publish a running marker that get_run_status reads.  What a *)
(* run streams while it is admitted is the module RunStream; here a run    *)
(* has a request thread and a producer thread that may outlive it.         *)
(***************************************************************************)
EXTENDS Naturals, FiniteSets

CONSTANTS
    Lessons,    \* requests that take the lesson lock
    Asks,       \* requests with input_type INPUT_TYPE_ASK
    MaxAsks,    \* MAX_PARALLEL_ASK_COUNT
    Faults,     \* whether keys expire under a run, Redis fails, threads run out
                \* or workers die
    NoRun

Requests == Lessons \cup Asks

ASSUME RequestsAssumption ==
    /\ IsFiniteSet(Requests)
    /\ Lessons \cap Asks = {}
    /\ NoRun \notin Requests
    /\ MaxAsks \in Nat
    /\ Faults \in BOOLEAN

VARIABLES
    lock,       \* owner of the run_script lock, or NoRun
    marker,     \* run that wrote the :running key last, or NoRun
    slots,      \* value of the ask_sem key, 0 when absent
    thread,     \* where the request thread of a run is
    producers,  \* its producer thread: "none", "working", "ended"
    expired,    \* history: lesson runs whose lock ran out under them
    drifted,    \* history: whether a fault disturbed the semaphore
    stranded    \* history: lesson runs a fault kept from cleaning up

vars == <<lock, marker, slots, thread, producers, expired, drifted, stranded>>

ThreadStates ==
    {"new", "busy", "admitted", "marking", "streaming", "stopping",
     "releasing", "clearing", "closed", "aborted"}

\* Runs admitted and not yet past the release in run_script's finally block.
Admitted == {"admitted", "marking", "streaming", "stopping", "releasing"}
Holding(S) == {r \in S : thread[r] \in Admitted}

Init ==
    /\ lock = NoRun
    /\ marker = NoRun
    /\ slots = 0
    /\ thread = [r \in Requests |-> "new"]
    /\ producers = [r \in Requests |-> "none"]
    /\ expired = {}
    /\ drifted = FALSE
    /\ stranded = {}

Goes(r, from, to) ==
    /\ thread[r] = from
    /\ thread' = [thread EXCEPT ![r] = to]

\* What lock.release() and the release script of the semaphore leave.
Unlocked(r) == IF lock = r THEN NoRun ELSE lock
SlotGivenBack == IF slots > 0 THEN slots - 1 ELSE slots

\* A fault keeps run r from cleaning up behind itself.
Strand(r) ==
    /\ Faults
    /\ stranded' = IF r \in Lessons THEN stranded \cup {r} ELSE stranded
    /\ drifted' = (r \in Asks \/ drifted)

------------------------------------------------------------------------------
(* Admission.                                                              *)

\* One of the six attempts finds the lock free.
AcquireLock(r) ==
    /\ r \in Lessons
    /\ lock = NoRun
    /\ Goes(r, "new", "admitted")
    /\ lock' = r
    /\ UNCHANGED <<marker, slots, producers, expired, drifted, stranded>>

\* The last attempt still finds it taken: the request answers "busy" and
\* touches nothing.
LockBusy(r) ==
    /\ r \in Lessons
    /\ lock # NoRun
    /\ Goes(r, "new", "busy")
    /\ UNCHANGED <<lock, marker, slots, producers, expired, drifted, stranded>>

\* Redis does not answer, whether or not it took the lock: acquire raises
\* before the try block and the request fails.
LoseAcquire(r) ==
    /\ r \in Lessons
    /\ Strand(r)
    /\ Goes(r, "new", "aborted")
    /\ lock' \in {lock, IF lock = NoRun THEN r ELSE lock}
    /\ UNCHANGED <<marker, slots, producers, expired>>

AcquireSlotOffByOne(r) ==
    /\ r \in Asks
    /\ slots <= MaxAsks
    /\ Goes(r, "new", "admitted")
    /\ slots' = slots + 1
    /\ UNCHANGED <<lock, marker, producers, expired, drifted, stranded>>

\* The acquire script of the semaphore, atomic in Redis.
AcquireSlot(r) ==
    /\ r \in Asks
    /\ slots < MaxAsks
    /\ Goes(r, "new", "admitted")
    /\ slots' = slots + 1
    /\ UNCHANGED <<lock, marker, producers, expired, drifted, stranded>>

SlotsFull(r) ==
    /\ r \in Asks
    /\ slots >= MaxAsks
    /\ Goes(r, "new", "busy")
    /\ UNCHANGED <<lock, marker, slots, producers, expired, drifted, stranded>>

\* Redis does not answer: the ask runs, whether or not it was counted.
FailOpen(r) ==
    /\ r \in Asks
    /\ Strand(r)
    /\ Goes(r, "new", "admitted")
    /\ slots' \in {slots, IF slots < MaxAsks THEN slots + 1 ELSE slots}
    /\ UNCHANGED <<lock, marker, producers, expired>>

------------------------------------------------------------------------------
(* The run.                                                                *)

StartProducer(r) ==
    /\ Goes(r, "admitted", "marking")
    /\ producers' = [producers EXCEPT ![r] = "working"]
    /\ UNCHANGED <<lock, marker, slots, expired, drifted, stranded>>

\* The thread cannot start: the finally block's join raises on a thread that
\* was never started, so nothing is released and only time frees it.
StartFails(r) ==
    /\ Strand(r)
    /\ Goes(r, "admitted", "aborted")
    /\ UNCHANGED <<lock, marker, slots, producers, expired>>

\* The worker process dies under a run: both its threads are gone, what it
\* held in Redis stays.
WorkerDies(r) ==
    /\ thread[r] \in Admitted \cup {"clearing"}
    /\ Strand(r)
    /\ thread' = [thread EXCEPT ![r] = "aborted"]
    /\ producers' = [producers EXCEPT ![r] = IF @ = "none" THEN @ ELSE "ended"]
    /\ UNCHANGED <<lock, marker, slots, expired>>

\* _refresh_run_script_status(force=True); asks own no marker.
Mark(r) ==
    /\ Goes(r, "marking", "streaming")
    /\ marker' = IF r \in Lessons THEN r ELSE marker
    /\ UNCHANGED <<lock, slots, producers, expired, drifted, stranded>>

\* The periodic refresh while the request thread polls or yields.
Refresh(r) ==
    /\ r \in Lessons
    /\ Goes(r, "streaming", "streaming")
    /\ marker' = r
    /\ UNCHANGED <<lock, slots, producers, expired, drifted, stranded>>

\* The producer's generator ends, fails, or notices the stop event at its
\* next item.
ProducerEnds(r) ==
    /\ producers[r] = "working"
    /\ producers' = [producers EXCEPT ![r] = "ended"]
    /\ UNCHANGED <<lock, marker, slots, thread, expired, drifted, stranded>>

\* The stream is over for the request thread: done or error was read, or the
\* client left.  The finally block sets the stop event.
EndStream(r) ==
    /\ Goes(r, "streaming", "stopping")
    /\ UNCHANGED <<lock, marker, slots, producers, expired, drifted, stranded>>

JoinForever(r) ==
    /\ producers[r] = "ended"
    /\ Goes(r, "stopping", "releasing")
    /\ UNCHANGED <<lock, marker, slots, producers, expired, drifted, stranded>>

\* join(timeout=0.1): goes on whether or not the producer has stopped.
Join(r) ==
    /\ Goes(r, "stopping", "releasing")
    /\ UNCHANGED <<lock, marker, slots, producers, expired, drifted, stranded>>

ReleaseAnyLock(r) ==
    /\ r \in Lessons
    /\ Goes(r, "releasing", "clearing")
    /\ lock' = NoRun
    /\ UNCHANGED <<marker, slots, producers, expired, drifted, stranded>>

\* lock.release() frees the lock only for the token that owns it; the error
\* raised otherwise is suppressed.
ReleaseLock(r) ==
    /\ r \in Lessons
    /\ Goes(r, "releasing", "clearing")
    /\ lock' = Unlocked(r)
    /\ UNCHANGED <<marker, slots, producers, expired, drifted, stranded>>

\* Redis does not answer the release; that error is suppressed too, and the
\* lock may stay for the rest of its time to live.
LoseUnlock(r) ==
    /\ r \in Lessons
    /\ Strand(r)
    /\ Goes(r, "releasing", "clearing")
    /\ lock' \in {lock, Unlocked(r)}
    /\ UNCHANGED <<marker, slots, producers, expired>>

ClearOwnMarker(r) ==
    /\ r \in Lessons
    /\ Goes(r, "clearing", "closed")
    /\ marker' = IF marker = r /\ r \notin expired THEN NoRun ELSE marker
    /\ UNCHANGED <<lock, slots, producers, expired, drifted, stranded>>

\* _clear_run_script_status deletes the key whoever wrote it.
ClearMarker(r) ==
    /\ r \in Lessons
    /\ Goes(r, "clearing", "closed")
    /\ marker' = NoRun
    /\ UNCHANGED <<lock, slots, producers, expired, drifted, stranded>>

\* The delete fails: it is only logged, or done in the memory of this process
\* by the fallback cache, and the key stays for the rest of its time to live.
LoseClear(r) ==
    /\ r \in Lessons
    /\ Strand(r)
    /\ Goes(r, "clearing", "closed")
    /\ UNCHANGED <<lock, marker, slots, producers, expired>>

\* The release script of the semaphore.
ReleaseSlot(r) ==
    /\ r \in Asks
    /\ Goes(r, "releasing", "closed")
    /\ slots' = SlotGivenBack
    /\ UNCHANGED <<lock, marker, producers, expired, drifted, stranded>>

\* Redis does not answer the release: the slot may stay taken.
LoseRelease(r) ==
    /\ r \in Asks
    /\ Strand(r)
    /\ Goes(r, "releasing", "closed")
    /\ slots' \in {slots, SlotGivenBack}
    /\ UNCHANGED <<lock, marker, producers, expired>>

------------------------------------------------------------------------------
(* Time to live: RUN_SCRIPT_TIMEOUT_SECONDS on all three keys.             *)

LockExpires ==
    /\ Faults
    /\ lock # NoRun
    /\ expired' = expired \cup {lock}
    /\ lock' = NoRun
    /\ UNCHANGED <<marker, slots, thread, producers, drifted, stranded>>

SlotsExpire ==
    /\ Faults
    /\ slots > 0
    /\ slots' = 0
    /\ drifted' = TRUE
    /\ UNCHANGED <<lock, marker, thread, producers, expired, stranded>>

\* Also a write of the marker that the cache lost.
MarkerExpires ==
    /\ Faults
    /\ marker # NoRun
    /\ marker' = NoRun
    /\ UNCHANGED <<lock, slots, thread, producers, expired, drifted, stranded>>

------------------------------------------------------------------------------
\* What the request thread does by itself after its stream has ended.
Finally(r) ==
    \/ Join(r)
    \/ ReleaseLock(r) \/ LoseUnlock(r) \/ ClearMarker(r) \/ LoseClear(r)
    \/ ReleaseSlot(r) \/ LoseRelease(r)

AskStep(r) ==
    \/ AcquireSlot(r) \/ SlotsFull(r) \/ FailOpen(r)
    \/ StartProducer(r) \/ StartFails(r) \/ Mark(r) \/ ProducerEnds(r) \/ EndStream(r)
    \/ Join(r) \/ ReleaseSlot(r) \/ LoseRelease(r) \/ WorkerDies(r)

LessonStep(r) ==
    \/ AcquireLock(r) \/ LockBusy(r) \/ LoseAcquire(r)
    \/ StartProducer(r) \/ StartFails(r) \/ Mark(r) \/ Refresh(r) \/ ProducerEnds(r) \/ EndStream(r)
    \/ Join(r) \/ ReleaseLock(r) \/ LoseUnlock(r) \/ ClearMarker(r) \/ LoseClear(r)
    \/ WorkerDies(r)

Next ==
    \/ \E r \in Lessons : LessonStep(r)
    \/ \E r \in Asks : AskStep(r)
    \/ LockExpires \/ SlotsExpire \/ MarkerExpires

Spec == Init /\ [][Next]_vars

\* The finally block runs on, and a lock nobody extends ends with its time to
\* live; the producer and the client owe nothing.
FairSpec ==
    /\ Spec
    /\ \A r \in Requests : WF_vars(Finally(r))
    /\ WF_vars(LockExpires)

------------------------------------------------------------------------------
(* Properties.                                                             *)

\* Every variable stays in its range.
TypeOK ==
    /\ lock \in Lessons \cup {NoRun}
    /\ marker \in Lessons \cup {NoRun}
    /\ slots \in Nat
    /\ thread \in [Requests -> ThreadStates]
    /\ producers \in [Requests -> {"none", "working", "ended"}]
    /\ expired \in SUBSET Lessons
    /\ drifted \in BOOLEAN
    /\ stranded \in SUBSET Lessons

\* A lesson run owns the lock from its admission to its release unless the
\* time to live ran out under it, so two streams of one lesson overlap only
\* after an expiry, and a run that outlived its lock never frees another's.
LockHeldUntilReleased ==
    \A r \in Holding(Lessons) \ expired : lock = r

\* The semaphore counts the asks that are running, no more and no fewer, and
\* stays within the maximum, as long as no fault disturbed it.
AskSlotsExact ==
    ~drifted => slots = Cardinality(Holding(Asks)) /\ slots <= MaxAsks

\* A lesson is locked, or reported as running, only on behalf of a run that is
\* still to clean up after itself: whoever wrote either key is gone only when
\* the key is, except a run that a fault kept from its finally block or whose
\* Redis calls there, whose errors are swallowed, went unanswered.
KeysHaveARun ==
    /\ lock # NoRun => thread[lock] \in Admitted \/ lock \in stranded
    /\ marker # NoRun =>
          \/ thread[marker] \in {"streaming", "stopping", "releasing", "clearing"}
          \/ marker \in stranded

\* An ask runs beside the lesson: no step of an ask takes or frees the
\* lesson's lock or touches its running marker.
AskLeavesLessonAlone ==
    [][\A r \in Asks : thread'[r] # thread[r] => UNCHANGED <<lock, marker>>]_vars

\* A learner who leaves gets the lesson back: the run closes even if its
\* producer never stops, or its worker dies, and its lock is freed, at the
\* latest when its time to live ends.
LeavingFreesTheLesson ==
    \A r \in Requests :
        (thread[r] = "stopping") ~> (thread[r] \in {"closed", "aborted"} /\ lock # r)

==============================================================================
