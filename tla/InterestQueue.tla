---------------------------- MODULE InterestQueue ----------------------------
(***************************************************************************)
(* ndnrtc's InterestQueue: a priority queue of Interests which any thread   *)
(* may fill and which a one-shot timer job of the background thread drains  *)
(* one entry at a time.  The job is scheduled on demand: enqueueInterest    *)
(* arms it when isWatchingQueue_ is false, and watchQueue asks to be armed  *)
(* again by returning isWatchingQueue_, which it reads after it has let go  *)
(* of queueAccess_.  Two locks protect the hand-over: queueAccess_ (the     *)
(* queue and the flag) and jobMutex_ of NdnRtcComponent (the timer).  They  *)
(* are taken in both orders.                                                *)
(*                                                                         *)
(* The timer (boost::asio::steady_timer on an io_service that exactly one   *)
(* thread runs) is external: arming it again aborts the previous wait, so a *)
(* single Boolean says whether a wait is outstanding.                       *)
(***************************************************************************)
EXTENDS Naturals, FiniteSets

CONSTANTS
    Clients,    \* application threads that call enqueueInterest / reset
    Bg,         \* the thread that runs the io_service
    Interests,  \* the Interests enqueued during a behaviour
    Deadline,   \* enqueue time + arrival delay: what Priority::getValue orders by
    NoThread,
    NoInterest

ASSUME ThreadsAssumption == /\ Bg \notin Clients
                            /\ NoThread \notin Clients \cup {Bg}
ASSUME InterestsAssumption == NoInterest \notin Interests
ASSUME DeadlineAssumption == Deadline \in [Interests -> Nat]

Threads == Clients \cup {Bg}

VARIABLES
    queue,            \* queue_
    isWatchingQueue,  \* isWatchingQueue_
    armed,            \* watchdogTimer_ has an outstanding wait
    queueAccess,      \* owner of queueAccess_
    jobMutex,         \* owner of jobMutex_
    pc,               \* what each thread is doing
    entry,            \* the local variable entry of watchQueue
    alive,            \* the object exists
    used,             \* the Interests enqueued so far
    expressed,        \* the Interests handed to the face
    failed            \* the Interests the face threw on

vars == <<queue, isWatchingQueue, armed, queueAccess, jobMutex, pc, entry,
          alive, used, expressed, failed>>

Init ==
    /\ queue = {}
    /\ isWatchingQueue = FALSE
    /\ armed = FALSE
    /\ queueAccess = NoThread
    /\ jobMutex = NoThread
    /\ pc = [t \in Threads |-> "idle"]
    /\ entry = NoInterest
    /\ alive = TRUE
    /\ used = {}
    /\ expressed = {}
    /\ failed = {}

-----------------------------------------------------------------------------
(* enqueueInterest: lock queueAccess_ and push ...                          *)
EnqueueLock(t, i) ==
    /\ alive
    /\ pc[t] = "idle"
    /\ queueAccess = NoThread
    /\ i \notin used
    /\ queue' = queue \cup {i}
    /\ used' = used \cup {i}
    /\ queueAccess' = t
    /\ pc' = [pc EXCEPT ![t] = "pushed"]
    /\ UNCHANGED <<isWatchingQueue, armed, jobMutex, entry, alive, expressed, failed>>

(* ... scheduleJob, which needs jobMutex_, unless the queue is being
   watched ...                                                              *)
EnqueueSchedule(t) ==
    /\ pc[t] = "pushed"
    /\ ~isWatchingQueue
    /\ jobMutex = NoThread
    /\ armed' = TRUE
    /\ pc' = [pc EXCEPT ![t] = "scheduled"]
    /\ UNCHANGED <<queue, isWatchingQueue, queueAccess, jobMutex, entry, alive,
                   used, expressed, failed>>

(* ... and set the flag and unlock.                                         *)
EnqueueUnlock(t) ==
    /\ \/ pc[t] = "scheduled"
       \/ pc[t] = "pushed" /\ isWatchingQueue
    /\ isWatchingQueue' = TRUE
    /\ queueAccess' = NoThread
    /\ pc' = [pc EXCEPT ![t] = "idle"]
    /\ UNCHANGED <<queue, armed, jobMutex, entry, alive, used, expressed, failed>>

(* Mutant: reset() also lowers the flag.                                    *)
ResetLowersFlag(t) ==
    /\ alive
    /\ pc[t] = "idle"
    /\ queueAccess = NoThread
    /\ queue' = {}
    /\ isWatchingQueue' = FALSE
    /\ UNCHANGED <<armed, queueAccess, jobMutex, pc, entry, alive, used,
                   expressed, failed>>

(* Mutant: reset() also cancels the timer.                                  *)
ResetCancelsTimer(t) ==
    /\ alive
    /\ pc[t] = "idle"
    /\ queueAccess = NoThread
    /\ queue' = {}
    /\ armed' = FALSE
    /\ UNCHANGED <<isWatchingQueue, queueAccess, jobMutex, pc, entry, alive,
                   used, expressed, failed>>

(* reset() flushes the queue under queueAccess_ and leaves the flag and the
   timer alone.                                                             *)
Reset(t) ==
    /\ alive
    /\ pc[t] = "idle"
    /\ queueAccess = NoThread
    /\ queue' = {}
    /\ UNCHANGED <<isWatchingQueue, armed, queueAccess, jobMutex, pc, entry,
                   alive, used, expressed, failed>>

-----------------------------------------------------------------------------
(* The timer handler of scheduleJob starts on the background thread ...     *)
TimerFires ==
    /\ pc[Bg] = "idle"
    /\ armed
    /\ armed' = FALSE
    /\ pc' = [pc EXCEPT ![Bg] = "fired"]
    /\ UNCHANGED <<queue, isWatchingQueue, queueAccess, jobMutex, entry, alive,
                   used, expressed, failed>>

(* ... and takes jobMutex_ for the whole of the job callback.               *)
JobLock ==
    /\ pc[Bg] = "fired"
    /\ jobMutex = NoThread
    /\ jobMutex' = Bg
    /\ pc' = [pc EXCEPT ![Bg] = "watching"]
    /\ UNCHANGED <<queue, isWatchingQueue, armed, queueAccess, entry, alive,
                   used, expressed, failed>>

(* queue_.top(): the priority queue is ordered by the inverted comparator,
   whose greatest entry is one with the smallest getValue().                *)
Top(q) == {i \in q : \A j \in q : Deadline[i] <= Deadline[j]}

(* watchQueue under queueAccess_: pop the top, if any, and decide whether
   the queue is still watched.                                              *)
WatchPop ==
    /\ pc[Bg] = "watching"
    /\ queueAccess = NoThread
    /\ IF queue = {}
       THEN queue' = queue /\ entry' = NoInterest
       ELSE \E i \in Top(queue) : queue' = queue \ {i} /\ entry' = i
    /\ isWatchingQueue' = (queue' # {})
    /\ pc' = [pc EXCEPT ![Bg] = "express"]
    /\ UNCHANGED <<armed, queueAccess, jobMutex, alive, used, expressed, failed>>

(* Mutant: processEntry without the test that an entry was popped.          *)
ProcessEntryUnchecked ==
    /\ pc[Bg] = "express"
    /\ expressed' = expressed \cup {entry}
    /\ entry' = NoInterest
    /\ pc' = [pc EXCEPT ![Bg] = "return"]
    /\ UNCHANGED <<queue, isWatchingQueue, armed, queueAccess, jobMutex, alive,
                   used, failed>>

(* processEntry, outside queueAccess_: hand the Interest to the face; an
   exception is reported and the Interest is dropped.                       *)
ProcessEntry ==
    /\ pc[Bg] = "express"
    /\ \/ entry = NoInterest /\ UNCHANGED <<expressed, failed>>
       \/ entry # NoInterest /\ expressed' = expressed \cup {entry} /\ UNCHANGED failed
       \/ entry # NoInterest /\ failed' = failed \cup {entry} /\ UNCHANGED expressed
    /\ entry' = NoInterest
    /\ pc' = [pc EXCEPT ![Bg] = "return"]
    /\ UNCHANGED <<queue, isWatchingQueue, armed, queueAccess, jobMutex, alive, used>>

(* Mutant: the job returns false whatever the flag says.                    *)
WatchReturnFalse ==
    /\ pc[Bg] = "return"
    /\ jobMutex' = NoThread
    /\ pc' = [pc EXCEPT ![Bg] = "idle"]
    /\ UNCHANGED <<queue, isWatchingQueue, armed, queueAccess, entry, alive,
                   used, expressed, failed>>

(* `return isWatchingQueue_', read without the lock; the handler schedules
   the job again when it is true and gives jobMutex_ back.                  *)
WatchReturn ==
    /\ pc[Bg] = "return"
    /\ armed' = (armed \/ isWatchingQueue)
    /\ jobMutex' = NoThread
    /\ pc' = [pc EXCEPT ![Bg] = "idle"]
    /\ UNCHANGED <<queue, isWatchingQueue, queueAccess, entry, alive, used,
                   expressed, failed>>

(* ~InterestQueue -> stopQueueWatching -> stopJob, on the background thread,
   once no caller is inside the object.                                     *)
StopQueueWatching ==
    /\ alive
    /\ \A t \in Threads : pc[t] = "idle"
    /\ jobMutex = NoThread
    /\ armed' = FALSE
    /\ isWatchingQueue' = FALSE
    /\ alive' = FALSE
    /\ UNCHANGED <<queue, queueAccess, jobMutex, pc, entry, used, expressed, failed>>

(* Nothing to do: everybody is outside the object and no wait is outstanding.
   A state in which nothing else is possible but somebody is inside a call
   is a deadlock.                                                           *)
Quiescent ==
    /\ \A t \in Threads : pc[t] = "idle"
    /\ ~armed
    /\ UNCHANGED vars

Next ==
    \/ \E t \in Threads, i \in Interests : EnqueueLock(t, i)
    \/ \E t \in Threads : EnqueueSchedule(t) \/ EnqueueUnlock(t) \/ Reset(t)
    \/ TimerFires \/ JobLock \/ WatchPop \/ ProcessEntry \/ WatchReturn
    \/ StopQueueWatching
    \/ Quiescent

(* Every thread inside a call keeps running, and so does the io_service.
   Nobody is obliged to enqueue, to reset or to destroy.                    *)
Fairness ==
    /\ \A t \in Threads : WF_vars(EnqueueSchedule(t) \/ EnqueueUnlock(t))
    /\ WF_vars(TimerFires)
    /\ WF_vars(JobLock)
    /\ WF_vars(WatchPop)
    /\ WF_vars(ProcessEntry)
    /\ WF_vars(WatchReturn)

Spec == Init /\ [][Next]_vars /\ Fairness

-----------------------------------------------------------------------------
PCs == {"idle", "pushed", "scheduled", "fired", "watching", "express", "return"}

(* Type invariant.                                                          *)
TypeOK ==
    /\ queue \subseteq Interests
    /\ isWatchingQueue \in BOOLEAN
    /\ armed \in BOOLEAN
    /\ queueAccess \in Threads \cup {NoThread}
    /\ jobMutex \in {Bg, NoThread}
    /\ pc \in [Threads -> PCs]
    /\ entry \in Interests \cup {NoInterest}
    /\ alive \in BOOLEAN
    /\ used \subseteq Interests
    /\ expressed \subseteq Interests
    /\ failed \subseteq Interests

(* Somebody is going to look at the queue: the timer is armed, its handler
   has not yet popped, or it has popped and will read a true flag.          *)
WakeUpComing ==
    \/ armed
    \/ pc[Bg] \in {"fired", "watching"}
    \/ pc[Bg] \in {"express", "return"} /\ isWatchingQueue

(* No Interest is stranded: as long as the queue is not empty a watchQueue
   run is on its way, or the thread that pushed the last entry is still
   inside enqueueInterest and is about to schedule one.  This is what makes
   the unlocked read of isWatchingQueue_ at the end of watchQueue (and the
   test of the same flag in enqueueInterest) safe.                          *)
NoStrandedInterest ==
    alive /\ queue # {} =>
        WakeUpComing \/ \E t \in Threads : pc[t] = "pushed" /\ ~isWatchingQueue

(* A true flag is a promise: enqueueInterest relies on it to skip
   scheduleJob, so whenever it is true a run of watchQueue is coming.       *)
FlagIsAPromise == alive /\ isWatchingQueue => WakeUpComing

(* The two locks are taken in both orders (enqueueInterest: queueAccess_
   then jobMutex_; the timer handler: jobMutex_ then queueAccess_), yet
   nobody who holds queueAccess_ waits for jobMutex_ while the handler,
   holding jobMutex_, waits for queueAccess_.                               *)
NoLockCycle ==
    ~ \E t \in Threads :
        /\ pc[t] = "pushed"
        /\ ~isWatchingQueue
        /\ jobMutex = Bg
        /\ pc[Bg] = "watching"

(* Every Interest that enters the queue leaves it (expressed, rejected by
   the face or flushed) unless the queue is destroyed.                      *)
EveryInterestLeaves ==
    \A i \in Interests : i \in queue ~> (i \notin queue \/ ~alive)

-----------------------------------------------------------------------------
(* The strengthening that makes the safety properties inductive.            *)

(* A run of watchQueue is due: the wait is outstanding or its handler has
   not popped yet.                                                          *)
RunDue == armed \/ pc[Bg] \in {"fired", "watching"}

(* Only the background thread runs the timer handler.                       *)
ClientPCs == \A t \in Clients : pc[t] \in {"idle", "pushed", "scheduled"}

(* A thread between push and unlock owns queueAccess_.                      *)
QueueAccessHeld == \A t \in Threads : pc[t] \in {"pushed", "scheduled"} => queueAccess = t

(* jobMutex_ is held exactly while the job callback runs.                   *)
JobMutexHeld == jobMutex = Bg <=> pc[Bg] \in {"watching", "express", "return"}

(* The timer is one-shot: nobody arms it while its handler is running.      *)
TimerOneShot == pc[Bg] \in {"fired", "watching", "express", "return"} => ~armed

(* A run that is due has been announced by the flag, or by a thread that is
   about to raise it.                                                       *)
DueIsAnnounced == RunDue => isWatchingQueue \/ \E t \in Threads : pc[t] = "scheduled"

(* Who has called scheduleJob has made a run due.                           *)
ScheduledIsDue == \A t \in Threads : pc[t] = "scheduled" => RunDue

IInv ==
    /\ TypeOK
    /\ ClientPCs
    /\ QueueAccessHeld
    /\ JobMutexHeld
    /\ TimerOneShot
    /\ DueIsAnnounced
    /\ ScheduledIsDue
    /\ FlagIsAPromise
    /\ NoStrandedInterest
=============================================================================
