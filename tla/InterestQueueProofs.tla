------------------------- MODULE InterestQueueProofs -------------------------
(* Proofs about InterestQueue, for any number of threads and Interests.     *)
EXTENDS InterestQueue, TLAPS

(* The initial state satisfies the inductive invariant: nothing is queued,
   nothing is armed, nobody is inside the object.                           *)
LEMMA InitIInv == Init => IInv
BY ThreadsAssumption DEF Init, IInv, TypeOK, ClientPCs, QueueAccessHeld, JobMutexHeld,
   TimerOneShot, RunDue, DueIsAnnounced, ScheduledIsDue, FlagIsAPromise,
   NoStrandedInterest, WakeUpComing, Threads, PCs

(* Every step of enqueueInterest, reset, the timer handler and the
   destructor preserves the inductive invariant.                            *)
LEMMA NextIInv == IInv /\ [Next]_vars => IInv'
<1> SUFFICES ASSUME IInv, [Next]_vars PROVE IInv'
    OBVIOUS
<1> USE ThreadsAssumption, InterestsAssumption
<1> USE DEF IInv, TypeOK, ClientPCs, QueueAccessHeld, JobMutexHeld,
   TimerOneShot, RunDue, DueIsAnnounced, ScheduledIsDue, FlagIsAPromise,
   NoStrandedInterest, WakeUpComing, Threads, PCs, vars
<1>1. ASSUME NEW t \in Threads, NEW i \in Interests, EnqueueLock(t, i) PROVE IInv'
    BY <1>1 DEF EnqueueLock
<1>2. ASSUME NEW t \in Threads, EnqueueSchedule(t) PROVE IInv'
    BY <1>2 DEF EnqueueSchedule
<1>3. ASSUME NEW t \in Threads, EnqueueUnlock(t) PROVE IInv'
    BY <1>3 DEF EnqueueUnlock
<1>4. ASSUME NEW t \in Threads, Reset(t) PROVE IInv'
    BY <1>4 DEF Reset
<1>5. CASE TimerFires
    BY <1>5 DEF TimerFires
<1>6. CASE JobLock
    BY <1>6 DEF JobLock
<1>7. CASE WatchPop
    BY <1>7 DEF WatchPop, Top
<1>8. CASE ProcessEntry
    BY <1>8 DEF ProcessEntry
<1>9. CASE WatchReturn
    BY <1>9 DEF WatchReturn
<1>10. CASE StopQueueWatching
    BY <1>10 DEF StopQueueWatching
<1>11. CASE Quiescent \/ UNCHANGED vars
    BY <1>11 DEF Quiescent
<1>12. QED
    BY <1>1, <1>2, <1>3, <1>4, <1>5, <1>6, <1>7, <1>8, <1>9, <1>10, <1>11 DEF Next

(* The inductive invariant holds in every reachable state.                  *)
LEMMA IInvAlways == Spec => []IInv
BY InitIInv, NextIInv, PTL DEF Spec

(* Type correctness of the queue, its flag, its timer and its two locks.    *)
THEOREM TypeCorrect == Spec => []TypeOK
<1>1. IInv => TypeOK
    BY DEF IInv
<1>2. QED
    BY <1>1, IInvAlways, PTL

(* No Interest is ever stranded in a queue that nobody is going to look at. *)
THEOREM NeverStranded == Spec => []NoStrandedInterest
<1>1. IInv => NoStrandedInterest
    BY DEF IInv
<1>2. QED
    BY <1>1, IInvAlways, PTL

(* A raised isWatchingQueue_ always stands for a run that is coming.        *)
THEOREM FlagKept == Spec => []FlagIsAPromise
<1>1. IInv => FlagIsAPromise
    BY DEF IInv
<1>2. QED
    BY <1>1, IInvAlways, PTL

(* Although queueAccess_ and jobMutex_ are taken in both orders, no thread
   ever holds one while the timer handler holds the other and both wait.    *)
THEOREM LocksAcyclic == Spec => []NoLockCycle
<1>1. IInv => NoLockCycle
    BY DEF IInv, NoLockCycle, DueIsAnnounced, QueueAccessHeld, RunDue
<1>2. QED
    BY <1>1, IInvAlways, PTL
=============================================================================
