---------------------------- MODULE NdnRtcLibrary ----------------------------
(***************************************************************************)
(* What the library keeps of the application's sessions and remote streams:  *)
(* ActiveSessions, ActiveStreamConsumers and recoveryCheckTimer.             *)
(*                                                                         *)
(* A call of the application is a block of the background thread (see        *)
(* BackgroundThread.tla), and so is recoveryCheck: they do not interleave.   *)
(* The library's destructor runs on the application's thread, and only some *)
(* of its steps are blocks: it does interleave with recoveryCheck.           *)
(***************************************************************************)
EXTENDS Naturals

CONSTANTS
    Sessions,          \* session prefixes
    Audio, Video,      \* names of a session's streams
    Remote             \* prefixes of remote streams

ASSUME StreamsAssumption == Audio \cap Video = {}

VARIABLES
    session,        \* ActiveSessions: NoSession for a prefix it does not have
    consumer,       \* ActiveStreamConsumers: NoConsumer for one it does not have
    timer,          \* recoveryCheckTimer; "failed": setting it has thrown
    check,          \* the consumers recoveryCheck has still to look at
    app             \* how far ~NdnRtcLibrary has come

vars == <<session, consumer, timer, check, app>>

(* restarted: history, the session has been started again since its last
   stream was added.                                                        *)
NoSession == [status |-> "none", streams |-> {}, restarted |-> FALSE]

(* consuming: isConsuming_; fetching: its pipeliner is not inactive;
   data: since the last (re)buffering none has come, or it has, or it has and
   none has come for longer than recoveryCheck puts up with.                 *)
NoConsumer == [consuming |-> FALSE, fetching |-> FALSE, data |-> "none"]
NewConsumer == [consuming |-> TRUE, fetching |-> TRUE, data |-> "none"]
Added(r) == consumer[r] # NoConsumer
Consumers == {r \in Remote : Added(r)}

(* The background thread is free to run a block.                             *)
Idle == timer # "running" /\ app # "done"

-----------------------------------------------------------------------------
Init ==
    /\ session = [s \in Sessions |-> NoSession]
    /\ consumer = [r \in Remote |-> NoConsumer]
    /\ timer = "armed"
    /\ check = {}
    /\ app = "alive"

(* Calls of the application.                                                *)
Called == Idle /\ app = "alive"

(* startSession; Session::start.  A session that there is keeps its streams. *)
StartSession(s) ==
    /\ Called
    /\ session' = [session EXCEPT ![s].status = "notPublishing",
                                  ![s].restarted = session[s].streams # {}]
    /\ UNCHANGED <<consumer, timer, check, app>>

(* stopSession                                                               *)
StopSession(s) ==
    /\ Called
    /\ session[s].status # "none"
    /\ session' = [session EXCEPT ![s] = NoSession]
    /\ UNCHANGED <<consumer, timer, check, app>>

(* addLocalStream; Session::addLocalStream, when the stream can be set up.   *)
AddLocalStream(s, l) ==
    /\ Called
    /\ session[s].status # "none"
    /\ session' = [session EXCEPT ![s] = [status |-> "publishing",
                                          streams |-> @.streams \cup {l},
                                          restarted |-> FALSE]]
    /\ UNCHANGED <<consumer, timer, check, app>>

(* Mutant: only the map that had the stream is looked at.                    *)
StatusWithoutOfKind(x, l) ==
    IF (x.streams \ {l}) \cap (IF l \in Audio THEN Audio ELSE Video) = {}
    THEN "notPublishing" ELSE x.status

(* Session::removeLocalStream: the status when stream l has been erased.      *)
StatusWithout(x, l) == IF x.streams \ {l} = {} THEN "notPublishing" ELSE x.status

(* removeLocalStream; Session::removeLocalStream.                            *)
RemoveLocalStream(s, l) ==
    /\ Called
    /\ l \in session[s].streams
    /\ session' = [session EXCEPT ![s].streams = @ \ {l},
                                  ![s].status = StatusWithout(session[s], l),
                                  ![s].restarted = @ /\ session[s].streams # {l}]
    /\ UNCHANGED <<consumer, timer, check, app>>

(* addRemoteStream; Consumer::start.  A stream that is running is refused.    *)
AddRemoteStream(r) ==
    /\ Called
    /\ ~consumer[r].consuming
    /\ consumer' = [consumer EXCEPT ![r] = NewConsumer]
    /\ UNCHANGED <<session, timer, check, app>>

(* Consumer::stop: the time of the last data is kept.                        *)
Stopped(c) == [c EXCEPT !.consuming = FALSE, !.fetching = FALSE]

(* Mutant: the consumer is stopped and stays in the map.                     *)
WithoutStopped(r) == [consumer EXCEPT ![r] = Stopped(@)]

(* removeRemoteStream: ActiveStreamConsumers without a consumer, which has
   been stopped.                                                            *)
Without(r) == [consumer EXCEPT ![r] = NoConsumer]

RemoveRemoteStream(r) ==
    /\ Called
    /\ Added(r)
    /\ consumer' = Without(r)
    /\ UNCHANGED <<session, timer, check, app>>

-----------------------------------------------------------------------------
(* Data for a consumer, that of Interests it has sent before it was stopped
   too; and none for too long.                                              *)
OnData(r) ==
    /\ Idle
    /\ Added(r)
    /\ consumer' = [consumer EXCEPT ![r].data = "fresh"]
    /\ UNCHANGED <<session, timer, check, app>>

Silence(r) ==
    /\ consumer[r].data = "fresh"
    /\ consumer' = [consumer EXCEPT ![r].data = "late"]
    /\ UNCHANGED <<session, timer, check, app>>

(* recoveryCheckTimer expires: a cancel comes too late now.                   *)
TimerExpires ==
    /\ timer = "armed"
    /\ timer' = "expired"
    /\ UNCHANGED <<session, consumer, check, app>>

(* Mutant: the timer is set before the consumers are looked at.              *)
CheckBeginsArmed ==
    /\ Idle
    /\ timer = "expired"
    /\ timer' = "armed"
    /\ check' = Consumers
    /\ UNCHANGED <<session, consumer, app>>

(* recoveryCheck, up to its loop.                                            *)
CheckBegins ==
    /\ Idle
    /\ timer = "expired"
    /\ timer' = "running"
    /\ check' = Consumers
    /\ UNCHANGED <<session, consumer, app>>

(* Consumer::triggerRebuffering: whether the consumer consumes makes no
   difference.                                                              *)
Rebuffered(c) == [c EXCEPT !.fetching = TRUE, !.data = "none"]

(* recoveryCheck looks at a consumer.  Those that the destructor has cleared
   in the meantime it does not find, if it survives that.                    *)
Check(r) ==
    /\ r \in check
    /\ check' = check \ {r}
    /\ consumer' = IF consumer[r].data = "late"
                   THEN [consumer EXCEPT ![r] = Rebuffered(@)] ELSE consumer
    /\ UNCHANGED <<session, timer, app>>

(* Mutant: with no consumers the timer is not set.                           *)
RearmedForConsumers == IF Consumers = {} THEN "off" ELSE "armed"

(* How recoveryCheck leaves the timer, cancelled or not, when it can be set.  *)
Rearmed == "armed"

(* A system_error from setting the timer is logged and that is all: nothing
   else ever sets it.                                                       *)
CheckEnds ==
    /\ timer = "running"
    /\ check = {}
    /\ timer' \in {Rearmed, "failed"}
    /\ UNCHANGED <<session, consumer, check, app>>

-----------------------------------------------------------------------------
(* ~NdnRtcLibrary.  It stops the sessions, each in a block, and clears them.  *)
Destroy ==
    /\ app = "alive"
    /\ app' = "sessions"
    /\ UNCHANGED <<session, consumer, timer, check>>

DestroySession(s) ==
    /\ app = "sessions"
    /\ Idle
    /\ session[s].status # "none"
    /\ session' = [session EXCEPT ![s] = NoSession]
    /\ UNCHANGED <<consumer, timer, check, app>>

(* recoveryCheckTimer.cancel(): without effect on a check that is under way
   or about to be, and that sets the timer again.                            *)
CancelTimer ==
    /\ app = "sessions"
    /\ \A s \in Sessions : session[s] = NoSession
    /\ timer' = IF timer = "armed" THEN "off" ELSE timer
    /\ app' = "consumers"
    /\ UNCHANGED <<session, consumer, check>>

(* It stops the consumers, each in a block, and clears them at once.          *)
DestroyConsumer(r) ==
    /\ app = "consumers"
    /\ Idle
    /\ consumer[r].consuming
    /\ consumer' = [consumer EXCEPT ![r] = Stopped(@)]
    /\ UNCHANGED <<session, timer, check, app>>

ClearConsumers ==
    /\ app = "consumers"
    /\ \A r \in Remote : ~consumer[r].consuming
    /\ consumer' = [r \in Remote |-> NoConsumer]
    /\ check' = {}
    /\ app' = "cleared"
    /\ UNCHANGED <<session, timer>>

(* stopBackgroundThread: it waits for the block that runs, but not for ever. *)
StopBackgroundThread ==
    /\ app = "cleared"
    /\ app' = "done"
    /\ UNCHANGED <<session, consumer, timer, check>>

-----------------------------------------------------------------------------
CheckSteps == CheckBegins \/ CheckEnds \/ \E r \in Remote : Check(r)

Next ==
    \/ \E s \in Sessions :
          \/ StartSession(s)
          \/ StopSession(s)
          \/ \E l \in Audio \cup Video : AddLocalStream(s, l) \/ RemoveLocalStream(s, l)
    \/ \E r \in Remote : AddRemoteStream(r) \/ RemoveRemoteStream(r) \/ OnData(r) \/ Silence(r)
    \/ TimerExpires
    \/ CheckSteps
    \/ Destroy
    \/ \E s \in Sessions : DestroySession(s)
    \/ CancelTimer
    \/ \E r \in Remote : DestroyConsumer(r)
    \/ ClearConsumers
    \/ StopBackgroundThread

(* The timer expires, and the background thread runs what it has begun.        *)
Spec ==
    /\ Init /\ [][Next]_vars
    /\ WF_vars(TimerExpires) /\ WF_vars(CheckSteps)

-----------------------------------------------------------------------------
(* Type invariant.  The timer is not set while recoveryCheck looks at the
   consumers, so that it never runs into itself.                             *)
TypeOK ==
    /\ session \in [Sessions -> [status : {"none", "notPublishing", "publishing"},
                                 streams : SUBSET (Audio \cup Video), restarted : BOOLEAN]]
    /\ consumer \in [Remote -> [consuming : BOOLEAN, fetching : BOOLEAN,
                                data : {"none", "fresh", "late"}]]
    /\ timer \in {"off", "armed", "expired", "running", "failed"}
    /\ check \subseteq Remote
    /\ check # {} => timer = "running"
    /\ app \in {"alive", "sessions", "consumers", "cleared", "done"}

(* The status that the observer of a session has been told is that of its
   streams, audio and video together, unless the session has been started
   again since it had its last stream.                                       *)
StatusTellsStreams ==
    \A s \in Sessions :
        session[s].status = "publishing" <=>
            session[s].streams # {} /\ ~session[s].restarted

(* As long as the library is not destroyed, recoveryCheck finds consumers
   that consume, so that it never sets one fetching that has been stopped.   *)
OnlyConsumersFetch ==
    app \in {"alive", "sessions"} =>
        \A r \in Remote : consumer[r].fetching <=> Added(r)

(* Remote streams that have gone silent are rebuffered, however often streams
   have been removed and added and the timer has had nothing to look at,
   unless there is data, or the stream or the library goes, or setting the
   timer has thrown: after that none is rebuffered any more.                  *)
SilenceEnds ==
    \A r \in Remote :
        consumer[r].data = "late" ~>
            consumer[r].data # "late" \/ app # "alive" \/ timer = "failed"
=============================================================================
