------------------------ MODULE NdnRtcLibraryProofs ------------------------
(***************************************************************************)
(* Proofs about NdnRtcLibrary, for any number of sessions and streams.       *)
(***************************************************************************)
EXTENDS NdnRtcLibrary, TLAPS

SessionStates == [status : {"none", "notPublishing", "publishing"},
                  streams : SUBSET (Audio \cup Video), restarted : BOOLEAN]
ConsumerStates == [consuming : BOOLEAN, fetching : BOOLEAN, data : {"none", "fresh", "late"}]

(* What is told of one session and of one consumer.                           *)
Tells(x) == x.status = "publishing" <=> (x.streams # {} /\ ~x.restarted)
FetchesIfAdded(c) == c.fetching <=> c # NoConsumer

IInv == TypeOK /\ StatusTellsStreams /\ OnlyConsumersFetch

(* What the actions of a session make of its state.                           *)
LEMMA SessionChanges ==
    ASSUME NEW x \in SessionStates, Tells(x), NEW l \in Audio \cup Video
    PROVE  /\ NoSession \in SessionStates /\ Tells(NoSession)
           /\ LET y == [[x EXCEPT !.status = "notPublishing"] EXCEPT !.restarted = x.streams # {}]
              IN  y \in SessionStates /\ Tells(y)
           /\ LET y == [status |-> "publishing", streams |-> x.streams \cup {l},
                        restarted |-> FALSE]
              IN  y \in SessionStates /\ Tells(y)
           /\ LET y == [x EXCEPT !.streams = @ \ {l}, !.status = StatusWithout(x, l),
                                 !.restarted = @ /\ x.streams # {l}]
              IN  y \in SessionStates /\ Tells(y)
<1>1. x.status \in {"none", "notPublishing", "publishing"} /\ x.streams \subseteq Audio \cup Video
      /\ x.restarted \in BOOLEAN
  BY DEF SessionStates
<1>2. NoSession \in SessionStates /\ Tells(NoSession)
  BY DEF NoSession, SessionStates, Tells
<1>3. LET y == [[x EXCEPT !.status = "notPublishing"] EXCEPT !.restarted = x.streams # {}]
      IN  y \in SessionStates /\ Tells(y)
  BY DEF SessionStates, Tells
<1>4. LET y == [status |-> "publishing", streams |-> x.streams \cup {l}, restarted |-> FALSE]
      IN  y \in SessionStates /\ Tells(y)
  BY <1>1 DEF SessionStates, Tells
<1>5. LET y == [x EXCEPT !.streams = @ \ {l}, !.status = StatusWithout(x, l),
                         !.restarted = @ /\ x.streams # {l}]
      IN  y \in SessionStates /\ Tells(y)
  <2> DEFINE y == [x EXCEPT !.streams = x.streams \ {l}, !.status = StatusWithout(x, l),
                            !.restarted = x.restarted /\ x.streams # {l}]
  <2>1. StatusWithout(x, l) \in {"none", "notPublishing", "publishing"}
    BY <1>1 DEF StatusWithout
  <2>2. y \in SessionStates
    BY <1>1, <2>1 DEF SessionStates
  <2>3. /\ y.streams = x.streams \ {l} /\ y.status = StatusWithout(x, l)
        /\ y.restarted = (x.restarted /\ x.streams # {l})
    BY DEF SessionStates
  <2>4. Tells(y)
    <3>1. CASE x.streams \ {l} = {}
      BY <2>3, <3>1 DEF StatusWithout, Tells
    <3>2. CASE x.streams \ {l} # {}
      <4>1. x.streams # {l} /\ x.streams # {}
        BY <3>2
      <4> HIDE DEF y
      <4> QED
        BY <2>3, <3>2, <4>1 DEF StatusWithout, Tells
    <3> QED
      BY <3>1, <3>2
  <2> QED
    BY <2>2, <2>4
<1> QED
  BY <1>2, <1>3, <1>4, <1>5

(* What the actions of a consumer make of its state, before the destructor
   has come to the consumers.                                                 *)
LEMMA ConsumerChanges ==
    /\ NoConsumer \in ConsumerStates /\ FetchesIfAdded(NoConsumer)
    /\ NewConsumer \in ConsumerStates /\ FetchesIfAdded(NewConsumer)
    /\ \A c \in ConsumerStates :
          /\ Stopped(c) \in ConsumerStates
          /\ Rebuffered(c) \in ConsumerStates /\ FetchesIfAdded(Rebuffered(c))
          /\ \A d \in {"fresh", "late"} :
                /\ [c EXCEPT !.data = d] \in ConsumerStates
                /\ c # NoConsumer /\ FetchesIfAdded(c) => FetchesIfAdded([c EXCEPT !.data = d])
<1>1. /\ NoConsumer \in ConsumerStates /\ FetchesIfAdded(NoConsumer)
      /\ NewConsumer \in ConsumerStates /\ FetchesIfAdded(NewConsumer)
  BY DEF NoConsumer, NewConsumer, ConsumerStates, FetchesIfAdded
<1>2. ASSUME NEW c \in ConsumerStates
      PROVE  /\ Stopped(c) \in ConsumerStates
             /\ Rebuffered(c) \in ConsumerStates /\ FetchesIfAdded(Rebuffered(c))
             /\ \A d \in {"fresh", "late"} :
                   /\ [c EXCEPT !.data = d] \in ConsumerStates
                   /\ c # NoConsumer /\ FetchesIfAdded(c)
                         => FetchesIfAdded([c EXCEPT !.data = d])
  <2>1. Stopped(c) \in ConsumerStates
    BY DEF Stopped, ConsumerStates
  <2>2. Rebuffered(c) \in ConsumerStates /\ Rebuffered(c).fetching = TRUE
    BY DEF Rebuffered, ConsumerStates
  <2>3. FetchesIfAdded(Rebuffered(c))
    BY <2>2 DEF FetchesIfAdded, NoConsumer
  <2>4. ASSUME NEW d \in {"fresh", "late"}
        PROVE  /\ [c EXCEPT !.data = d] \in ConsumerStates
               /\ c # NoConsumer /\ FetchesIfAdded(c) => FetchesIfAdded([c EXCEPT !.data = d])
    <3>1. [c EXCEPT !.data = d] \in ConsumerStates
      BY DEF ConsumerStates
    <3>2. [c EXCEPT !.data = d].data = d /\ [c EXCEPT !.data = d].fetching = c.fetching
      BY DEF ConsumerStates
    <3>3. [c EXCEPT !.data = d] # NoConsumer
      BY <3>2 DEF NoConsumer
    <3> QED
      BY <3>1, <3>2, <3>3 DEF FetchesIfAdded
  <2> QED
    BY <2>1, <2>2, <2>3, <2>4
<1> QED
  BY <1>1, <1>2

-----------------------------------------------------------------------------
LEMMA InitHolds == Init => IInv
<1> SUFFICES ASSUME Init PROVE IInv
  OBVIOUS
<1>1. NoSession \in SessionStates /\ ~(NoSession.status = "publishing") /\ NoSession.streams = {}
  BY DEF NoSession, SessionStates
<1>2. TypeOK
  BY <1>1, ConsumerChanges DEF Init, TypeOK, SessionStates, ConsumerStates
<1>3. StatusTellsStreams
  BY <1>1 DEF Init, StatusTellsStreams
<1>4. OnlyConsumersFetch
  BY ConsumerChanges DEF Init, OnlyConsumersFetch, FetchesIfAdded, Added
<1> QED
  BY <1>2, <1>3, <1>4 DEF IInv

(* A step that changes the state of one session.                              *)
LEMMA SessionKeeps ==
    ASSUME IInv, NEW s \in Sessions, NEW y \in SessionStates, Tells(y),
           session' = [session EXCEPT ![s] = y],
           UNCHANGED <<consumer, timer, check, app>>
    PROVE  IInv'
<1>1. session \in [Sessions -> SessionStates]
  BY DEF IInv, TypeOK, SessionStates
<1>2. session' \in [Sessions -> SessionStates]
  BY <1>1
<1>3. TypeOK'
  BY <1>2 DEF IInv, TypeOK, SessionStates
<1>4. \A r \in Sessions : session'[r] = IF r = s THEN y ELSE session[r]
  BY <1>1
<1>5. StatusTellsStreams'
  BY <1>4 DEF IInv, StatusTellsStreams, Tells
<1>6. OnlyConsumersFetch'
  BY DEF IInv, OnlyConsumersFetch, Added
<1> QED
  BY <1>3, <1>5, <1>6 DEF IInv

(* A step that changes the state of one consumer.                             *)
LEMMA ConsumerKeeps ==
    ASSUME IInv, NEW r \in Remote, NEW c \in ConsumerStates,
           app \in {"alive", "sessions"} => FetchesIfAdded(c),
           consumer' = [consumer EXCEPT ![r] = c],
           UNCHANGED <<session, timer, app>>, check' \subseteq check
    PROVE  IInv'
<1>1. consumer \in [Remote -> ConsumerStates]
  BY DEF IInv, TypeOK, ConsumerStates
<1>2. consumer' \in [Remote -> ConsumerStates]
  BY <1>1
<1>3. TypeOK'
  BY <1>2 DEF IInv, TypeOK, ConsumerStates
<1>4. \A q \in Remote : consumer'[q] = IF q = r THEN c ELSE consumer[q]
  BY <1>1
<1>5. StatusTellsStreams'
  BY DEF IInv, StatusTellsStreams
<1>6. OnlyConsumersFetch'
  BY <1>4 DEF IInv, OnlyConsumersFetch, Added, FetchesIfAdded, NoConsumer
<1> QED
  BY <1>3, <1>5, <1>6 DEF IInv

(* A step that changes neither.                                               *)
LEMMA OthersKeep ==
    ASSUME IInv, TypeOK', session' = session, consumer' = consumer,
           app' \in {"alive", "sessions"} => app \in {"alive", "sessions"}
    PROVE  IInv'
  BY DEF IInv, StatusTellsStreams, OnlyConsumersFetch, Added

LEMMA NextKeeps == ASSUME IInv, [Next]_vars PROVE IInv'
<1>1. /\ \A s \in Sessions : session[s] \in SessionStates /\ Tells(session[s])
      /\ \A r \in Remote : /\ consumer[r] \in ConsumerStates
                           /\ app \in {"alive", "sessions"} => FetchesIfAdded(consumer[r])
      /\ session \in [Sessions -> SessionStates]
      /\ consumer \in [Remote -> ConsumerStates]
  BY DEF IInv, TypeOK, StatusTellsStreams, OnlyConsumersFetch, SessionStates, ConsumerStates,
         Tells, FetchesIfAdded, Added
<1>2. ASSUME NEW s \in Sessions, StartSession(s) \/ StopSession(s) \/ DestroySession(s)
      PROVE  IInv'
  <2> DEFINE started == [[session[s] EXCEPT !.status = "notPublishing"]
                            EXCEPT !.restarted = session[s].streams # {}]
  <2>1. /\ started \in SessionStates /\ Tells(started)
        /\ NoSession \in SessionStates /\ Tells(NoSession)
    BY <1>1 DEF SessionStates, Tells, NoSession
  <2>2. CASE StartSession(s)
    <3>1. session' = [session EXCEPT ![s] = started]
      BY <1>1, <2>2 DEF StartSession
    <3> HIDE DEF started
    <3> QED
      BY <2>1, <2>2, <3>1, SessionKeeps DEF StartSession
  <2>3. CASE StopSession(s) \/ DestroySession(s)
    BY <2>1, <2>3, SessionKeeps DEF StopSession, DestroySession
  <2> QED
    BY <1>2, <2>2, <2>3
<1>3. ASSUME NEW s \in Sessions, NEW l \in Audio \cup Video,
             AddLocalStream(s, l) \/ RemoveLocalStream(s, l)
      PROVE  IInv'
  <2> DEFINE x == session[s]
             more == [status |-> "publishing", streams |-> x.streams \cup {l},
                      restarted |-> FALSE]
             fewer == [x EXCEPT !.streams = @ \ {l}, !.status = StatusWithout(x, l),
                                !.restarted = @ /\ x.streams # {l}]
  <2>1. /\ more \in SessionStates /\ Tells(more)
        /\ fewer \in SessionStates /\ Tells(fewer)
    BY <1>1, SessionChanges
  <2>2. CASE AddLocalStream(s, l)
    <3>1. session' = [session EXCEPT ![s] = more]
      BY <2>2 DEF AddLocalStream
    <3> HIDE DEF more
    <3> QED
      BY <2>1, <2>2, <3>1, SessionKeeps DEF AddLocalStream
  <2>3. CASE RemoveLocalStream(s, l)
    <3>1. session' = [session EXCEPT ![s] = fewer]
      BY <1>1, <2>3 DEF RemoveLocalStream, SessionStates
    <3> HIDE DEF fewer
    <3> QED
      BY <2>1, <2>3, <3>1, SessionKeeps DEF RemoveLocalStream
  <2> QED
    BY <1>3, <2>2, <2>3
<1>4. ASSUME NEW r \in Remote,
             AddRemoteStream(r) \/ RemoveRemoteStream(r) \/ DestroyConsumer(r)
      PROVE  IInv'
  <2>1. check' \subseteq check /\ UNCHANGED <<session, timer, app>>
    BY <1>4 DEF AddRemoteStream, RemoveRemoteStream, DestroyConsumer
  <2>2. \/ consumer' = [consumer EXCEPT ![r] = NewConsumer]
        \/ consumer' = [consumer EXCEPT ![r] = NoConsumer]
        \/ app = "consumers" /\ consumer' = [consumer EXCEPT ![r] = Stopped(consumer[r])]
    BY <1>4 DEF AddRemoteStream, RemoveRemoteStream, Without, DestroyConsumer
  <2> QED
    BY <1>1, <2>1, <2>2, ConsumerChanges, ConsumerKeeps
<1>5. ASSUME NEW r \in Remote, OnData(r) \/ Silence(r) PROVE IInv'
  <2>1. consumer[r] # NoConsumer
    BY <1>5 DEF OnData, Silence, Added, NoConsumer
  <2>2. \E d \in {"fresh", "late"} :
           consumer' = [consumer EXCEPT ![r] = [consumer[r] EXCEPT !.data = d]]
    BY <1>1, <1>5 DEF OnData, Silence
  <2>3. check' \subseteq check /\ UNCHANGED <<session, timer, app>>
    BY <1>5 DEF OnData, Silence
  <2> QED
    BY <1>1, <2>1, <2>2, <2>3, ConsumerChanges, ConsumerKeeps
<1>6. ASSUME NEW r \in Remote, Check(r) PROVE IInv'
  <2>1. check' \subseteq check /\ UNCHANGED <<session, timer, app>>
    BY <1>6 DEF Check
  <2>2. CASE consumer' = [consumer EXCEPT ![r] = Rebuffered(consumer[r])]
    BY <1>1, <2>1, <2>2, ConsumerChanges, ConsumerKeeps
  <2>3. CASE consumer' = consumer
    <3>1. TypeOK'
      BY <2>1, <2>3 DEF IInv, TypeOK
    <3> QED
      BY <2>1, <2>3, <3>1, OthersKeep
  <2> QED
    BY <1>6, <2>2, <2>3 DEF Check
<1>7. CASE TimerExpires \/ CheckBegins \/ CheckEnds
  <2>1. TypeOK'
    BY <1>7 DEF TimerExpires, CheckBegins, CheckEnds, Rearmed, Consumers, IInv, TypeOK
  <2> QED
    BY <1>7, <2>1, OthersKeep DEF TimerExpires, CheckBegins, CheckEnds
<1>8. CASE Destroy \/ CancelTimer \/ StopBackgroundThread
  <2>1. TypeOK'
    BY <1>8 DEF Destroy, CancelTimer, StopBackgroundThread, IInv, TypeOK
  <2> QED
    BY <1>8, <2>1, OthersKeep DEF Destroy, CancelTimer, StopBackgroundThread
<1>9. CASE ClearConsumers
  <2>1. consumer' \in [Remote -> ConsumerStates]
    BY <1>9, ConsumerChanges DEF ClearConsumers
  <2>2. TypeOK'
    BY <1>9, <2>1 DEF ClearConsumers, IInv, TypeOK, ConsumerStates
  <2> QED
    BY <1>9, <2>2 DEF ClearConsumers, IInv, StatusTellsStreams, OnlyConsumersFetch
<1>10. CASE UNCHANGED vars
  <2>1. TypeOK'
    BY <1>10 DEF vars, IInv, TypeOK
  <2> QED
    BY <1>10, <2>1, OthersKeep DEF vars
<1> QED
  BY <1>2, <1>3, <1>4, <1>5, <1>6, <1>7, <1>8, <1>9, <1>10 DEF Next, CheckSteps

LEMMA IInvAlways == Spec => []IInv
  BY InitHolds, NextKeeps, PTL DEF Spec

-----------------------------------------------------------------------------
(* Type correctness: recoveryCheckTimer is never set during a check.          *)
THEOREM TypeCorrect == Spec => []TypeOK
<1>1. IInv => TypeOK
  BY DEF IInv
<1> QED
  BY <1>1, IInvAlways, PTL

(* A session's status is that of its streams, audio and video together.       *)
THEOREM StatusTold == Spec => []StatusTellsStreams
<1>1. IInv => StatusTellsStreams
  BY DEF IInv
<1> QED
  BY <1>1, IInvAlways, PTL

(* recoveryCheck never sets a stopped consumer fetching before the library is
   destroyed.                                                                 *)
THEOREM OnlyAddedFetch == Spec => []OnlyConsumersFetch
<1>1. IInv => OnlyConsumersFetch
  BY DEF IInv
<1> QED
  BY <1>1, IInvAlways, PTL
=============================================================================
