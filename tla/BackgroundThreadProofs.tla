----------------------- MODULE BackgroundThreadProofs -----------------------
(***************************************************************************)
(* Proofs about BackgroundThread, for any number of clients, calls and       *)
(* nested calls.                                                             *)
(***************************************************************************)
EXTENDS BackgroundThread, TLAPS

Busy == [phase : {"block", "notify"}, nested : 0..MaxNested, handler : Handlers]

-----------------------------------------------------------------------------
(* A handler that is in the queue has a client and a call.                    *)
LEMMA HandlerTyped ==
    ASSUME TypeOK
    PROVE  /\ \A i \in DOMAIN handlers :
                 /\ handlers[i] \in Handlers
                 /\ handlers[i].client \in Clients /\ handlers[i].call \in 1..MaxCalls
                 /\ handlers[i].waited \in BOOLEAN
           /\ thread.phase # "waiting" =>
                 /\ thread \in Busy /\ thread.handler \in Handlers
                 /\ thread.handler.client \in Clients /\ thread.handler.call \in 1..MaxCalls
                 /\ thread.handler.waited \in BOOLEAN
           /\ thread.phase \in Phases
           /\ thread.phase = "waiting" <=> thread = NoHandler
<1>1. handlers \in Seq(Handlers)
  BY DEF TypeOK
<1>2. \A i \in DOMAIN handlers : handlers[i] \in Handlers
  BY <1>1
<1>3. CASE thread = NoHandler
  BY <1>2, <1>3 DEF NoHandler, Phases, Handlers
<1>4. CASE thread \in Busy
  <2>1. thread.phase \in {"block", "notify"} /\ thread.handler \in Handlers
    BY <1>4 DEF Busy
  <2>2. thread # NoHandler
    BY <2>1 DEF NoHandler
  <2> QED
    BY <1>2, <1>4, <2>1, <2>2 DEF Phases, Handlers
<1> QED
  BY <1>3, <1>4 DEF TypeOK, Busy

(* The queue after a handler has been posted.                                 *)
LEMMA Appending ==
    ASSUME NEW q \in Seq(Handlers), NEW h \in Handlers
    PROVE  /\ Append(q, h) \in Seq(Handlers)
           /\ DOMAIN q = 1..Len(q)
           /\ DOMAIN Append(q, h) = 1..(Len(q) + 1)
           /\ \A i \in DOMAIN q : Append(q, h)[i] = q[i]
           /\ Append(q, h)[Len(q) + 1] = h
           /\ Len(q) \in Nat
  OBVIOUS

(* The queue after a handler has been taken.                                  *)
LEMMA Taking ==
    ASSUME NEW q \in Seq(Handlers), q # <<>>
    PROVE  /\ Head(q) \in Handlers /\ Head(q) = q[1] /\ 1 \in DOMAIN q
           /\ Tail(q) \in Seq(Handlers)
           /\ DOMAIN q = 1..Len(q)
           /\ DOMAIN Tail(q) = 1..(Len(q) - 1)
           /\ \A i \in DOMAIN Tail(q) : i + 1 \in DOMAIN q /\ Tail(q)[i] = q[i + 1]
           /\ \A i \in DOMAIN q : i = 1 \/ (i - 1 \in DOMAIN Tail(q) /\ Tail(q)[i - 1] = q[i])
           /\ Len(q) \in Nat
<1>1. /\ Len(q) \in Nat \ {0} /\ DOMAIN q = 1..Len(q) /\ Head(q) = q[1]
  OBVIOUS
<1>2. 1 \in DOMAIN q /\ Head(q) \in Handlers
  BY <1>1
<1>3. Tail(q) \in Seq(Handlers) /\ Len(Tail(q)) = Len(q) - 1
  OBVIOUS
<1>4. DOMAIN Tail(q) = 1..(Len(q) - 1)
  BY <1>1, <1>3
<1>5. \A i \in 1..(Len(q) - 1) : Tail(q)[i] = q[i + 1]
  BY <1>1
<1>6. \A i \in DOMAIN Tail(q) : i + 1 \in DOMAIN q /\ Tail(q)[i] = q[i + 1]
  BY <1>1, <1>4, <1>5
<1>7. ASSUME NEW i \in DOMAIN q, i # 1
      PROVE  i - 1 \in DOMAIN Tail(q) /\ Tail(q)[i - 1] = q[i]
  <2>1. i - 1 \in 1..(Len(q) - 1) /\ (i - 1) + 1 = i
    BY <1>1, <1>7
  <2> QED
    BY <1>4, <1>5, <2>1
<1>8. \A i \in DOMAIN q : i = 1 \/ (i - 1 \in DOMAIN Tail(q) /\ Tail(q)[i - 1] = q[i])
  BY <1>7
<1>9. DOMAIN q = 1..Len(q) /\ Len(q) \in Nat
  BY <1>1
<1> QED
  BY <1>1, <1>2, <1>3, <1>4, <1>6, <1>8, <1>9

-----------------------------------------------------------------------------
LEMMA InitHolds == Init => IInv
<1> SUFFICES ASSUME Init PROVE IInv
  OBVIOUS
<1>1. TypeOK
  <2>1. /\ calls \in [Clients -> 0..MaxCalls] /\ pc \in [Clients -> PCs]
        /\ completed \subseteq [client : Clients, call : 1..MaxCalls]
    BY CallsAssumption DEF Init, PCs
  <2>2. handlers \in Seq(Handlers)
    BY DEF Init
  <2> QED
    BY <2>1, <2>2 DEF Init, TypeOK
<1>2. NoneLost /\ CalledFor /\ Sorted /\ BlocksInOrder
  BY CallsAssumption DEF Init, NoHandler, NoneLost, CalledFor, Sorted, BlocksInOrder
<1> QED
  BY <1>1, <1>2 DEF IInv

(* Neither the queue nor the thread's handler is touched.                     *)
LEMMA QuietKeeps ==
    ASSUME IInv, TypeOK', UNCHANGED <<calls, handlers, thread, completed>>
    PROVE  IInv'
  BY DEF IInv, NoneLost, CalledFor, Sorted, BlocksInOrder, Queued, Running

LEMMA PostKeeps ==
    ASSUME IInv, NEW c \in Clients, NEW waited \in BOOLEAN, Post(c, waited), pc' \in [Clients -> PCs]
    PROVE  IInv'
<1> DEFINE h == [client |-> c, call |-> calls[c] + 1, waited |-> waited]
<1>1. /\ calls \in [Clients -> 0..MaxCalls] /\ calls[c] < MaxCalls
      /\ calls' = [calls EXCEPT ![c] = @ + 1] /\ handlers' = Append(handlers, h)
      /\ thread' = thread /\ completed' = completed /\ stopped' = stopped
      /\ handlers \in Seq(Handlers) /\ MaxCalls \in Nat
  BY CallsAssumption DEF IInv, TypeOK, Post
<1>2. calls[c] + 1 \in 1..MaxCalls /\ calls[c] \in Nat
  BY <1>1
<1>3. h \in Handlers
  BY <1>2 DEF Handlers
<1>4. h.client = c /\ h.call = calls[c] + 1
  OBVIOUS
<1> HIDE DEF h
<1>5. /\ DOMAIN handlers = 1..Len(handlers) /\ Len(handlers) \in Nat
      /\ DOMAIN handlers' = 1..(Len(handlers) + 1)
      /\ \A i \in DOMAIN handlers : handlers'[i] = handlers[i]
      /\ handlers'[Len(handlers) + 1] = h
      /\ handlers' \in Seq(Handlers)
  BY <1>1, <1>3, Appending
<1>6. \A d \in Clients : /\ calls'[d] = IF d = c THEN calls[c] + 1 ELSE calls[d]
                         /\ calls[d] \in Nat /\ calls'[d] \in 0..MaxCalls
  BY <1>1, <1>2
<1>7. TypeOK'
  <2>1. calls' \in [Clients -> 0..MaxCalls]
    BY <1>1, <1>2
  <2> QED
    BY <1>1, <1>5, <2>1 DEF IInv, TypeOK
<1>8. NoneLost'
  <2> SUFFICES ASSUME NEW d \in Clients, NEW n \in 1..MaxCalls, n <= calls'[d]
               PROVE  \/ [client |-> d, call |-> n] \in completed'
                      \/ Queued(d, n)' \/ Running(d, n)'
    BY DEF NoneLost
  <2>1. CASE n <= calls[d]
    <3>1. [client |-> d, call |-> n] \in completed \/ Queued(d, n) \/ Running(d, n)
      BY <2>1 DEF IInv, NoneLost
    <3>2. Queued(d, n) => Queued(d, n)'
      BY <1>5 DEF Queued
    <3> QED
      BY <1>1, <3>1, <3>2 DEF Running
  <2>2. CASE ~(n <= calls[d])
    <3>1. d = c /\ n = calls[c] + 1
      BY <1>6, <2>2
    <3> QED
      BY <1>4, <1>5, <3>1 DEF Queued
  <2> QED
    BY <2>1, <2>2
<1>9. \A i \in DOMAIN handlers : handlers[i].client = c => handlers[i].call < calls[c] + 1
  <2> SUFFICES ASSUME NEW i \in DOMAIN handlers, handlers[i].client = c
               PROVE  handlers[i].call < calls[c] + 1
    OBVIOUS
  <2>1. handlers[i].call <= calls[c] /\ handlers[i].call \in Nat
    BY HandlerTyped DEF IInv, CalledFor
  <2> QED
    BY <1>2, <2>1
<1>10. thread.phase = "block" /\ thread.handler.client = c
          => thread.handler.call < calls[c] + 1
  <2> SUFFICES ASSUME thread.phase = "block", thread.handler.client = c
               PROVE  thread.handler.call < calls[c] + 1
    OBVIOUS
  <2>1. thread.handler.call <= calls[c] /\ thread.handler.call \in Nat
    BY HandlerTyped DEF IInv, CalledFor
  <2> QED
    BY <1>2, <2>1
<1>11. CalledFor'
  <2>1. \A i \in DOMAIN handlers' : handlers'[i].call <= calls'[handlers'[i].client]
    <3> SUFFICES ASSUME NEW i \in DOMAIN handlers'
                 PROVE  handlers'[i].call <= calls'[handlers'[i].client]
      OBVIOUS
    <3>1. CASE i \in DOMAIN handlers
      <4>1. handlers[i].call <= calls[handlers[i].client]
            /\ handlers[i].client \in Clients /\ handlers[i].call \in Nat
        BY <3>1, HandlerTyped DEF IInv, CalledFor
      <4>2. handlers'[i] = handlers[i]
        BY <1>5, <3>1
      <4>3. calls[handlers[i].client] <= calls'[handlers[i].client]
        BY <1>6, <4>1
      <4> QED
        BY <1>6, <4>1, <4>2, <4>3
    <3>2. CASE i = Len(handlers) + 1
      BY <1>2, <1>4, <1>5, <1>6, <3>2
    <3> QED
      BY <1>5, <3>1, <3>2
  <2>2. ASSUME thread'.phase = "block"
        PROVE  thread'.handler.call <= calls'[thread'.handler.client]
    <3>1. thread.handler.call <= calls[thread.handler.client]
          /\ thread.handler.client \in Clients /\ thread.handler.call \in Nat
      BY <1>1, <2>2, HandlerTyped DEF IInv, CalledFor
    <3>2. calls[thread.handler.client] <= calls'[thread.handler.client]
      BY <1>6, <3>1
    <3> QED
      BY <1>1, <1>6, <3>1, <3>2
  <2> QED
    BY <2>1, <2>2 DEF CalledFor
<1>12. Sorted'
  <2>1. ASSUME NEW i \in DOMAIN handlers', NEW j \in DOMAIN handlers', i < j,
               handlers'[i].client = handlers'[j].client
        PROVE  handlers'[i].call < handlers'[j].call
    <3>1. i \in DOMAIN handlers /\ handlers'[i] = handlers[i]
      BY <1>5, <2>1
    <3>2. CASE j \in DOMAIN handlers
      BY <1>5, <2>1, <3>1, <3>2 DEF IInv, Sorted
    <3>3. CASE j = Len(handlers) + 1
      BY <1>4, <1>5, <1>9, <2>1, <3>1, <3>3
    <3> QED
      BY <1>5, <3>2, <3>3
  <2>2. ASSUME thread'.phase = "block", NEW i \in DOMAIN handlers',
               handlers'[i].client = thread'.handler.client
        PROVE  thread'.handler.call < handlers'[i].call
    <3>1. CASE i \in DOMAIN handlers
      BY <1>1, <1>5, <2>2, <3>1 DEF IInv, Sorted
    <3>2. CASE i = Len(handlers) + 1
      BY <1>1, <1>4, <1>5, <1>10, <2>2, <3>2
    <3> QED
      BY <1>5, <3>1, <3>2
  <2> QED
    BY <2>1, <2>2 DEF Sorted
<1>13. BlocksInOrder'
  BY <1>1 DEF IInv, BlocksInOrder
<1> QED
  BY <1>7, <1>8, <1>11, <1>12, <1>13 DEF IInv

LEMMA RunHandlerKeeps == ASSUME IInv, RunHandler PROVE IInv'
<1>1. /\ thread.phase = "waiting" /\ handlers # <<>> /\ handlers \in Seq(Handlers)
      /\ thread' = [phase |-> "block", nested |-> 0, handler |-> Head(handlers)]
      /\ handlers' = Tail(handlers)
      /\ calls' = calls /\ pc' = pc /\ completed' = completed /\ stopped' = stopped
  BY DEF RunHandler, IInv, TypeOK
<1>2. /\ Head(handlers) \in Handlers /\ Head(handlers) = handlers[1] /\ 1 \in DOMAIN handlers
      /\ handlers' \in Seq(Handlers)
      /\ \A i \in DOMAIN handlers' : i + 1 \in DOMAIN handlers /\ handlers'[i] = handlers[i + 1]
      /\ \A i \in DOMAIN handlers :
            i = 1 \/ (i - 1 \in DOMAIN handlers' /\ handlers'[i - 1] = handlers[i])
      /\ DOMAIN handlers' = 1..(Len(handlers) - 1) /\ Len(handlers) \in Nat
  BY <1>1, Taking
<1>3. thread'.phase = "block" /\ thread'.handler = handlers[1]
  BY <1>1, <1>2
<1>4. TypeOK'
  <2>1. thread' \in Busy
    BY <1>1, <1>2, CallsAssumption DEF Busy
  <2> QED
    BY <1>1, <1>2, <2>1 DEF IInv, TypeOK, Busy
<1>5. NoneLost'
  <2> SUFFICES ASSUME NEW d \in Clients, NEW n \in 1..MaxCalls, n <= calls[d]
               PROVE  \/ [client |-> d, call |-> n] \in completed'
                      \/ Queued(d, n)' \/ Running(d, n)'
    BY <1>1 DEF NoneLost
  <2>1. [client |-> d, call |-> n] \in completed \/ Queued(d, n)
    BY <1>1 DEF IInv, NoneLost, Running
  <2>2. CASE Queued(d, n)
    <3>1. PICK i \in DOMAIN handlers : handlers[i].client = d /\ handlers[i].call = n
      BY <2>2 DEF Queued
    <3> QED
      BY <1>2, <1>3, <3>1 DEF Queued, Running
  <2> QED
    BY <1>1, <2>1, <2>2
<1>6. CalledFor'
  BY <1>1, <1>2, <1>3 DEF IInv, CalledFor
<1>7. Sorted'
  <2>1. ASSUME NEW i \in DOMAIN handlers', NEW j \in DOMAIN handlers', i < j,
               handlers'[i].client = handlers'[j].client
        PROVE  handlers'[i].call < handlers'[j].call
    <3>1. /\ i + 1 \in DOMAIN handlers /\ j + 1 \in DOMAIN handlers /\ i + 1 < j + 1
          /\ handlers'[i] = handlers[i + 1] /\ handlers'[j] = handlers[j + 1]
      BY <1>2, <2>1
    <3> QED
      BY <2>1, <3>1 DEF IInv, Sorted
  <2>2. ASSUME NEW i \in DOMAIN handlers', handlers'[i].client = thread'.handler.client
        PROVE  thread'.handler.call < handlers'[i].call
    <3>1. i + 1 \in DOMAIN handlers /\ 1 < i + 1 /\ handlers'[i] = handlers[i + 1]
      BY <1>2
    <3> QED
      BY <1>2, <1>3, <2>2, <3>1 DEF IInv, Sorted
  <2> QED
    BY <2>1, <2>2 DEF Sorted
<1>8. BlocksInOrder'
  BY <1>1 DEF IInv, BlocksInOrder
<1> QED
  BY <1>4, <1>5, <1>6, <1>7, <1>8 DEF IInv

LEMMA NestedKeeps == ASSUME IInv, Nested PROVE IInv'
<1>1. /\ thread.phase = "block" /\ thread \in Busy /\ thread.nested < MaxNested
      /\ thread' = [thread EXCEPT !.nested = @ + 1]
      /\ UNCHANGED <<calls, pc, handlers, completed, stopped>>
  BY HandlerTyped DEF Nested, IInv
<1>2. thread.nested + 1 \in 0..MaxNested
  BY <1>1, CallsAssumption DEF Busy
<1>3. thread' \in Busy
  BY <1>1, <1>2 DEF Busy
<1>4. thread'.phase = thread.phase /\ thread'.handler = thread.handler
  BY <1>1 DEF Busy
<1>5. TypeOK'
  BY <1>1, <1>3 DEF IInv, TypeOK, Busy
<1> QED
  BY <1>1, <1>4, <1>5 DEF IInv, NoneLost, CalledFor, Sorted, BlocksInOrder, Queued, Running

LEMMA CompleteKeeps == ASSUME IInv, Complete PROVE IInv'
<1> DEFINE h == thread.handler
           done == [client |-> h.client, call |-> h.call]
<1>1. /\ thread.phase = "block" /\ thread \in Busy
      /\ completed' = completed \cup {done}
      /\ thread' = IF h.waited THEN [thread EXCEPT !.phase = "notify"] ELSE NoHandler
      /\ UNCHANGED <<calls, pc, handlers, stopped>>
  BY HandlerTyped DEF Complete, IInv, CallOf
<1>2. h.client \in Clients /\ h.call \in 1..MaxCalls /\ h.call <= calls[h.client]
  BY <1>1, HandlerTyped DEF IInv, CalledFor
<1>3. thread' = NoHandler \/ thread' \in Busy
  BY <1>1 DEF Busy
<1>4. thread'.phase # "block"
  BY <1>1 DEF Busy, NoHandler
<1>5. TypeOK'
  BY <1>1, <1>2, <1>3 DEF IInv, TypeOK, Busy
<1> HIDE DEF h
<1>6. NoneLost'
  <2> SUFFICES ASSUME NEW d \in Clients, NEW n \in 1..MaxCalls, n <= calls[d]
               PROVE  [client |-> d, call |-> n] \in completed' \/ Queued(d, n)'
    BY <1>1 DEF NoneLost
  <2>1. [client |-> d, call |-> n] \in completed \/ Queued(d, n) \/ Running(d, n)
    BY DEF IInv, NoneLost
  <2>2. Running(d, n) => [client |-> d, call |-> n] = done
    BY DEF Running, h
  <2> QED
    BY <1>1, <2>1, <2>2 DEF Queued
<1>7. CalledFor' /\ Sorted'
  BY <1>1, <1>4 DEF IInv, CalledFor, Sorted
<1>8. BlocksInOrder'
  <2> SUFFICES ASSUME NEW d \in completed', NEW n \in 1..(d.call - 1)
               PROVE  [client |-> d.client, call |-> n] \in completed'
    BY DEF BlocksInOrder
  <2>1. CASE d \in completed
    BY <1>1, <2>1 DEF IInv, BlocksInOrder
  <2>2. CASE d = done
    <3>1. d.client = h.client /\ d.call = h.call
      BY <2>2
    <3>2. n \in 1..MaxCalls /\ n < h.call /\ n <= calls[h.client]
      <4>1. calls[h.client] \in Nat
        BY <1>2 DEF IInv, TypeOK
      <4> QED
        BY <1>2, <3>1, <4>1, CallsAssumption
    <3>3. \/ [client |-> h.client, call |-> n] \in completed
          \/ Queued(h.client, n) \/ Running(h.client, n)
      BY <1>2, <3>2 DEF IInv, NoneLost
    <3>4. ~Running(h.client, n)
      BY <1>2, <3>2 DEF Running, h
    <3>5. ~Queued(h.client, n)
      <4> SUFFICES ASSUME NEW i \in DOMAIN handlers, handlers[i].client = h.client,
                          handlers[i].call = n
                   PROVE  FALSE
        BY DEF Queued
      <4>1. h.call < n
        BY <1>1 DEF IInv, Sorted, h
      <4> QED
        BY <1>2, <3>2, <4>1
    <3> QED
      BY <1>1, <3>1, <3>3, <3>4, <3>5
  <2> QED
    BY <1>1, <2>1, <2>2
<1> QED
  BY <1>5, <1>6, <1>7, <1>8 DEF IInv

(* A notification wakes the client of its call, or another call of it.        *)
LEMMA WokenTyped ==
    ASSUME TypeOK, thread.phase = "notify", pc' \in Woken
    PROVE  /\ pc' \in [Clients -> PCs]
           /\ \A c \in Clients : pc'[c] = pc[c] \/ (pc[c] = "asleep" /\ pc'[c] = "awake")
           /\ LET c == thread.handler.client
              IN  pc[c] = "asleep" /\ thread.handler.call = calls[c] => pc'[c] = "awake"
<1>1. thread.handler.client \in Clients /\ pc \in [Clients -> PCs]
  BY HandlerTyped DEF TypeOK
<1> DEFINE c == thread.handler.client
           woken == [pc EXCEPT ![c] = "awake"]
<1>2. pc' = pc \/ (pc[c] = "asleep" /\ pc' = woken)
  <2>1. CASE pc[c] # "asleep"
    BY <2>1 DEF Woken
  <2>2. CASE pc[c] = "asleep"
    <3>1. Woken = {woken} \/ Woken = {pc, woken}
      BY <2>2 DEF Woken
    <3> QED
      BY <2>2, <3>1
  <2> QED
    BY <2>1, <2>2
<1>3. pc[c] = "asleep" /\ thread.handler.call = calls[c] => pc' = woken
  BY DEF Woken
<1>4. /\ woken \in [Clients -> PCs] /\ woken[c] = "awake"
      /\ \A d \in Clients : d # c => woken[d] = pc[d]
  BY <1>1 DEF PCs
<1> HIDE DEF woken
<1>5. pc' \in [Clients -> PCs]
  BY <1>1, <1>2, <1>4
<1>6. \A d \in Clients : pc'[d] = pc[d] \/ (pc[d] = "asleep" /\ pc'[d] = "awake")
  BY <1>1, <1>2, <1>4
<1>7. pc[c] = "asleep" /\ thread.handler.call = calls[c] => pc'[c] = "awake"
  BY <1>3, <1>4
<1> QED
  BY <1>5, <1>6, <1>7, Zenon

LEMMA NotifyKeeps == ASSUME IInv, Notify PROVE IInv'
<1>1. /\ thread.phase = "notify" /\ pc' \in Woken /\ thread' = NoHandler
      /\ calls' = calls /\ handlers' = handlers /\ completed' = completed /\ stopped' = stopped
  BY DEF Notify
<1>2. TypeOK'
  BY <1>1, WokenTyped DEF IInv, TypeOK
<1>3. thread'.phase # "block"
  BY <1>1 DEF NoHandler
<1> QED
  BY <1>1, <1>2, <1>3 DEF IInv, NoneLost, CalledFor, Sorted, BlocksInOrder, Queued, Running

LEMMA NextKeeps == ASSUME IInv, [Next]_vars PROVE IInv'
<1>1. ASSUME NEW c \in Clients, Client(c) PROVE IInv'
  <2>1. CASE Perform(c) \/ Dispatch(c)
    <3>1. pc' \in [Clients -> PCs]
      BY <2>1 DEF Perform, Dispatch, IInv, TypeOK, PCs
    <3>2. Post(c, TRUE) \/ Post(c, FALSE)
      BY <2>1 DEF Perform, Dispatch
    <3> QED
      BY <3>1, <3>2, PostKeeps
  <2>2. CASE Wait(c) \/ WakeSpuriously(c) \/ Return(c)
    <3>1. TypeOK' /\ UNCHANGED <<calls, handlers, thread, completed>>
      BY <2>2 DEF Wait, WakeSpuriously, Return, IInv, TypeOK, PCs
    <3> QED
      BY <3>1, QuietKeeps
  <2> QED
    BY <1>1, <2>1, <2>2 DEF Client
<1>2. CASE Thread
  BY <1>2, RunHandlerKeeps, NestedKeeps, CompleteKeeps, NotifyKeeps DEF Thread
<1>3. CASE Stop \/ UNCHANGED vars
  <2>1. TypeOK' /\ UNCHANGED <<calls, handlers, thread, completed>>
    BY <1>3 DEF Stop, vars, IInv, TypeOK
  <2> QED
    BY <2>1, QuietKeeps
<1> QED
  BY <1>1, <1>2, <1>3 DEF Next

LEMMA IInvAlways == Spec => []IInv
  BY InitHolds, NextKeeps, PTL DEF Spec

-----------------------------------------------------------------------------
(* Type correctness: in particular the thread never holds on to a handler
   while it waits for the next one.                                           *)
THEOREM TypeCorrect == Spec => []TypeOK
<1>1. IInv => TypeOK
  BY DEF IInv
<1> QED
  BY <1>1, IInvAlways, PTL

(* The blocks of a client run in the order of its calls, synchronous and
   asynchronous ones together, whatever spurious wakeups do.                  *)
THEOREM NeverOvertaken == Spec => []BlocksInOrder
<1>1. IInv => BlocksInOrder
  BY DEF IInv
<1> QED
  BY <1>1, IInvAlways, PTL

(* A client that sleeps is woken by the notification of its own call, and
   that is not lost before.                                                   *)
THEOREM WokenByItsOwn == Spec => NotAbandoned
<1> DEFINE Kept == \A c \in Clients :
                      pc[c] = "asleep" /\ Owed(c) => pc'[c] = "awake" \/ Owed(c)'
<1>1. ASSUME TypeOK, [Next]_vars PROVE Kept
  <2> SUFFICES ASSUME NEW c \in Clients, pc[c] = "asleep", Owed(c)
               PROVE  pc'[c] = "awake" \/ Owed(c)'
    OBVIOUS
  <2>0. pc \in [Clients -> PCs] /\ calls \in [Clients -> 0..MaxCalls]
        /\ handlers \in Seq(Handlers)
    BY <1>1 DEF TypeOK
  <2>1. ASSUME NEW d \in Clients, NEW waited \in BOOLEAN, Post(d, waited)
        PROVE  Owed(c)'
    <3>1. d # c /\ calls[d] < MaxCalls /\ calls' = [calls EXCEPT ![d] = @ + 1]
          /\ thread' = thread
          /\ handlers' = Append(handlers, [client |-> d, call |-> calls[d] + 1,
                                           waited |-> waited])
      BY <2>1 DEF Post
    <3>2. calls[d] + 1 \in 1..MaxCalls
      BY <2>0, <3>1, CallsAssumption
    <3>3. [client |-> d, call |-> calls[d] + 1, waited |-> waited] \in Handlers
      BY <3>2 DEF Handlers
    <3>4. \A i \in DOMAIN handlers : i \in DOMAIN handlers' /\ handlers'[i] = handlers[i]
      BY <2>0, <3>1, <3>3, Appending
    <3>5. calls'[c] = calls[c]
      BY <2>0, <3>1
    <3> QED
      BY <3>1, <3>4, <3>5 DEF Owed, Call, CallOf
  <2>2. ASSUME NEW d \in Clients, Client(d) PROVE pc'[c] = "awake" \/ Owed(c)'
    <3>1. CASE Perform(d) \/ Dispatch(d)
      BY <2>1, <3>1 DEF Perform, Dispatch
    <3>2. CASE Wait(d) \/ WakeSpuriously(d) \/ Return(d)
      <4>1. UNCHANGED <<calls, handlers, thread>>
        BY <3>2 DEF Wait, WakeSpuriously, Return
      <4> QED
        BY <4>1 DEF Owed, Call, CallOf
    <3> QED
      BY <2>2, <3>1, <3>2 DEF Client
  <2>3. CASE RunHandler
    <3>1. /\ handlers # <<>> /\ calls' = calls /\ handlers' = Tail(handlers)
          /\ thread.phase = "waiting"
          /\ thread' = [phase |-> "block", nested |-> 0, handler |-> Head(handlers)]
      BY <2>3 DEF RunHandler
    <3>2. /\ Head(handlers) = handlers[1]
          /\ \A i \in DOMAIN handlers :
                i = 1 \/ (i - 1 \in DOMAIN handlers' /\ handlers'[i - 1] = handlers[i])
      BY <2>0, <3>1, Taking
    <3>3. thread = NoHandler
      BY <1>1, <3>1, HandlerTyped
    <3>4. PICK i \in DOMAIN handlers : handlers[i].waited /\ CallOf(handlers[i]) = Call(c)
      BY <3>3 DEF Owed
    <3>5. thread' # NoHandler /\ thread'.handler = handlers[1]
      BY <3>1, <3>2 DEF NoHandler
    <3>6. Call(c)' = Call(c)
      BY <3>1 DEF Call
    <3> QED
      BY <3>2, <3>4, <3>5, <3>6 DEF Owed, CallOf
  <2>4. CASE Nested \/ Complete
    <3>1. /\ calls' = calls /\ handlers' = handlers /\ thread.phase = "block"
          /\ \/ thread' = [thread EXCEPT !.nested = @ + 1]
             \/ thread.handler.waited /\ thread' = [thread EXCEPT !.phase = "notify"]
             \/ ~thread.handler.waited /\ thread' = NoHandler
      BY <2>4 DEF Nested, Complete
    <3>2. thread \in Busy
      BY <1>1, <3>1, HandlerTyped
    <3>3. \/ thread' # NoHandler /\ thread'.handler = thread.handler
          \/ ~thread.handler.waited
      BY <3>1, <3>2 DEF Busy, NoHandler
    <3>4. Call(c)' = Call(c)
      BY <3>1 DEF Call
    <3> QED
      BY <3>1, <3>3, <3>4 DEF Owed, CallOf
  <2>5. CASE Notify
    <3>1. /\ calls' = calls /\ handlers' = handlers /\ thread.phase = "notify"
          /\ pc' \in Woken
      BY <2>5 DEF Notify
    <3>2. CASE thread.handler.waited /\ CallOf(thread.handler) = Call(c)
      <4>1. thread.handler.client = c /\ thread.handler.call = calls[c]
        BY <3>2 DEF CallOf, Call
      <4> QED
        BY <1>1, <3>1, <4>1, WokenTyped
    <3>3. CASE ~(thread.handler.waited /\ CallOf(thread.handler) = Call(c))
      BY <3>1, <3>3 DEF Owed, Call, CallOf
    <3> QED
      BY <3>2, <3>3
  <2>6. CASE Stop \/ UNCHANGED vars
    <3>1. UNCHANGED <<calls, handlers, thread>>
      BY <2>6 DEF Stop, vars
    <3> QED
      BY <3>1 DEF Owed, Call, CallOf
  <2> QED
    BY <1>1, <2>2, <2>3, <2>4, <2>5, <2>6 DEF Next, Thread
<1>2. TypeOK /\ [Next]_vars => [Kept]_vars
  BY <1>1
<1> HIDE DEF Kept
<1>3. Spec => [][Kept]_vars
  BY <1>2, TypeCorrect, PTL DEF Spec
<1> QED
  BY <1>3 DEF NotAbandoned, Kept
=============================================================================
