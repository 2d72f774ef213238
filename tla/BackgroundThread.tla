--------------------------- MODULE BackgroundThread ---------------------------
(***************************************************************************)
(* The one thread that runs the library (NdnRtcUtils): the application's     *)
(* threads, the clients, hand it blocks through an io_service.               *)
(* dispatchOnBackgroundThread returns at once; performOnBackgroundThread is  *)
(* to return when the block has run, and sleeps on a condition variable that *)
(* has no predicate and that the background thread notifies without holding  *)
(* its mutex.  Blocks make nested calls of both.                             *)
(***************************************************************************)
EXTENDS Integers, Sequences, FiniteSets

CONSTANTS
    Clients,      \* threads of the application
    MaxCalls,     \* bound: calls made by one client
    MaxNested     \* bound: calls made by one block

ASSUME CallsAssumption == MaxCalls \in Nat \ {0} /\ MaxNested \in Nat

VARIABLES
    calls,        \* per client: the number of its current or last call
    pc,           \* per client: where its call of performOnBackgroundThread is
    handlers,     \* the handlers in the io_service, the next one first
    thread,       \* the background thread: the handler it is in, and where
    completed,    \* the calls whose block has run to its end
    stopped       \* io_service::stop has been called

vars == <<calls, pc, handlers, thread, completed, stopped>>

PCs == {"outside", "posted", "asleep", "awake"}
Handlers == [client : Clients, call : 1..MaxCalls, waited : BOOLEAN]
Phases == {"waiting", "block", "notify"}
NoHandler == [phase |-> "waiting", nested |-> 0]

Init ==
    /\ calls = [c \in Clients |-> 0]
    /\ pc = [c \in Clients |-> "outside"]
    /\ handlers = <<>>
    /\ thread = NoHandler
    /\ completed = {}
    /\ stopped = FALSE

Call(c) == [client |-> c, call |-> calls[c]]
CallOf(h) == [client |-> h.client, call |-> h.call]

-----------------------------------------------------------------------------
(* A client's calls.                                                        *)
Post(c, waited) ==
    /\ pc[c] = "outside"
    /\ calls[c] < MaxCalls
    /\ calls' = [calls EXCEPT ![c] = @ + 1]
    /\ handlers' = Append(handlers, [client |-> c, call |-> calls[c] + 1, waited |-> waited])
    /\ UNCHANGED <<thread, completed, stopped>>

Dispatch(c) == Post(c, FALSE) /\ UNCHANGED pc

Perform(c) == Post(c, TRUE) /\ pc' = [pc EXCEPT ![c] = "posted"]

(* isDone.wait(lock): no predicate, it always sleeps.                       *)
Wait(c) ==
    /\ pc[c] = "posted"
    /\ pc' = [pc EXCEPT ![c] = "asleep"]
    /\ UNCHANGED <<calls, handlers, thread, completed, stopped>>

(* A condition variable may wake up by itself.                              *)
WakeSpuriously(c) ==
    /\ pc[c] = "asleep"
    /\ pc' = [pc EXCEPT ![c] = "awake"]
    /\ UNCHANGED <<calls, handlers, thread, completed, stopped>>

Return(c) ==
    /\ pc[c] = "awake"
    /\ pc' = [pc EXCEPT ![c] = "outside"]
    /\ UNCHANGED <<calls, handlers, thread, completed, stopped>>

-----------------------------------------------------------------------------
(* The background thread.                                                   *)

(* Mutant: the handler that was posted last runs first.                     *)
RunLastHandler ==
    /\ ~stopped
    /\ thread.phase = "waiting"
    /\ handlers # <<>>
    /\ thread' = [phase |-> "block", nested |-> 0, handler |-> handlers[Len(handlers)]]
    /\ handlers' = SubSeq(handlers, 1, Len(handlers) - 1)
    /\ UNCHANGED <<calls, pc, completed, stopped>>

(* io_service::run takes the handlers in the order they were posted.        *)
RunHandler ==
    /\ ~stopped
    /\ thread.phase = "waiting"
    /\ handlers # <<>>
    /\ thread' = [phase |-> "block", nested |-> 0, handler |-> Head(handlers)]
    /\ handlers' = Tail(handlers)
    /\ UNCHANGED <<calls, pc, completed, stopped>>

(* Mutant: the thread posts to itself, and waits for itself.                *)
NestedPosts ==
    /\ thread.phase = "block"
    /\ thread.nested < MaxNested
    /\ handlers' = Append(handlers, [thread.handler EXCEPT !.waited = FALSE])
    /\ thread' = [thread EXCEPT !.phase = "asleep"]
    /\ UNCHANGED <<calls, pc, completed, stopped>>

(* A nested perform or dispatch: on the background thread both run the block
   at once, ahead of the handlers that are waiting.                         *)
Nested ==
    /\ thread.phase = "block"
    /\ thread.nested < MaxNested
    /\ thread' = [thread EXCEPT !.nested = @ + 1]
    /\ UNCHANGED <<calls, pc, handlers, completed, stopped>>

(* dispatchBlock, then onCompletion, have run.                              *)
Complete ==
    /\ thread.phase = "block"
    /\ completed' = completed \cup {CallOf(thread.handler)}
    /\ thread' = IF thread.handler.waited THEN [thread EXCEPT !.phase = "notify"] ELSE NoHandler
    /\ UNCHANGED <<calls, pc, handlers, stopped>>

(* The call the notification wakes.  isDone lives in the stack frame of the
   call: the notification of a call that has returned goes to a destroyed
   object, where the client's next call may have put its own.               *)
Woken ==
    LET c == thread.handler.client
    IN  IF pc[c] # "asleep" THEN {pc}
        ELSE IF thread.handler.call = calls[c] THEN {[pc EXCEPT ![c] = "awake"]}
             ELSE {pc, [pc EXCEPT ![c] = "awake"]}

(* Mutant: any sleeping client is woken.                                    *)
NotifyAny ==
    /\ thread.phase = "notify"
    /\ \/ \E c \in Clients : pc[c] = "asleep" /\ pc' = [pc EXCEPT ![c] = "awake"]
       \/ (\A c \in Clients : pc[c] # "asleep") /\ UNCHANGED pc
    /\ thread' = NoHandler
    /\ UNCHANGED <<calls, handlers, completed, stopped>>

(* Mutant: the thread does not let go of the handler.                       *)
NotifyAgain ==
    /\ thread.phase = "notify"
    /\ pc' \in Woken
    /\ thread' = [thread EXCEPT !.phase = "waiting"]
    /\ UNCHANGED <<calls, handlers, completed, stopped>>

(* isDone.notify_one().                                                     *)
Notify ==
    /\ thread.phase = "notify"
    /\ pc' \in Woken
    /\ thread' = NoHandler
    /\ UNCHANGED <<calls, handlers, completed, stopped>>

(* stopBackgroundThread, from the library's destructor: the handler that is
   running ends, those that are waiting never run.                          *)
Stop ==
    /\ ~stopped
    /\ stopped' = TRUE
    /\ UNCHANGED <<calls, pc, handlers, thread, completed>>

Client(c) == Perform(c) \/ Dispatch(c) \/ Wait(c) \/ WakeSpuriously(c) \/ Return(c)
Thread == RunHandler \/ Nested \/ Complete \/ Notify
Next == (\E c \in Clients : Client(c)) \/ Thread \/ Stop

(* The operating system runs every thread that can run; nobody owes a
   spurious wakeup, or a call.                                              *)
Fairness ==
    /\ WF_vars(Thread)
    /\ \A c \in Clients : WF_vars(Wait(c)) /\ WF_vars(Return(c))

Spec == Init /\ [][Next]_vars /\ Fairness

-----------------------------------------------------------------------------
(* Type invariant; between handlers the thread holds on to nothing.         *)
TypeOK ==
    /\ calls \in [Clients -> 0..MaxCalls]
    /\ pc \in [Clients -> PCs]
    /\ handlers \in Seq(Handlers)
    /\ \/ thread = NoHandler
       \/ thread \in [phase : {"block", "notify"}, nested : 0..MaxNested, handler : Handlers]
    /\ completed \subseteq [client : Clients, call : 1..MaxCalls]
    /\ stopped \in BOOLEAN

(* A client's blocks run in the order of its calls, those it waits for and
   those it does not, whatever spurious wakeups let it do in between: stop
   never overtakes start.                                                   *)
BlocksInOrder ==
    \A done \in completed : \A n \in 1..(done.call - 1) :
        [client |-> done.client, call |-> n] \in completed

(* The notification that ends a call is still to come.                      *)
Owed(c) ==
    LET Ends(h) == h.waited /\ CallOf(h) = Call(c)
    IN  \/ \E i \in DOMAIN handlers : Ends(handlers[i])
        \/ thread # NoHandler /\ Ends(thread.handler)

(* A call that went to sleep in time is woken by its notification: nobody
   else's uses it up and it does not pass while the client sleeps.          *)
NotAbandoned ==
    [][\A c \in Clients :
          pc[c] = "asleep" /\ Owed(c) => pc'[c] = "awake" \/ Owed(c)']_vars

(* Every block runs unless the library is torn down: a block's nested calls
   never wait for the thread they are made on.                              *)
EveryBlockRuns ==
    \A c \in Clients : \A n \in 1..MaxCalls :
        calls[c] = n ~> stopped \/ [client |-> c, call |-> n] \in completed

-----------------------------------------------------------------------------
(* What "synchronous version of dispatchOnBackgroundThread" says of
   performOnBackgroundThread: it returns when the block has run.            *)
EveryCallReturns ==
    \A c \in Clients : pc[c] = "posted" ~> stopped \/ pc[c] = "outside"

-----------------------------------------------------------------------------
(* The strengthening that makes BlocksInOrder inductive.                     *)
Queued(c, n) == \E i \in DOMAIN handlers : handlers[i].client = c /\ handlers[i].call = n
Running(c, n) ==
    thread.phase = "block" /\ thread.handler.client = c /\ thread.handler.call = n

(* No call gets lost: what a client has called for has run, runs or waits.    *)
NoneLost ==
    \A c \in Clients, n \in 1..MaxCalls :
        n <= calls[c] => [client |-> c, call |-> n] \in completed \/ Queued(c, n) \/ Running(c, n)

(* What waits has been called for, in this order, and after what runs.        *)
CalledFor ==
    /\ \A i \in DOMAIN handlers : handlers[i].call <= calls[handlers[i].client]
    /\ thread.phase = "block" => thread.handler.call <= calls[thread.handler.client]

Sorted ==
    /\ \A i, j \in DOMAIN handlers :
          i < j /\ handlers[i].client = handlers[j].client => handlers[i].call < handlers[j].call
    /\ thread.phase = "block" =>
          \A i \in DOMAIN handlers :
              handlers[i].client = thread.handler.client => thread.handler.call < handlers[i].call

IInv == TypeOK /\ NoneLost /\ CalledFor /\ Sorted /\ BlocksInOrder
=============================================================================
