# A TLA+ model of ndnrtc

This directory specifies the streaming core of ndnrtc (`src/ndnrtc/cpp`), a
WebRTC-style audio/video library over Named Data Networking: how a producer
numbers, publishes and caches the frames of a video thread, and how a consumer
asks for them, buffers them and plays them. Each module is translated from the
C++ source; `PROJECT.json` names, for every definition, the lines it models.

Below, `B` stands for `src/ndnrtc/cpp/src`.

## 1. The system

### Threads

* The *background thread* (`B/ndnrtc-utils.cpp`) runs one `io_service`. The
  face, every Interest and Data callback, every timer, every handler of a
  `Consumer`, its `Pipeliner2`, `FrameBuffer` and `Playout` run on it.
* The *application's threads* call the library; calls are handed to the
  background thread as blocks.
* The *encoder's thread* of each video thread publishes frames, holding the
  mutex that `FaceWrapper::processEvents` takes too.

So a consumer's handlers are atomic with respect to each other, and so are a
producer's publications and the Interests it takes in. `InterestQueue` and
`NdnRtcUtils` are the parts where threads really interleave, and they are
modelled lock by lock; `NdnRtcLibrary`'s destructor runs on the application's
thread and interleaves with the recovery timer's handler.

### Components

| Component | State | Operations | What is hard |
|---|---|---|---|
| `NdnRtcUtils` background thread | queue of handlers, the running one, condition variables of sleeping callers | dispatch, perform, start, stop | notification without mutex or predicate, nested calls, teardown |
| `InterestQueue`, `NdnRtcComponent` job timer | priority queue, `isWatchingQueue_`, timer, two mutexes | enqueue, reset, watch job, destruction | unlocked read of the flag, lock order, re-arming, exceptions |
| `Pipeliner2`, `PipelinerWindow` | state machine, frame counters, window, flags of the adjusting phase, the rightmost Interest | onData, onTimeout, rebuffer, threadSwitched | answers of earlier runs, Excludes, counters read before they are set, window arithmetic |
| `Consumer` | current thread, the objects above | start, stop, triggerRebuffering, switchThread, recoveryCheck | order of resets, idle time that is 0 |
| `FrameBuffer` | pool of slots, map, playback queue, key bookkeeping, last playback number | interestRangeIssued, newData, acquireSlot, releaseAcquiredSlot, cleanBuffer, reset | a vector sorted by hand, reservations nested in other operations, numbers that are not known yet |
| `FrameBuffer::Slot` | segments, four counters, state, FEC list | addInterest, appendData, recover, reset | wrong estimates of the number of segments, parity before data, duplicates |
| `Playout` | running flag, `playoutMutex_`, last timestamp, inferred delay, adjustment | start, stop, processPlayout, checkBuffer | Invalid buffer, durations that are only known later |
| `VideoPlayout` | `validGop_`, `currentKeyNo_` | start, playbackPacket | incomplete frames, empty slots, a start that comes after the first frame |
| `JitterTiming` | wait, processing time not yet made good for, time stamp | flush, startFramePlayout, updatePlayoutTime, run | rounding to milliseconds, processing that takes longer than the wait |
| `NdnRtcLibrary` | sessions, consumers, recovery timer | startSession, stopSession, add and remove local and remote streams, recoveryCheck, destructor | one timer for all streams, teardown on another thread |
| `Session` | status, maps of audio and of video streams | start, stop, addLocalStream, removeLocalStream | a status kept by hand beside two maps |
| `VideoThread`, `MediaThread` | key, delta and packet counters, PIT | onEncodedFrameDelivered, publishPacket, publishParityData, onInterest | failure between segments, Interests before, during and after publication, entries that outlive their Interest |
| `ndn::MemoryContentCache` | cached Data with freshness | add, lookup, cleanup | expiry |

Interaction: `Pipeliner2` asks `FrameBuffer` for slots (`interestRangeIssued`)
and puts Interests into `InterestQueue`, which expresses them on the face; Data
comes back to `Pipeliner2::onData`, which stores it (`newData`) and asks for
more as far as the window allows; `FrameBuffer` calls back (`onKeyNeeded`,
`onRetransmissionNeeded`); `Playout` acquires and releases the head of the
queue; `recoveryCheck` of `NdnRtcLibrary` triggers a rebuffering when nothing
has come for a while. On the other side the face hands Interests to the
`MemoryContentCache`, which answers them or hands them to `VideoThread`.

What makes each of them correct is stated by the properties of section 3.
`PROJECT.json` lists every component, those that are not modelled too, and the
hazards the properties are aimed at.

## 2. Modules

```
InterestQueue --- MCInterestQueue, InterestQueueProofs
BackgroundThread --- BackgroundThreadProofs
NdnRtcLibrary --- NdnRtcLibraryProofs
VideoThread --- VideoThreadProofs
PlayoutTiming --- PlayoutTimingProofs
FrameSlot --- FrameSlotProofs
   |................... (INSTANCE PlaybackBuffer: the slot states it promises)

VideoPackets                        numbers of key and delta frames
   |-- PlaybackBuffer               the buffer as its users see it
   |      |-- PlaybackBufferSpec    ... and as a specification
   |      `-- Pipeliner2 --- MCPipeliner2, Pipeliner2Proofs
   `-- FrameBuffer                  implements PlaybackBufferSpec
          `-- VideoPlayout --- MCVideoPlayout, VideoPlayoutProofs
```

**InterestQueue.** One action per critical section of `enqueueInterest`,
`reset`, `watchQueue` and the timer handler of `scheduleJob`; `queueAccess` and
`jobMutex` are the owners of the two locks, `pc` says where each thread is. The
read of `isWatchingQueue_` after the lock has been released is an action of its
own (`WatchReturn`).

**BackgroundThread.** The handlers posted to the `io_service`, the handler that
runs, and where each client is in `performOnBackgroundThread`: it has posted
its block, sleeps on the condition variable or has been woken, by its own
notification or spuriously. Completion of the block and the notification are
two steps.

**PlaybackBuffer** gives, as operators on a record, what the pipeliner and the
playout see of `FrameBuffer`: the state of each frame's slot, the newest key
asked for, the next one. **PlaybackBufferSpec** is the abstract specification
made of these operators. **FrameBuffer** is the detailed one, with the pool,
the map, the queue and its sorting, `playbackNo_` and the periodic clean-up, and
implements it under a refinement mapping (`ImplementsBuffer`). Its sort, the removal of
old slots from the queue and `freeSlot` of one slot after the other are written in closed
form: a sequence arranged by which positions come before which (`Arranged`), a part of
it (`PartOf`), and what freeing a sequence of slots makes of map, pool and counter
(`FreeSlotsOf`). So they can be reasoned about without induction. **FrameSlot** is
one slot in detail: segments and counters; that it only moves the way
`PlaybackBuffer!Appended` says is `AppendsAsPromised`.

**VideoPlayout** puts the playout on top of FrameBuffer: its actions are
FrameBuffer's, with what `Playout::processPlayout` and
`VideoPlayout::playbackPacket` do to `validGop_` and `currentKeyNo_` in them, the
first frame that `Playout::start` plays before `VideoPlayout::start` resets the two
included. `HasData` is whether `acquireSlot` gives data, and both values of `skipIncomplete_` are
modelled. `shown` is a history: the key frames handed to the decoder, those of
them after which something incomplete has been met, and the last frame. All of
FrameBuffer's properties are checked in this composition.

**PlayoutTiming** is the playout's clock: `Playout`'s adjustment, inferred delay and
last timestamp, and `JitterTiming`'s wait and unabsorbed processing time. One
iteration of `processPlayout` is one operator, made of the functions the code calls;
what it finds in the buffer is left open but for what `releaseAcquiredSlot` has said
of the next frame. `history` holds what the playout has asked to be waited in all, the
origin of that schedule, and whether the code has forgotten an inferred delay.

**NdnRtcLibrary** is the registry of sessions (with `Session`'s status), of remote
streams, and the recovery timer. Calls of the application are blocks of the background
thread and do not interleave with `recoveryCheck`; setting the timer again may throw, which
leaves it `failed`; the destructor's steps are actions
of their own, and those that are not blocks may come between the steps of a check.

**Pipeliner2** is the consumer on top of `PlaybackBuffer`: state machine,
window, counters, the rightmost Interests that are outstanding (with the run
they are of and what they exclude), rebuffering, thread switching, playout.
The decisions of `askForSubsequentData`, which depend on clocks and estimators,
are sets of outcomes: each branch of the C++ `switch` is one operator. `refused` is a
history: the newest key of this run that found no free slot.

**VideoThread** is the producer: the three counters, the PIT of the thread, the
cache, the Interests the network has outstanding.

Definitions keep the names of the source. A definition whose comment begins with
"Mutant:" is a changed form of the one after it and is not part of the model: put in
the place of the original, it makes the property that `PROJECT.json` names with it
fail.

## 3. What the runs check

Passing runs:

| Run (cfg) | Properties | Distinct states |
|---|---|---|
| MCInterestQueue | `TypeOK`, `NoStrandedInterest`, `FlagIsAPromise`, `NoLockCycle`, `EveryInterestLeaves` | 1 663 |
| MCPipeliner2 | `TypeOK`, `WindowBalance`, `AboveFailedWindow`, `RunningOnlyValid`, `KeysKeepUp` | 562 424 |
| MCPipeliner2Switching | `NeverWedged`, `InitialDataComes` | 20 452 |
| MCFrameSlot | `TypeOK`, `PendingCovers`, `NothingForgotten`, `ReadyIsComplete`, `AppendsAsPromised` | 1 387 |
| MCVideoPlayout | `PlayoutTypeOK`, `SlotsAccounted`, `QueueInOrder`, `CleanKeepsNewer`, `ImplementsBuffer`, `BrokenGopStaysBroken`, `DeltasAscend` | 136 139 |
| MCPlayoutTiming | `TypeOK`, `ClockAccounted`, `TracksProducer` | 1 253 868 |
| MCNdnRtcLibrary | `TypeOK`, `StatusTellsStreams`, `OnlyConsumersFetch`, `SilenceEnds` | 50 242 |
| MCBackgroundThread | `TypeOK`, `BlocksInOrder`, `NotAbandoned`, `EveryBlockRuns` | 14 938 |
| MCVideoThread | `NobodyOverlooked`, `NumbersAgree` | 385 296 |
| MCVideoThreadParity | `TypeOK`, `PitForgets`, `OnlyDeltaDataOverlooked` | 155 163 |

In words:

* *InterestQueue*: no Interest is left behind by the race between `enqueueInterest`
  and the unlocked read at the end of `watchQueue`; a true flag always means that
  a run is coming; the two lock orders never meet; every Interest leaves.
* *Pipeliner2*: window plus outstanding frames make the default window; the window
  never returns to one that failed; playout runs on a Valid buffer only, so
  `processPlayout` always gives its mutex back; no delta frame that has data is newer
  than every key that has been given a slot, unless the key whose turn came found none
  free (which is not to say that its own key has had one); a consumer never gets stuck out of the reach of
  `recoveryCheck`, and with a network that answers it gets its initial data.
* *FrameSlot*: `nSegmentsPending_`, by which `appendData` drops data, falls below what is
  waited for by no more than the segments that have come without having been asked for
  (by an Interest of an earlier run), and not at all when there are none; the same
  segments are what `nSegmentsMissing_` is too high by; a frame that has begun to
  assemble has all its data received or asked for, whatever it was estimated to be;
  Ready means complete.
* *FrameBuffer*: no slot is lost or used twice; frames that assemble are played in
  order; the clean-up keeps what is newer, pending
  keys excepted; and all of it is `PlaybackBufferSpec`.
* *VideoPlayout*, with `skipIncomplete_`: once something incomplete has been met, no delta frame of the keys
  decoded before is handed to the decoder; the delta frames of a key that was decoded
  are decoded in order although the buffer may forget what it has played.
* *PlayoutTiming*: what the consumer's clock is behind the schedule is exactly what
  JitterTiming remembers, and a playout that is late does not wait; the schedule is the
  producer's clock, through inferred durations, adjustments that do not fit into one
  wait, and buffers that are found too long; where the producer's clock is seen to go
  back, the schedule stands still.
* *NdnRtcLibrary*: a session's status tells whether it has streams, of either kind;
  `recoveryCheck` sets fetching only what has not been removed; a remote stream that
  has gone silent is rebuffered, unless setting the one timer has thrown.
* *BackgroundThread*: blocks run in the order of the calls, every block runs, and
  the notification a sleeping caller waits for is not lost.
* *VideoThread*: an Interest is never outstanding for what lies in the cache; the
  numbers of frames stay consistent through failing publications; the PIT keeps
  no data entry of a published delta frame. Where publishing throws between two
  segments, only data of delta frames can lie in the cache while somebody waits for it.

Runs that show the code to disagree with what it says of itself (each is a finding
in `PROJECT.json`, with the quotation):

| Run (cfg) | Property violated | What happens |
|---|---|---|
| MCBackgroundThreadReturns | `EveryCallReturns` | the notification comes before the wait |
| MCVideoThreadRightmost | `RightmostAnswered` | any frame's PIT clean-up purges the rightmost request |

Modelling turned up more disagreements than these two. They are in the models as
the code has them, and the properties above are stated around them:

* `recover()` completes a frame's data and leaves its slot Assembling, although
  StateReady is "slot assembled all the data" (`frame-buffer.h:239`).
* The queue is not sorted when a slot gets its playback number from a parity
  segment and stays StateNew, although it is "sorted in ascending playback order"
  (`frame-buffer.h:927`); hence the exception for "met" slots in `QueueInOrder`.
* Playing an empty slot sets `playbackNo_` to -1, after which a frame older than
  one that was played is not skipped (`frame-buffer.cpp:1592`: "if we got old slot
  - skip it"). `DeltasAscend` says what holds of the decoded frames all the same.
* Data of an Interest of an earlier run may be for a segment that this run has not asked
  for: `appendData` counts it missing, then received, and takes it off
  `nSegmentsPending_`, which had never counted it. When the counter so comes to 0, data
  that is waited for is dropped (`frame-buffer.cpp:247`): with one segment prefetched and
  a late second one that comes first, the first one is. `PendingCovers` and
  `ReadyIsComplete` say how far the counters can be off.
* `requestNextKey` counts a key that finds no free slot and nobody asks for it again;
  `onKeyNeeded` skips to the key of the delta frame that came first, and the keys in
  between are never asked for (`pipeliner.cpp:367`); a seed key that comes again sets the
  delta counter to frames of a key without a slot (`pipeliner.cpp:607`). `KeysKeepUp`
  therefore speaks of the newest key that has been given a slot.
* An answer that names no frame makes `askForInitialData` ask once more without an Exclude,
  and with what has been read from the end of the name as `seedFrameNo_`.
* When setting the recovery timer throws, `recoveryCheck` logs it and leaves the timer unset:
  nobody is recovered from then on (`SilenceEnds` makes that exception).
* A negative delay is set to 0 after the adjustment has been worked out from it
  (`playout.cpp:191-199`): the schedule stays behind the producer's clock by as much.
* Of two frames nothing has come of, the delta frame goes first; "key frame will
  always precede" (`frame-buffer.h:270`).
* A spurious wake-up makes `performOnBackgroundThread` return before its block has
  run (`WakeSpuriously`).
* `onTimeout` tells the rightmost Interest of this run from one of a previous run by
  its name, which is the same; it repeats both. The model keeps them apart (`stale`).
* `cleanBuffer` is handed the newest key requested and drops pending keys that are newer
  than the frame played, against "cleanup buffer from old frames"
  (`frame-buffer.cpp:1743`): `CleanKeepsNewer` makes that exception.
* `Playout::start` plays the first frame inline and `VideoPlayout::start` resets
  `validGop_` and `currentKeyNo_` after it: the delta frames of a key frame decoded
  first are skipped without cause.
* A complete key frame that is skipped for being old sets `validGop_` and `currentKeyNo_`
  all the same; its delta frames are decoded without it, and may be older than what
  was decoded before. `DeltasAscend` therefore speaks of delta frames whose key was
  decoded: the attempt to prove it without that condition is what showed the case. The two are not initialised, and with an empty queue
  `playbackPacket` decides by frame numbers that nobody has set; the model allows any.
* An old frame that is skipped makes `Playout` forget that it has inferred a delay, and a
  delay inferred before the first frame with a timestamp is counted into the first
  correction: `TracksProducer` ends there (`history.lost`).
* A publishing session that is started again says `OnlineNotPublishing`
  (`restarted` in `StatusTellsStreams`).
* The library's destructor cancels the recovery timer while a check may be running, which
  sets it again and may rebuffer a consumer that has been stopped and is about to be
  cleared; it clears the map the check iterates over. `OnlyConsumersFetch` therefore
  speaks of the time before.
* `NdnRtcLibrary::switchThread` returns `RESULT_OK` whatever happens; observers are called
  under a non-recursive mutex and must not call back into the same consumer.
* An Interest that has expired stays in the PIT of `MediaThread`; its data is sent to
  nobody and not cached.

### Bounds

* *InterestQueue*: two callers (so a caller can come while another holds either
  lock), three Interests, two of the same deadline.
* *Pipeliner2*: one delta frame per key, keys 0..1 and the one after, deltas 0..2,
  windows up to 4 from a default of 2, 3 slots: the window can grow, shrink (by
  less than is outstanding, too) and jump over a key, the pool of slots can run
  out, and a delta frame can arrive whose key has not been asked for. `MaxCopies`
  bounds equal outstanding requests. `keyFrameSeqNo_` starts from any value of
  `AnyKeyNo`: negative, or ahead of the producer. The switching run has two
  threads and the smallest stream, since its properties are about requests and
  not about frames. Longer groups of pictures are covered by the proofs.
* *FrameSlot*: up to 3 data and 2 parity segments against every estimate, and data of
  segments that have been asked for or not, in any order.
* *VideoPlayout* (and FrameBuffer): 4 slots (symmetric), keys 0..2 and deltas 0..3 of two
  per key, `skipIncomplete_` set (as its properties need it to be; the proofs are for both
  values), a clean-up every 2 releases instead of 60: pool exhaustion, reservations nested
  in newData and release, two clean-ups in one run, key frames that complete after a
  broken one and empty slots in the middle of a group all happen.
* *PlayoutTiming*: three frames with timestamps of 1, 2 and 5 ms in any order (so gaps are
  smaller than, equal to and greater than the inferred 2 ms, 0, and below 0), processing that takes
  nothing or 1.7 ms longer than the wait, a buffer that is up to 3 ms too long, which
  does not fit into one wait, a check of it every 2 ms instead of 2 s, and a clock of
  6 ms. `MaxClock` bounds the iterations, not what one of them may do.
* *NdnRtcLibrary*: two sessions, one audio and two video streams (so a removal may leave
  a stream of the same kind, of the other, or none), two remote streams.
* *BackgroundThread*: two clients of two calls, one nested call per block.
* *VideoThread*: two key frames and a delta frame of up to two segments, where
  publishing may fail before the first segment; and a key and a delta frame with
  a parity segment each, where it may fail between any two segments.
  `NobodyOverlooked` is checked in the first only: when the PIT entry of a delta
  segment has been erased and sending it fails, its number is used again and the
  new segment is cached while the Interest is still outstanding.

`CHECK_DEADLOCK FALSE` is set where the system may stop: a `Pipeliner2` that is
stopped and has no Interest outstanding, a background thread that has been stopped, a
library that has been destroyed. In `InterestQueue` deadlock is checked, with `Quiescent` as the only way to rest.

### Fairness

* *InterestQueue*: weak fairness of the steps of a thread that is inside a call
  and of the timer and its handler: threads are scheduled, and `io_service::run`
  runs what is due. No fairness of enqueuing, reset or destruction.
* *BackgroundThread*: weak fairness of the background thread's steps and of a
  client that has posted its block reaching its wait.
* *Pipeliner2*: every outstanding Interest is answered or times out
  (`WF` of `RightmostTimeout`: ndn-cpp's timeouts), and a request that is
  repeated for ever is answered in the end (`SF` of `CurrentAnswered`: an
  assumption on the network, not on this code). Nothing is assumed of
  `recoveryCheck` or of the application; `InitialDataComes` makes an exception
  for a consumer that is switched or rebuffered over and over.
* *NdnRtcLibrary*: weak fairness of the timer and of the steps of `recoveryCheck`:
  `io_service::run` runs what is due. None of the application's calls is fair.
* *FrameSlot*, *VideoPlayout*, *PlayoutTiming* and *VideoThread* have safety properties
  only.

## 4. What is proved

TLAPS checks, for every value of the constants allowed by the named assumptions:

| Module | Theorem | States |
|---|---|---|
| InterestQueueProofs | `TypeCorrect`, `NeverStranded`, `FlagKept`, `LocksAcyclic` | the four safety properties of the run |
| Pipeliner2Proofs | `TypeCorrect`, `WindowAlwaysBalanced`, `NeverBackToFailed`, `PlayoutNeedsValid`, `KeysAlwaysKeepUp`, `AlwaysRecoverable` | the safety properties of both pipeliner runs |
| VideoPlayoutProofs | `PlayoutTypeCorrect`, `EverySlotAccounted`, `QueueStaysInOrder`, `PlayoutCleanKeepsNewer`, `GopStaysBroken`, `GopDeltasAscend`, `BufferImplemented` | everything the run checks of FrameBuffer and VideoPlayout, the refinement included |
| VideoThreadProofs | `TypeCorrect`, `NumbersConsistent`, `PitKeepsNothing`, `NobodyForgotten`, `OnlyDeltaDataForgotten` | the safety properties of the two producer runs |
| FrameSlotProofs | `TypeCorrect`, `PendingCounted`, `AllAskedFor`, `ReadyHasAll`, `AppendsWherePromised` | everything the run checks of a slot |
| BackgroundThreadProofs | `TypeCorrect`, `NeverOvertaken`, `WokenByItsOwn` | the safety properties of the run |
| PlayoutTimingProofs | `TypeCorrect`, `ClockNeverDrifts`, `ProducerTracked` | everything the run checks of the clock |
| NdnRtcLibraryProofs | `TypeCorrect`, `StatusTold`, `OnlyAddedFetch` | the safety properties of the run |

*InterestQueue.* None of the properties is inductive: that a true flag is a promise
depends on who may lower the flag while a run is due, and that on the locks. The
inductive invariant `IInv` adds: only the background thread runs the handler
(`ClientPCs`); the locks are held where the code holds them (`QueueAccessHeld`,
`JobMutexHeld`); nobody arms the timer while its handler runs (`TimerOneShot`);
and a run that is due has been announced by the flag or by a thread about to
raise it (`DueIsAnnounced`, `ScheduledIsDue`). `NoLockCycle` then follows: who
has pushed with a false flag would, by `DueIsAnnounced`, contradict a handler that
is about to pop.

*Pipeliner2.* `IInv` adds: nothing is known or asked of delta frames before the
first key of a run (`NoDeltaYet`), a fetching pipeliner has a Valid buffer and
only such a one has a playout that runs (`ValidFetches`), the key counter is past
every key that has a slot, and the key before it has had one or been refused
(`KeyCounted`), no window has failed before the first
data (`FailedSince`) and `recoveryCheck` is blind only in WaitInitial
(`BlindInWaitInitial`). `WindowBalance` needs `AboveFailedWindow` (a window is
never shrunk to nothing) and `NoDeltaYet` (the counter jumps only forward once
something has been asked for). The lemmas about the buffer's operators come
first: what each leaves, moves or frees. Assumptions used: GOP
and bounds (`VideoPackets`), `SlotsAssumption`, `WindowAssumption`
(0 < DefaultMinWindow < DefaultWindow; the source has 2 and 8, the runs 1 and 2),
`UninitializedAssumption`.

*VideoThread.* `IInv` adds `CountersPast`: the counters are past every frame that
has been published. `NumbersAgree` follows, for a new frame's numbers are then
beyond all others, and so does `PitForgets`: `IsNew` lets no Interest for a published
delta frame into the PIT, and `CleanPitForFrame` removes those that were there. It
also bounds `packetNo` by the two other counters, which `TypeOK` needs: a key frame
that fails uses up a key number and no packet number. These theorems hold with
`SendThrows`, that is, wherever publishing fails.

`NobodyOverlooked` needs it that an Interest that came before its frame is in the PIT until
the frame is begun (`AwaitedInPit`): then publishing answers it, and an Interest that comes
later finds the segment in the cache. Where publishing throws this is not true of the data
of delta frames, whose number is given again after its PIT entries have been erased.
So the two are stated of the segments that are `SafeFromFailure` (keys, parity data, and
everything if publishing does not throw). `NobodyForgotten` is proved from `~SendThrows`;
`OnlyDeltaDataForgotten` says, without that, that nothing but data of a delta frame can be
overlooked (`OnlyDeltaDataOverlooked`).

*FrameBuffer and VideoPlayout.* None of the properties is inductive. `QueueInOrder` speaks of
the frames that assemble; what keeps the others from getting in their way is that the
whole queue is sorted, were it not for the slots whose meta data has not been noticed:
`SortedButForLate` says that there is a set of such slots without whose numbers the queue is
in order. `SlotsAccounted` is kept by the calls of a handler only with the slots that are
on their way out of the queue and still in the map, so it is a predicate of a buffer and of
these slots (`Accounted`), and every call of the chain has a lemma that takes a buffer that
is `Sound` to one that is (`ReserveSlotSound` to `ReleaseSound`). `AskedFor` bounds the key
frames in the map by the pipeliner's counter and `IInv` the delta frames: with it a
reservation from within newData or a release is for a frame that has no slot yet. The same
lemmas say what each call does to the abstract buffer, so that the refinement is put
together handler by handler (`AskStep`, `DeltaStep`, `DataStep`, `PlayStep`, `ResetStep`);
that the head of the queue is a head of the abstract buffer (`HeadOfView`) is where the
order of the queue is needed. For the playout, `KeysOnce` says that a key that has been
decoded never gets a slot again, and `GopOpen` that while a GOP is open nothing incomplete
has been met since its key and `playbackNo_` has not fallen below what was decoded last;
`BrokenGopStaysBroken` and `DeltasAscend` follow for a step (`DeltaDecoded`). The general
part is about sequences: arranging one by a strict total order of its positions gives each
element once, in that order (`ArrangedInOrder`, `ArrangedSequence`), and the comparator is
such an order (`AscendingOrders`). Assumptions: `SlotIdsAssumption` (finitely many slots),
`CleanAssumption`, `FecAssumption`, `SkipAssumption` (either value), and those of `VideoPackets`.

*FrameSlot.* The four counters are changed by hand, so each of the properties needs to
know of the others which segment was in which state. Data may come of segments that this
run has not asked for, so the counters are stated up to these (`Unsolicited`). `IInv`
adds: only what has been asked for is waited for, and what has been asked for and exists
is waited for or has come, the first data segment at least
(`AskedIsWaitedFor`: with it the number of segments found missing is all that
`NothingForgotten` needs); what has come is a segment of the frame and will be taken for a
duplicate (`FetchedIsKnown`: so no segment is counted twice, and Ready is reached by the
data segments of the frame, by cardinality); and a recovered frame takes nothing more
(`RecoveredIsDone`). That `refineActiveSegments` removes no segment of the frame, and that
asking for what is missing moves it from one counter to the other, are lemmas (`Met`,
`CountMoved`). Assumptions: `SegmentsAssumption`, `OptionsAssumption`.

*BackgroundThread.* `BlocksInOrder` is not inductive: that a client's blocks complete in
order depends on the order in which they wait and on none being lost. `IInv` adds
`NoneLost` (what a client has called for has run, runs or waits), `CalledFor` (nothing
else does) and `Sorted` (a client's blocks wait in the order of its calls, after the one
that runs). `NotAbandoned` needs type correctness only: a handler that leaves the queue is the one
that runs, and the one that runs wakes its own client. Assumption: `CallsAssumption`,
and nothing of the number of clients.

*PlayoutTiming.* Nothing is assumed of the timestamps: they may go back. `IInv` adds that the
frame announced as next is the one after the last played and that nothing is inferred when it is known (`AwaitedIsNext`), and
that a playout that runs has a time stamp (`Stamped`). The proof follows
`processPlayout`: each function it calls has a lemma that says what it preserves of the
sums (`CheckKeeps`, `UpdateKeeps`, `AdjustmentKept`, `Absorption`), and `IterationKeeps`
puts them together. Assumptions: `FramesAssumption`, `TimesAssumption`.

*NdnRtcLibrary.* The conjunction of the three properties is inductive; `TypeOK`
has the part that matters, that there is nothing to look at unless a check runs.
`OnlyConsumersFetch` needs it that `recoveryCheck` and the calls are blocks of one thread:
`Check` only finds what has not been removed. No assumption on the constants is needed.

TLC evaluated every `IInv` before it was proved.

Only model-checked: the liveness properties (`EveryInterestLeaves`,
`EveryBlockRuns`, `InitialDataComes`, `SilenceEnds`), which TLAPS cannot prove under
fairness. Every other property of the passing runs is proved. That the closed forms of
the sort and of `cleanBuffer`'s loop are what the loops compute is by reading: a loop over
data needs induction, which is out of the prover's reach.

## 5. What is not modelled

* Audio: `AudioThread`, `AudioConsumer`, and the branches of `Pipeliner2` for a
  stream without key frames.
* `MediaStream`, which hands every frame to each of its threads; stream and session
  observers, the session's info timer (which `Session::stop` does not stop) and the getters
  of the library that read its maps outside of the background thread.
* `FaceWrapper`: its mutex is what makes the actions of VideoThread atomic.
* Estimators, rate control, audio/video synchronisation (which the library never creates):
  floating point over clocks. Their verdicts are nondeterministic choices.
* Encoding, names, segmentation bytes, FEC arithmetic, codecs, devices, statistics.
* Parts of `FrameBuffer` without a caller when `USE_WINDOW_PIPELINER` is defined:
  the event queue (`waitForEvents`), `interestTimeout`, `recycleOldSlots`.
* ndn-cpp, apart from `MemoryContentCache`. Most of the repository's lines are vendored
  (ndn-cpp with its boost, gtest, WebRTC headers): no part of this program's logic.
* Destruction of an `InterestQueue` while its timer handler runs, and of a map while it is
  iterated over: undefined behaviour from which there is no state to go on.
* Details with no state that the properties tell apart: the inverted comparator of
  `interest-queue.h:54`, which is no strict weak order for equal values; the iterator that
  `checkRetransmissions` dereferences at the end of an empty map (`frame-buffer.cpp:2082`);
  a key's timeout while chasing, compared with a number that has moved on
  (`pipeliner.cpp:672`).
* A segment whose content cannot be read (`frame-buffer.cpp:326-329`). When it is the first
  data of its slot, `newData` then uses `recentSegment_`, which nobody has set: the
  program does not survive it and there is no state to go on from. Later it changes
  nothing.

## 6. What could be added

1. The audio branch of Pipeliner2 and AudioThread's PIT test.
2. A composition of VideoThread and Pipeliner2 over a network that loses, delays
   and duplicates: a stream that goes on.
3. The dormant event queue of FrameBuffer (its wake-ups); ndn-cpp's Node and ChronoSync2013.
