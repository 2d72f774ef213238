---------------------------- MODULE VideoPlayout ----------------------------
(***************************************************************************)
(* Playout and VideoPlayout on top of FrameBuffer: which of the frames at    *)
(* the head of the queue are handed to the decoder.  With skipIncomplete_    *)
(* VideoPlayout skips incomplete frames and, by validGop_ and currentKeyNo_, *)
(* the delta frames that then cannot be decoded; without, it hands on        *)
(* whatever there is data of.                                                *)
(*                                                                         *)
(* The handlers are those of FrameBuffer, with what the playout does in      *)
(* them; Playout is started by the data that ends the buffering.             *)
(***************************************************************************)
EXTENDS FrameBuffer

CONSTANTS
    useFec,           \* useFec_ and skipIncomplete_ of the general parameters
    skipIncomplete

ASSUME FecAssumption == useFec \in BOOLEAN
ASSUME SkipAssumption == skipIncomplete \in BOOLEAN

VARIABLES
    isRunning,      \* isRunning_
    gop,            \* validGop_ and currentKeyNo_
    shown           \* history of this run of the playout, see NothingShown

playoutVars == <<isRunning, gop, shown>>
allVars == <<vars, playoutVars>>

(* keys:    the key frames handed to the decoder,
   closed:  those of them after which something incomplete has been met,
   last:    playback number of the last frame handed to the decoder.          *)
NothingShown == [keys |-> {}, closed |-> {}, last |-> -1]

-----------------------------------------------------------------------------
(* Whether a slot may be at assembled level 1: a Ready one is, and one that
   assembles is when FEC recovers it, in checkRetransmissions or here.      *)
Levels(slot) ==
    CASE slot.state = "ready" -> {TRUE}
      [] slot.state = "assembling" -> {FALSE, useFec}
      [] OTHER -> {FALSE}

(* Whether acquireSlot gives data: of a slot that is not skipped and has meta
   data, if what has come of the frame is readable as a packet, as all of it
   is.                                                                      *)
HasData(b, complete, readable) ==
    /\ HasMeta(b.slots[Head(b.playbackQueue)])
    /\ complete \/ readable
    /\ ~Skipped(b)

(* Mutant: a delta frame that is incomplete does not invalidate its GOP.     *)
GopAfterKeyOnly(g, f, complete) ==
    IF f.kind = "key"
    THEN [valid |-> complete, current |-> IF complete THEN f.no ELSE g.current]
    ELSE g

(* playbackPacket: validGop_ and currentKeyNo_ after frame f, of a level that
   is 1 or not.                                                             *)
GopAfter(g, f, complete) ==
    IF ~skipIncomplete THEN g
    ELSE IF f.kind = "key"
    THEN [valid |-> complete, current |-> IF complete THEN f.no ELSE g.current]
    ELSE [g EXCEPT !.valid = @ /\ complete]

(* Mutant: a frame that is skipped for being old is decoded all the same.    *)
PushedOld(g, f, complete, data) ==
    skipIncomplete => /\ complete
                      /\ f.kind = "delta" => g.valid /\ Paired(f) = g.current

(* Whether frame f, of which there is data or not, is handed to the decoder. *)
Pushed(g, f, complete, data) ==
    /\ skipIncomplete => /\ complete
                         /\ f.kind = "delta" => g.valid /\ Paired(f) = g.current
    /\ data

Shown(h, g, f, complete, data) ==
    LET pushed == Pushed(g, f, complete, data)
    IN  [keys    |-> h.keys \cup {k \in {f.no} : pushed /\ f.kind = "key"},
         closed  |-> IF complete THEN h.closed ELSE h.keys,
         last    |-> IF pushed THEN PlaybackNo(f) ELSE h.last]

(* processPlayout: acquireSlot, playbackPacket, releaseAcquiredSlot, on a
   buffer b.  With an empty queue playbackPacket is called all the same, for
   a frame nobody has named, of level 0: the GOP is invalid, whatever kind of
   frame it is taken for.                                                   *)
Playbacks(b, g, h) ==
    IF b.playbackQueue = <<>>
    THEN {[fb |-> b, gop |-> [g EXCEPT !.valid = @ /\ ~skipIncomplete],
           shown |-> [h EXCEPT !.closed = h.keys]]}
    ELSE {[fb    |-> ReleaseAcquiredSlot(AcquireSlot(b)),
           gop   |-> GopAfter(g, HeadFrame(b), complete),
           shown |-> Shown(h, g, HeadFrame(b), complete, HasData(b, complete, readable))] :
             complete \in Levels(b.slots[Head(b.playbackQueue)]), readable \in BOOLEAN}

-----------------------------------------------------------------------------
(* The constructors leave validGop_ and currentKeyNo_ unassigned.           *)
PlayoutInit ==
    /\ Init
    /\ isRunning = FALSE
    /\ gop \in [valid : BOOLEAN, current : {-1, 0}]
    /\ shown = NothingShown

(* Handlers of the pipeliner that leave the playout alone.                   *)
Pipeline ==
    /\ \/ \E k \in 0..MaxKey : AskForInitialData(k)
       \/ \E d \in 0..MaxDelta : RequestNextDelta(d)
       \/ \E f \in Frames : Receive(f)
    /\ UNCHANGED playoutVars

(* Consumer::onBufferingEnded, called with the data that ends the buffering:
   VideoPlayout::start -> Playout::start, which processes the first frame at
   once, being on the background thread already, before VideoPlayout::start
   sets its variables.                                                      *)
BufferingEnds ==
    /\ isValid
    /\ ~isRunning
    /\ fb.playbackQueue # <<>>
    /\ isRunning' = TRUE
    /\ \E p \in Playbacks(fb, gop, NothingShown) : fb' = p.fb /\ shown' = p.shown
    /\ gop' = [valid |-> FALSE, current |-> 0]
    /\ UNCHANGED <<isValid, deltaFrameSeqNo>>

(* The playout timer.                                                       *)
PlayNext ==
    /\ isRunning
    /\ isValid
    /\ \E p \in Playbacks(fb, gop, shown) :
          fb' = p.fb /\ gop' = p.gop /\ shown' = p.shown
    /\ UNCHANGED <<isValid, deltaFrameSeqNo, isRunning>>

(* Rebuffering, and switching the thread, stop the playout.                 *)
StopAndReset ==
    /\ Reset
    /\ isRunning' = FALSE
    /\ shown' = NothingShown
    /\ UNCHANGED gop

PlayoutNext ==
    \/ Pipeline
    \/ BufferingEnds
    \/ PlayNext
    \/ StopAndReset

PlayoutSpec == PlayoutInit /\ [][PlayoutNext]_allVars

-----------------------------------------------------------------------------
(* Type invariant.                                                          *)
PlayoutTypeOK ==
    /\ TypeOK
    /\ isRunning \in BOOLEAN
    /\ gop \in [valid : BOOLEAN, current : -1..(MaxKey + 1)]
    /\ shown \in [keys : SUBSET (0..MaxKey), closed : SUBSET (0..MaxKey), last : Int]

(* With skipIncomplete_, after something incomplete has been met, no delta
   frame of a key frame decoded before it is decoded: validGop_ is raised by a
   key frame only, and no key frame is played twice.                        *)
BrokenGopStaysBroken ==
    [][skipIncomplete => \A d \in Deltas :
          shown'.last = PlaybackNo(d) /\ shown'.last # shown.last
              => Paired(d) \notin shown.closed]_allVars

(* With skipIncomplete_, what is decoded after a key frame is decoded in the
   order of the playback numbers, up to the next key frame, although
   playbackNo_ may be forgotten in between.  A key frame that comes so late that it is skipped, but is
   complete, opens its GOP all the same: of delta frames whose key was not
   decoded this is not true.                                                *)
DeltasAscend ==
    [][skipIncomplete => \A d \in Deltas :
          shown'.last = PlaybackNo(d) /\ Paired(d) \in shown.keys
              => shown.last <= shown'.last]_allVars

-----------------------------------------------------------------------------
(* The strengthening that makes the properties of the playout inductive: a
   key frame that has been decoded is never asked for again, and while the GOP
   of one is open, playbackNo_ has not been forgotten.                       *)
KeysOnce ==
    \A k \in shown.keys : k < fb.keyFrameSeqNo /\ Key(k) \notin ActiveFrames(fb)

GopOpen ==
    skipIncomplete /\ gop.valid =>
        /\ gop.current \notin shown.closed
        /\ gop.current \in shown.keys => shown.last <= fb.playbackNo

PlayoutIInv ==
    /\ IInv
    /\ PlayoutTypeOK
    /\ KeysOnce
    /\ GopOpen
    /\ shown.closed \subseteq shown.keys
    /\ ~isValid => ~isRunning
    /\ ~isRunning => shown = NothingShown
=============================================================================
