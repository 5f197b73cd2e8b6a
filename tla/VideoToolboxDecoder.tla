------------------------- MODULE VideoToolboxDecoder -------------------------
(***************************************************************************)
(* The VideoToolbox H.26x decoder (src/src/voip/h26x/videotoolbox-         *)
(* decoder.cpp): the filter thread feeds encoded frames, fetches decoded    *)
(* ones and destroys the decoder; the VideoToolbox session delivers its     *)
(* asynchronous decoding results on its own thread through outputCb.  The  *)
(* two threads share _queue and _destroying under _mutex.                   *)
(*                                                                         *)
(* destroyDecoder is three steps of the filter thread: setting _destroying *)
(* under the lock; VTDecompressionSessionWaitForAsynchronousFrames, which   *)
(* returns once every frame in flight has gone through outputCb; and the    *)
(* invalidation and release of the session and format description.  What  *)
(* the filter does after the destruction is recorded in "after".           *)
(***************************************************************************)
EXTENDS Naturals, Sequences

CONSTANTS
  MaxInFlight,      \* frames VideoToolbox holds at once in the model
  MaxQueue,         \* decoded frames _queue holds at once in the model
  MaxFormatDescs    \* format descriptions created over a run

ASSUME DecoderAssumption ==
  /\ MaxInFlight \in Nat \ {0}
  /\ MaxQueue \in Nat \ {0}
  /\ MaxFormatDescs \in Nat \ {0}

VARIABLES
  fpc,          \* the filter thread: "idle", "rest" (in feed, after the
                \* parameter sets), "wait" (inside destroyDecoder, from the
                \* setting of _destroying to its reset) or "gone" (the
                \* destructor has run)
  after,        \* where the filter thread goes once destroyDecoder returns
  session,      \* _session != nullptr
  formatDesc,   \* _formatDesc: 0 for nullptr, else a format description
  fdLive,       \* format descriptions created and not yet CFReleased
  fdCount,      \* format descriptions created so far
  gathered,     \* _psStore->psGatheringCompleted()
  freeze,       \* _freeze
  destroying,   \* _destroying
  inFlight,     \* frames handed to VTDecompressionSessionDecodeFrame whose
                \* outputCb has not run yet
  queue,        \* _queue: "pic" for Frame(pixbuf), "fail" for Frame()
  frameIn       \* whether the encoded frame of the feed in progress holds
                \* a key frame part

vars == <<fpc, after, session, formatDesc, fdLive, fdCount, gathered, freeze,
          destroying, inFlight, queue, frameIn>>

Threads == {"idle", "rest", "wait", "gone"}

-----------------------------------------------------------------------------
Init ==
  /\ fpc = "idle"
  /\ after = "idle"
  /\ session = FALSE
  /\ formatDesc = 0
  /\ fdLive = {}
  /\ fdCount = 0
  /\ gathered = FALSE
  /\ freeze \in BOOLEAN
  /\ destroying = FALSE
  /\ inFlight = 0
  /\ queue = << >>
  /\ frameIn = FALSE

(* The first step of destroyDecoder: _destroying is set under the lock.   *)
BeginDestroy(next) ==
  /\ destroying' = TRUE
  /\ fpc' = "wait"
  /\ after' = next

(* feed, up to the parameter-set handling: new parameter sets complete the *)
(* gathering and tear the current session down; an encoded frame that only *)
(* carried parameter sets ends the call.                                   *)
Feed(newPs, empty, key) ==
  /\ fpc = "idle"
  /\ gathered' = (gathered \/ newPs)
  /\ frameIn' = key
  /\ \/ /\ newPs /\ session
        /\ BeginDestroy(IF empty THEN "idle" ELSE "rest")
     \/ /\ ~(newPs /\ session)
        /\ fpc' = IF empty THEN "idle" ELSE "rest"
        /\ UNCHANGED <<after, destroying>>
  /\ UNCHANGED <<session, formatDesc, fdLive, fdCount, freeze, inFlight, queue>>

(* formatDescFromSpsPps: a new format description from the parameter     *)
(* sets replaces, and releases, the one held.                             *)
NewFormatDesc ==
  /\ fdCount < MaxFormatDescs
  /\ fdCount' = fdCount + 1
  /\ formatDesc' = fdCount + 1
  /\ fdLive' = (fdLive \ {formatDesc}) \cup {fdCount + 1}

(* createDecoder: _destroying reset under the lock, then the format       *)
(* description (whose creation may throw), then                          *)
(* VTDecompressionSessionCreate, whose failure throws out of feed.  On     *)
(* success, feed goes on with the frame.                                  *)
CreateDecoder ==
  /\ destroying' = FALSE
  /\ \/ /\ NewFormatDesc
        /\ \E created \in BOOLEAN :
             /\ session' = created
             /\ fpc' = IF created THEN "rest" ELSE "idle"
     \/ /\ fpc' = "idle"
        /\ UNCHANGED <<session, formatDesc, fdLive, fdCount>>
  /\ UNCHANGED <<after, freeze, inFlight>>

(* decodeFrame: the frame goes to VTDecompressionSessionDecodeFrame        *)
(* asynchronously; kVTInvalidSessionErr throws InvalidSessionError, which  *)
(* feed answers with destroyDecoder; any other failure throws a            *)
(* runtime_error that feed only logs.                                      *)
DecodeFrame ==
  \/ /\ inFlight < MaxInFlight
     /\ inFlight' = inFlight + 1
     /\ fpc' = "idle"
     /\ UNCHANGED <<after, destroying>>
  \/ /\ BeginDestroy("idle")
     /\ UNCHANGED inFlight
  \/ /\ fpc' = "idle"
     /\ UNCHANGED <<after, destroying, inFlight>>

(* The end of feed once the parameter sets are in: without complete      *)
(* parameter sets it throws; the session is created if there is none; a   *)
(* frozen decoder drops frames until one holds a key frame part.           *)
FeedRest ==
  /\ fpc = "rest"
  /\ \/ /\ ~gathered
        /\ fpc' = "idle"
        /\ UNCHANGED <<after, session, formatDesc, fdLive, fdCount, freeze,
                       destroying, inFlight>>
     \/ /\ gathered /\ ~session
        /\ CreateDecoder
     \/ /\ gathered /\ session
        /\ freeze' = (freeze /\ ~frameIn)
        /\ \/ /\ freeze'
              /\ fpc' = "idle"
              /\ UNCHANGED <<after, destroying, inFlight>>
           \/ /\ ~freeze'
              /\ DecodeFrame
        /\ UNCHANGED <<session, formatDesc, fdLive, fdCount>>
  /\ UNCHANGED <<gathered, queue, frameIn>>

(* Mutant: outputCb without the _destroying check.                       *)
OutputCbIgnoringDestroying(ok) ==
  /\ inFlight > 0
  /\ inFlight' = inFlight - 1
  /\ Len(queue) < MaxQueue
  /\ queue' = Append(queue, IF ok THEN "pic" ELSE "fail")
  /\ UNCHANGED <<fpc, after, session, formatDesc, fdLive, fdCount, gathered,
                 freeze, destroying, frameIn>>

(* outputCb: the VideoToolbox thread delivers the oldest frame in flight.  *)
(* Under the lock, a delivery during destruction is dropped; otherwise a   *)
(* decoded picture, or an empty Frame for a failed one, is queued.          *)
OutputCb(ok) ==
  /\ inFlight > 0
  /\ inFlight' = inFlight - 1
  /\ \/ /\ destroying
        /\ UNCHANGED queue
     \/ /\ ~destroying /\ Len(queue) < MaxQueue
        /\ queue' = Append(queue, IF ok THEN "pic" ELSE "fail")
  /\ UNCHANGED <<fpc, after, session, formatDesc, fdLive, fdCount, gathered,
                 freeze, destroying, frameIn>>

(* fetch: the filter thread takes the oldest queued frame under the lock. *)
Fetch ==
  /\ fpc = "idle"
  /\ queue # << >>
  /\ queue' = Tail(queue)
  /\ UNCHANGED <<fpc, after, session, formatDesc, fdLive, fdCount, gathered,
                 freeze, destroying, inFlight, frameIn>>

(* Mutant: the session invalidated without waiting for frames in flight. *)
EndDestroyNoWait ==
  /\ fpc = "wait"
  /\ session' = FALSE
  /\ formatDesc' = 0
  /\ fdLive' = fdLive \ {formatDesc}
  /\ destroying' = FALSE
  /\ fpc' = after
  /\ UNCHANGED <<after, fdCount, gathered, freeze, inFlight, queue, frameIn>>

(* Mutant: destroyDecoder also waits for the output queue to be empty,    *)
(* which only the filter thread itself drains.                            *)
EndDestroyWaitingForQueue ==
  /\ fpc = "wait"
  /\ inFlight = 0 /\ queue = << >>
  /\ session' = FALSE
  /\ formatDesc' = 0
  /\ fdLive' = fdLive \ {formatDesc}
  /\ destroying' = FALSE
  /\ fpc' = after
  /\ UNCHANGED <<after, fdCount, gathered, freeze, inFlight, queue, frameIn>>

(* VTDecompressionSessionWaitForAsynchronousFrames returns once nothing is *)
(* in flight; the session is then invalidated, the session and the format  *)
(* description released, and _destroying cleared.                          *)
EndDestroy ==
  /\ fpc = "wait"
  /\ inFlight = 0
  /\ session' = FALSE
  /\ formatDesc' = 0
  /\ fdLive' = fdLive \ {formatDesc}
  /\ destroying' = FALSE
  /\ fpc' = after
  /\ UNCHANGED <<after, fdCount, gathered, freeze, inFlight, queue, frameIn>>

(* ~VideoToolboxDecoder: destroyDecoder when there is a session.           *)
Destructor ==
  /\ fpc = "idle"
  /\ \/ /\ session
        /\ BeginDestroy("gone")
     \/ /\ ~session
        /\ fpc' = "gone"
        /\ UNCHANGED <<after, destroying>>
  /\ UNCHANGED <<session, formatDesc, fdLive, fdCount, gathered, freeze,
                 inFlight, queue, frameIn>>

Next ==
  \/ \E newPs, empty, key \in BOOLEAN : Feed(newPs, empty, key)
  \/ FeedRest
  \/ \E ok \in BOOLEAN : OutputCb(ok)
  \/ Fetch
  \/ EndDestroy
  \/ Destructor

Spec == Init /\ [][Next]_vars

(* VideoToolbox delivers every frame it accepted on its own thread, and    *)
(* VTDecompressionSessionWaitForAsynchronousFrames returns once it has:   *)
(* both are weakly fair.  Feeding and fetching are up to the graph and    *)
(* get no fairness.                                                        *)
FairSpec ==
  /\ Spec
  /\ WF_vars(\E ok \in BOOLEAN : OutputCb(ok))
  /\ WF_vars(EndDestroy)

(* The lifecycle state of the decoder as VideoDecoderLifecycle sees it.   *)
Status ==
  IF fpc = "gone" THEN "gone"
  ELSE IF fpc = "wait" THEN "closing"
  ELSE IF session THEN "active"
  ELSE "none"

Lifecycle == INSTANCE VideoDecoderLifecycle
               WITH status <- Status, pending <- inFlight, out <- Len(queue),
                    MaxPending <- MaxInFlight, MaxOut <- MaxQueue

-----------------------------------------------------------------------------
TypeOK ==
  /\ fpc \in Threads
  /\ after \in {"idle", "rest", "gone"}
  /\ session \in BOOLEAN
  /\ formatDesc \in 0..MaxFormatDescs
  /\ fdLive \subseteq 1..MaxFormatDescs
  /\ fdCount \in 0..MaxFormatDescs
  /\ gathered \in BOOLEAN
  /\ freeze \in BOOLEAN
  /\ destroying \in BOOLEAN
  /\ inFlight \in 0..MaxInFlight
  /\ queue \in Seq({"pic", "fail"})
  /\ frameIn \in BOOLEAN

(* Spec 5: a decoding result VideoToolbox delivers while destroyDecoder    *)
(* runs is discarded: no frame enters _queue between the setting of        *)
(* _destroying and the release of the session.                             *)
NoOutputDuringTeardown ==
  [][fpc = "wait" => Len(queue') <= Len(queue)]_vars

(* Spec 5: teardown is safe while a delivery is in flight: once the        *)
(* destructor has returned, no outputCb can still be pending against the   *)
(* freed decoder, and every decoding session it made has been released.   *)
NoCallbackAfterFree ==
  fpc = "gone" => inFlight = 0 /\ ~session

(* Every format description createDecoder made is released by the time the *)
(* decoder object is destroyed.                                            *)
FormatDescReleased ==
  fpc = "gone" => fdLive = {}

(* Spec 5 as a whole: the decoder, with its two threads, the lock and the *)
(* session re-creation on new parameter sets, behaves as the abstract      *)
(* lifecycle: deliveries while destroyDecoder runs are dropped, and the    *)
(* session is released only when VideoToolbox holds no frame.             *)
ImplementsLifecycle == Lifecycle!Spec

(* Spec 5: destroyDecoder does not hang: once _destroying is set, the      *)
(* frames in flight are delivered and the session released.                *)
TeardownCompletes == fpc = "wait" ~> fpc # "wait"

=============================================================================
