---------------------- MODULE VideoToolboxDecoderProofs ----------------------
(***************************************************************************)
(* Proof, for every bound, that the VideoToolbox decoder cannot be freed   *)
(* while a decoding result is still to be delivered to it, that no result *)
(* is queued while it is being destroyed, and that it implements the      *)
(* abstract decoder lifecycle of VideoDecoderLifecycle.                   *)
(***************************************************************************)
EXTENDS VideoToolboxDecoder, TLAPS

(* Frames are only in flight on a live session, the filter thread is only *)
(* inside destroyDecoder while there is a session to destroy, and a freed  *)
(* decoder has neither.                                                   *)
IInv ==
  /\ TypeOK
  /\ inFlight > 0 => session
  /\ fpc = "wait" => session
  /\ fpc = "gone" => ~session /\ inFlight = 0

LEMMA InitIInv == Init => IInv
<1> SUFFICES ASSUME Init PROVE IInv
  OBVIOUS
<1>1. session = FALSE /\ freeze \in BOOLEAN /\ gathered = FALSE /\ destroying = FALSE
      /\ frameIn = FALSE
  BY DEF Init
<1>2. session \in BOOLEAN /\ gathered \in BOOLEAN /\ destroying \in BOOLEAN
      /\ frameIn \in BOOLEAN
  BY <1>1, Zenon
<1>3. /\ fpc = "idle" /\ after = "idle" /\ formatDesc = 0 /\ fdLive = {}
      /\ fdCount = 0 /\ inFlight = 0 /\ queue = << >>
  BY DEF Init
<1>4. QED
  BY <1>1, <1>2, <1>3, DecoderAssumption DEF IInv, TypeOK, Threads

LEMMA StepIInv == IInv /\ [Next]_vars => IInv'
<1> SUFFICES ASSUME IInv, [Next]_vars PROVE IInv'
  OBVIOUS
<1> USE DecoderAssumption
<1>1. CASE \E newPs, empty, key \in BOOLEAN : Feed(newPs, empty, key)
  <2>1. PICK newPs, empty, key \in BOOLEAN : Feed(newPs, empty, key)
    BY <1>1
  <2>2. gathered' \in BOOLEAN /\ frameIn' \in BOOLEAN
    BY <2>1, Zenon DEF Feed
  <2>3. /\ fpc' \in {"idle", "rest", "wait"} /\ after' \in {"idle", "rest", "gone"}
        /\ destroying' \in BOOLEAN /\ (fpc' = "wait" => session)
    BY <2>1, Zenon DEF Feed, BeginDestroy, IInv, TypeOK
  <2>4. UNCHANGED <<session, formatDesc, fdLive, fdCount, freeze, inFlight, queue>>
    BY <2>1 DEF Feed
  <2>5. QED
    BY <2>2, <2>3, <2>4 DEF IInv, TypeOK, Threads
<1>2. CASE FeedRest
  <2>1. CASE ~gathered
    BY <1>2, <2>1 DEF FeedRest, CreateDecoder, NewFormatDesc, DecodeFrame, IInv, TypeOK, Threads
  <2>2. CASE gathered /\ ~session
    <3>1. inFlight = 0
      BY <2>2 DEF IInv, TypeOK
    <3>2. /\ inFlight' = inFlight /\ after' = after /\ freeze' = freeze
          /\ destroying' = FALSE /\ queue' = queue /\ frameIn' = frameIn
          /\ gathered' = gathered
      BY <1>2, <2>2 DEF FeedRest, CreateDecoder, NewFormatDesc, DecodeFrame
    <3>3. \/ /\ fdCount < MaxFormatDescs
             /\ fdCount' = fdCount + 1 /\ formatDesc' = fdCount + 1
             /\ fdLive' = (fdLive \ {formatDesc}) \cup {fdCount + 1}
             /\ fpc' \in {"idle", "rest"}
          \/ /\ fpc' = "idle"
             /\ UNCHANGED <<session, formatDesc, fdLive, fdCount>>
      BY <1>2, <2>2, Zenon DEF FeedRest, CreateDecoder, NewFormatDesc, DecodeFrame
    <3>4. /\ fpc' \in {"idle", "rest"}
          /\ formatDesc' \in 0..MaxFormatDescs
          /\ fdLive' \subseteq 1..MaxFormatDescs
          /\ fdCount' \in 0..MaxFormatDescs
      <4>1. fdCount \in 0..MaxFormatDescs /\ formatDesc \in 0..MaxFormatDescs
            /\ fdLive \subseteq 1..MaxFormatDescs
        BY DEF IInv, TypeOK
      <4>2. CASE fdCount < MaxFormatDescs
                 /\ fdCount' = fdCount + 1 /\ formatDesc' = fdCount + 1
                 /\ fdLive' = (fdLive \ {formatDesc}) \cup {fdCount + 1}
                 /\ fpc' \in {"idle", "rest"}
        BY <4>1, <4>2, DecoderAssumption
      <4>3. CASE fpc' = "idle" /\ UNCHANGED <<session, formatDesc, fdLive, fdCount>>
        BY <4>1, <4>3
      <4>4. QED
        BY <3>3, <4>2, <4>3
    <3>5. destroying' \in BOOLEAN /\ session' \in BOOLEAN
      BY <1>2, <2>2, <3>2, Zenon DEF FeedRest, CreateDecoder, NewFormatDesc, DecodeFrame, IInv, TypeOK
    <3>6. QED
      BY <3>1, <3>2, <3>4, <3>5 DEF IInv, TypeOK, Threads
  <2>3. CASE gathered /\ session
    <3>1. /\ session' = session /\ formatDesc' = formatDesc /\ fdLive' = fdLive
          /\ fdCount' = fdCount /\ queue' = queue /\ frameIn' = frameIn
          /\ gathered' = gathered
      BY <1>2, <2>3 DEF FeedRest, CreateDecoder, NewFormatDesc, DecodeFrame
    <3>2. freeze' \in BOOLEAN /\ destroying' \in BOOLEAN
      BY <1>2, <2>3, Zenon DEF FeedRest, CreateDecoder, NewFormatDesc, DecodeFrame, BeginDestroy, IInv, TypeOK
    <3>3. /\ fpc' \in {"idle", "wait"} /\ after' \in {"idle", "rest", "gone"}
      BY <1>2, <2>3, Zenon DEF FeedRest, CreateDecoder, NewFormatDesc, DecodeFrame, BeginDestroy, IInv, TypeOK
    <3>4. inFlight' \in 0..MaxInFlight
      <4>1. inFlight' = inFlight \/ (inFlight < MaxInFlight /\ inFlight' = inFlight + 1)
        BY <1>2, <2>3, Zenon DEF FeedRest, CreateDecoder, NewFormatDesc, DecodeFrame, BeginDestroy
      <4>2. QED
        BY <4>1 DEF IInv, TypeOK
    <3>5. QED
      BY <2>3, <3>1, <3>2, <3>3, <3>4 DEF IInv, TypeOK, Threads
  <2>4. QED
    BY <2>1, <2>2, <2>3
<1>3. CASE \E ok \in BOOLEAN : OutputCb(ok)
  <2>1. PICK ok \in BOOLEAN : OutputCb(ok)
    BY <1>3
  <2>2. queue' \in Seq({"pic", "fail"})
    <3>1. queue' = queue \/ queue' = Append(queue, IF ok THEN "pic" ELSE "fail")
      BY <2>1, Zenon DEF OutputCb
    <3>2. (IF ok THEN "pic" ELSE "fail") \in {"pic", "fail"}
      OBVIOUS
    <3>3. QED
      BY <3>1, <3>2 DEF IInv, TypeOK
  <2>3. inFlight' \in 0..MaxInFlight /\ inFlight > 0
    BY <2>1 DEF OutputCb, IInv, TypeOK
  <2>4. QED
    BY <2>1, <2>2, <2>3 DEF OutputCb, IInv, TypeOK
<1>4. CASE Fetch
  BY <1>4 DEF Fetch, IInv, TypeOK
<1>5. CASE EndDestroy
  <2>1. after \in {"idle", "rest", "gone"} /\ inFlight = 0
    BY <1>5 DEF EndDestroy, IInv, TypeOK
  <2>2. fdLive' \subseteq 1..MaxFormatDescs
    BY <1>5 DEF EndDestroy, IInv, TypeOK
  <2>3. fpc' \in Threads
    BY <1>5, <2>1 DEF EndDestroy, Threads
  <2>4. session' = FALSE /\ destroying' = FALSE
    BY <1>5 DEF EndDestroy
  <2>5. session' \in BOOLEAN /\ destroying' \in BOOLEAN
    BY <2>4, Zenon
  <2>6. UNCHANGED <<after, fdCount, gathered, freeze, inFlight, queue, frameIn>>
        /\ formatDesc' = 0 /\ fpc' = after
    BY <1>5 DEF EndDestroy
  <2>7. QED
    BY <2>1, <2>2, <2>3, <2>4, <2>5, <2>6 DEF IInv, TypeOK
<1>6. CASE Destructor
  <2>1. CASE session
    <3>1. fpc' = "wait" /\ after' = "gone" /\ destroying' = TRUE
      BY <1>6, <2>1 DEF Destructor, BeginDestroy
    <3>2. UNCHANGED <<session, formatDesc, fdLive, fdCount, gathered, freeze,
                      inFlight, queue, frameIn>>
      BY <1>6 DEF Destructor
    <3>3. QED
      BY <2>1, <3>1, <3>2 DEF IInv, TypeOK, Threads
  <2>2. CASE ~session
    <3>1. inFlight = 0
      BY <2>2 DEF IInv, TypeOK
    <3>2. QED
      BY <1>6, <2>2, <3>1 DEF Destructor, BeginDestroy, IInv, TypeOK, Threads
  <2>3. QED
    BY <2>1, <2>2
<1>7. CASE UNCHANGED vars
  BY <1>7 DEF vars, IInv, TypeOK
<1>8. QED
  BY <1>1, <1>2, <1>3, <1>4, <1>5, <1>6, <1>7 DEF Next

(* The decoder keeps its inductive invariant in every reachable state.    *)
THEOREM IInvInvariant == Spec => []IInv
BY InitIInv, StepIInv, PTL DEF Spec

(* Once ~VideoToolboxDecoder has returned, no outputCb is pending against *)
(* the freed object and no decoding session is left, whatever the         *)
(* interleaving of feeds, deliveries and destruction.                     *)
THEOREM NoCallbackAfterFreeInvariant == Spec => []NoCallbackAfterFree
<1>1. IInv => NoCallbackAfterFree
  BY DEF IInv, NoCallbackAfterFree
<1>2. QED
  BY <1>1, IInvInvariant, PTL

-----------------------------------------------------------------------------
(* _destroying is set exactly while the filter thread is inside            *)
(* destroyDecoder: both are set by its first step and cleared by its last. *)
DestroyingMeansWait == destroying <=> fpc = "wait"

LEMMA InitDestroying == Init => DestroyingMeansWait
BY DEF Init, DestroyingMeansWait

LEMMA StepDestroying ==
  IInv /\ DestroyingMeansWait /\ [Next]_vars => DestroyingMeansWait'
<1> SUFFICES ASSUME IInv, DestroyingMeansWait, [Next]_vars
             PROVE  DestroyingMeansWait'
  OBVIOUS
<1>1. CASE \E newPs, empty, key \in BOOLEAN : Feed(newPs, empty, key)
  <2>1. PICK newPs, empty, key \in BOOLEAN : Feed(newPs, empty, key)
    BY <1>1
  <2>2. ~destroying
    BY <2>1 DEF Feed, DestroyingMeansWait
  <2>3. QED
    BY <2>1, <2>2, Zenon DEF Feed, BeginDestroy, DestroyingMeansWait
<1>2. CASE FeedRest
  <2>1. ~destroying
    BY <1>2 DEF FeedRest, DestroyingMeansWait
  <2>2. QED
    BY <1>2, <2>1, Zenon DEF FeedRest, CreateDecoder, DecodeFrame, BeginDestroy,
       DestroyingMeansWait
<1>3. CASE \E ok \in BOOLEAN : OutputCb(ok)
  BY <1>3 DEF OutputCb, DestroyingMeansWait
<1>4. CASE Fetch
  BY <1>4 DEF Fetch, DestroyingMeansWait
<1>5. CASE EndDestroy
  <2>1. after \in {"idle", "rest", "gone"}
    BY DEF IInv, TypeOK
  <2>2. QED
    BY <1>5, <2>1 DEF EndDestroy, DestroyingMeansWait
<1>6. CASE Destructor
  <2>1. ~destroying
    BY <1>6 DEF Destructor, DestroyingMeansWait
  <2>2. QED
    BY <1>6, <2>1, Zenon DEF Destructor, BeginDestroy, DestroyingMeansWait
<1>7. CASE UNCHANGED vars
  BY <1>7 DEF vars, DestroyingMeansWait
<1>8. QED
  BY <1>1, <1>2, <1>3, <1>4, <1>5, <1>6, <1>7 DEF Next

(* _destroying holds exactly while destroyDecoder runs, in every state.   *)
LEMMA DestroyingInvariant == Spec => [](IInv /\ DestroyingMeansWait)
BY InitIInv, StepIInv, InitDestroying, StepDestroying, PTL DEF Spec

-----------------------------------------------------------------------------
(* Each step of the decoder is a step of the abstract lifecycle or leaves  *)
(* the lifecycle state, the frames in flight and the queue length alone.  *)
LEMMA StepRefines ==
  IInv /\ DestroyingMeansWait /\ [Next]_vars
    => [Lifecycle!Next]_Lifecycle!vars
<1> SUFFICES ASSUME IInv, DestroyingMeansWait, [Next]_vars
             PROVE  [Lifecycle!Next]_Lifecycle!vars
  OBVIOUS
<1> USE DecoderAssumption
<1>1. CASE \E newPs, empty, key \in BOOLEAN : Feed(newPs, empty, key)
  <2>1. PICK newPs, empty, key \in BOOLEAN : Feed(newPs, empty, key)
    BY <1>1
  <2>2. UNCHANGED <<session, inFlight, queue>> /\ fpc = "idle"
    BY <2>1 DEF Feed
  <2>3. CASE newPs /\ session
    <3>1. fpc' = "wait"
      BY <2>1, <2>3 DEF Feed, BeginDestroy
    <3>2. Status = "active" /\ Status' = "closing"
      BY <2>2, <2>3, <3>1 DEF Status
    <3>3. QED
      BY <2>2, <3>2 DEF Lifecycle!Next, Lifecycle!BeginClose
  <2>4. CASE ~(newPs /\ session)
    <3>1. fpc' \in {"idle", "rest"}
      BY <2>1, <2>4 DEF Feed
    <3>2. Status' = Status
      BY <2>2, <3>1 DEF Status
    <3>3. QED
      BY <2>2, <3>2 DEF Lifecycle!vars
  <2>5. QED
    BY <2>3, <2>4
<1>2. CASE FeedRest
  <2>1. fpc = "rest" /\ UNCHANGED queue
    BY <1>2 DEF FeedRest
  <2>2. CASE ~gathered
    <3>1. fpc' = "idle" /\ UNCHANGED <<session, inFlight>>
      BY <1>2, <2>2 DEF FeedRest
    <3>2. QED
      BY <2>1, <3>1 DEF Status, Lifecycle!vars
  <2>3. CASE gathered /\ ~session
    <3>1. CreateDecoder
      BY <1>2, <2>3 DEF FeedRest
    <3>2. UNCHANGED inFlight /\ Status = "none"
      BY <2>1, <2>3, <3>1 DEF CreateDecoder, Status
    <3>3. \/ session' /\ fpc' = "rest"
          \/ fpc' = "idle" /\ ~session'
      <4>1. CASE NewFormatDesc /\ \E created \in BOOLEAN :
                                   /\ session' = created
                                   /\ fpc' = IF created THEN "rest" ELSE "idle"
        BY <4>1
      <4>2. CASE fpc' = "idle" /\ UNCHANGED session
        BY <2>3, <4>2
      <4>3. QED
        BY <3>1, <4>1, <4>2 DEF CreateDecoder
    <3>4. Status' = "active" \/ Status' = "none"
      BY <3>3 DEF Status
    <3>5. QED
      BY <2>1, <3>2, <3>4 DEF Lifecycle!Next, Lifecycle!Open, Lifecycle!vars
  <2>4. CASE gathered /\ session
    <3>1. UNCHANGED session /\ Status = "active"
      BY <1>2, <2>1, <2>4 DEF FeedRest, Status
    <3>2. \/ fpc' = "idle" /\ UNCHANGED inFlight
          \/ fpc' = "idle" /\ inFlight < MaxInFlight /\ inFlight' = inFlight + 1
          \/ fpc' = "wait" /\ UNCHANGED inFlight
      BY <1>2, <2>4, Zenon DEF FeedRest, DecodeFrame, BeginDestroy
    <3>3. CASE fpc' = "idle" /\ UNCHANGED inFlight
      BY <2>1, <3>1, <3>3 DEF Status, Lifecycle!vars
    <3>4. CASE fpc' = "idle" /\ inFlight < MaxInFlight /\ inFlight' = inFlight + 1
      BY <2>1, <3>1, <3>4 DEF Status, Lifecycle!Next, Lifecycle!Submit
    <3>5. CASE fpc' = "wait" /\ UNCHANGED inFlight
      BY <2>1, <3>1, <3>5 DEF Status, Lifecycle!Next, Lifecycle!BeginClose
    <3>6. QED
      BY <3>2, <3>3, <3>4, <3>5
  <2>5. QED
    BY <2>2, <2>3, <2>4
<1>3. CASE \E ok \in BOOLEAN : OutputCb(ok)
  <2>1. PICK ok \in BOOLEAN : OutputCb(ok)
    BY <1>3
  <2>2. inFlight > 0 /\ inFlight' = inFlight - 1
        /\ UNCHANGED <<fpc, session, destroying>>
    BY <2>1 DEF OutputCb
  <2>3. session /\ fpc # "gone"
    BY <2>2 DEF IInv
  <2>4. queue \in Seq({"pic", "fail"})
    BY DEF IInv, TypeOK
  <2>5. CASE destroying
    <3>1. UNCHANGED queue /\ Status = "closing" /\ Status' = "closing"
      BY <2>1, <2>2, <2>5 DEF OutputCb, DestroyingMeansWait, Status
    <3>2. QED
      BY <2>2, <3>1 DEF Lifecycle!Next, Lifecycle!Deliver
  <2>6. CASE ~destroying
    <3>1. Len(queue) < MaxQueue
          /\ queue' = Append(queue, IF ok THEN "pic" ELSE "fail")
      BY <2>1, <2>6, Zenon DEF OutputCb
    <3>2. Len(queue') = Len(queue) + 1
      BY <2>4, <3>1
    <3>3. fpc \in {"idle", "rest"}
      BY <2>3, <2>6 DEF DestroyingMeansWait, IInv, TypeOK, Threads
    <3>4. Status = "active" /\ Status' = "active"
      BY <2>2, <2>3, <3>3 DEF Status
    <3>5. QED
      BY <2>2, <3>1, <3>2, <3>4 DEF Lifecycle!Next, Lifecycle!Deliver
  <2>7. QED
    BY <2>5, <2>6
<1>4. CASE Fetch
  <2>1. queue \in Seq({"pic", "fail"}) /\ queue # << >> /\ queue' = Tail(queue)
    BY <1>4 DEF Fetch, IInv, TypeOK
  <2>2. Len(queue) > 0 /\ Len(queue') = Len(queue) - 1
    BY <2>1
  <2>3. UNCHANGED <<fpc, session, inFlight>>
    BY <1>4 DEF Fetch
  <2>4. Status' = Status
    BY <2>3 DEF Status
  <2>5. QED
    BY <2>2, <2>3, <2>4 DEF Lifecycle!Next, Lifecycle!Take
<1>5. CASE EndDestroy
  <2>1. fpc = "wait" /\ inFlight = 0 /\ ~session' /\ fpc' = after
        /\ UNCHANGED <<inFlight, queue>>
    BY <1>5 DEF EndDestroy
  <2>2. after \in {"idle", "rest", "gone"}
    BY DEF IInv, TypeOK
  <2>3. Status = "closing" /\ Status' \in {"none", "gone"}
    BY <2>1, <2>2 DEF Status
  <2>4. QED
    BY <2>1, <2>3 DEF Lifecycle!Next, Lifecycle!Close
<1>6. CASE Destructor
  <2>1. fpc = "idle" /\ UNCHANGED <<session, inFlight, queue>>
    BY <1>6 DEF Destructor
  <2>2. CASE session
    <3>1. fpc' = "wait"
      BY <1>6, <2>2 DEF Destructor, BeginDestroy
    <3>2. Status = "active" /\ Status' = "closing"
      BY <2>1, <2>2, <3>1 DEF Status
    <3>3. QED
      BY <2>1, <3>2 DEF Lifecycle!Next, Lifecycle!BeginClose
  <2>3. CASE ~session
    <3>1. fpc' = "gone"
      BY <1>6, <2>3 DEF Destructor
    <3>2. Status = "none" /\ Status' = "gone"
      BY <2>1, <2>3, <3>1 DEF Status
    <3>3. QED
      BY <2>1, <3>2 DEF Lifecycle!Next, Lifecycle!Retire
  <2>4. QED
    BY <2>2, <2>3
<1>7. CASE UNCHANGED vars
  BY <1>7 DEF vars, Status, Lifecycle!vars
<1>8. QED
  BY <1>1, <1>2, <1>3, <1>4, <1>5, <1>6, <1>7 DEF Next

(* The VideoToolbox decoder, with its filter and VideoToolbox threads,     *)
(* implements the abstract decoder lifecycle of spec 5, for every bound.  *)
THEOREM ImplementsLifecycleHolds == Spec => ImplementsLifecycle
<1>1. Init => Lifecycle!Init
  BY DEF Init, Status, Lifecycle!Init
<1>2. QED
  BY <1>1, StepRefines, DestroyingInvariant, PTL
     DEF Spec, ImplementsLifecycle, Lifecycle!Spec

-----------------------------------------------------------------------------
(* Once destroyDecoder has set _destroying, no decoding result enters      *)
(* _queue until the session is released: outputCb checks _destroying under *)
(* the lock, and the filter thread, the only other writer, is blocked in   *)
(* VTDecompressionSessionWaitForAsynchronousFrames.                        *)
THEOREM NoOutputDuringTeardownHolds == Spec => NoOutputDuringTeardown
<1>1. IInv /\ DestroyingMeansWait /\ [Next]_vars
        => [fpc = "wait" => Len(queue') <= Len(queue)]_vars
  <2> SUFFICES ASSUME IInv, DestroyingMeansWait, [Next]_vars, fpc = "wait"
               PROVE  Len(queue') <= Len(queue)
    BY DEF vars
  <2>1. destroying
    BY DEF DestroyingMeansWait
  <2>2. queue \in Seq({"pic", "fail"})
    BY DEF IInv, TypeOK
  <2>3. CASE \E ok \in BOOLEAN : OutputCb(ok)
    BY <2>1, <2>2, <2>3 DEF OutputCb
  <2>4. CASE EndDestroy
    BY <2>2, <2>4 DEF EndDestroy
  <2>5. CASE UNCHANGED vars
    BY <2>2, <2>5 DEF vars
  <2>6. ~\E newPs, empty, key \in BOOLEAN : Feed(newPs, empty, key)
    BY DEF Feed
  <2>7. ~FeedRest /\ ~Fetch /\ ~Destructor
    BY DEF FeedRest, Fetch, Destructor
  <2>8. QED
    BY <2>3, <2>4, <2>5, <2>6, <2>7 DEF Next
<1>2. QED
  BY <1>1, DestroyingInvariant, PTL DEF Spec, NoOutputDuringTeardown
=============================================================================
