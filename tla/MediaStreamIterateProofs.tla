--------------------- MODULE MediaStreamIterateProofs ---------------------
(***************************************************************************)
(* Proofs, for every clock bound, timeout and packet bound, that           *)
(* media_stream_alive never reports a stream dead that was heard from      *)
(* within the timeout, and that the local quality indicator is updated at  *)
(* most once per second.                                                   *)
(***************************************************************************)
EXTENDS MediaStreamIterate, TLAPS

(* The scalar part of TypeOK.  The queues and the handling log are left  *)
(* out: their types rest on SelectSeq, whose result the provers cannot    *)
(* follow without induction over the queue, and no property below reads  *)
(* them.                                                                   *)
ScalarTypes ==
  /\ now \in 0..MaxTime
  /\ started \in BOOLEAN
  /\ startTime \in 0..MaxTime
  /\ lastIterateTime \in 0..MaxTime
  /\ sendOnly \in BOOLEAN
  /\ qiLocal \in Nat
  /\ recv \in 0..MaxRecv
  /\ lastPacketCount \in 0..MaxRecv
  /\ lastPacketTime \in 0..MaxTime
  /\ lastSeen \in 0..MaxTime
  /\ tpc \in {"idle", "drain"}
  /\ tickTime \in 0..MaxTime
  /\ alive \in [at : 0..MaxTime, ok : BOOLEAN, seen : 0..MaxTime]

(* The clock of media_stream_iterate never runs ahead of ms_time, and the *)
(* count media_stream_alive last saw never exceeds oRTP's.                *)
Clocks ==
  /\ lastSeen <= now /\ lastPacketTime <= now /\ tickTime <= now
  /\ lastIterateTime <= now
  /\ lastPacketCount <= recv

(* Why a dead verdict is sound.  While the count media_stream_alive saw   *)
(* is still oRTP's, the last packet time is at least the last time the    *)
(* stream heard anything: every RTP packet since was seen by a call that  *)
(* set the last packet time to a later now, and every RTCP packet set it  *)
(* to the tick's curtime.  A packet that arrives after the dispatcher     *)
(* read curtime and before the drain has changed the count.              *)
Heard ==
  /\ started /\ recv = lastPacketCount => lastSeen <= lastPacketTime
  /\ tpc = "drain" /\ lastSeen > tickTime => recv # lastPacketCount

(* The throttle: an update in this second means the tick of this second   *)
(* ran, and it set last_iterate_time to now.                               *)
Throttle == qiLocal \in 0..1 /\ (qiLocal = 1 => lastIterateTime = now)

\* ScalarTypes without its record conjunct, which SMT handles separately.
NumTypes ==
  /\ now \in 0..MaxTime
  /\ started \in BOOLEAN
  /\ startTime \in 0..MaxTime
  /\ lastIterateTime \in 0..MaxTime
  /\ sendOnly \in BOOLEAN
  /\ qiLocal \in Nat
  /\ recv \in 0..MaxRecv
  /\ lastPacketCount \in 0..MaxRecv
  /\ lastPacketTime \in 0..MaxTime
  /\ lastSeen \in 0..MaxTime
  /\ tpc \in {"idle", "drain"}
  /\ tickTime \in 0..MaxTime

IInv == ScalarTypes /\ Clocks /\ Heard /\ Throttle /\ DeadMeansSilent

-----------------------------------------------------------------------------
\* A record of media_stream_alive with times within the run is typed.
LEMMA SplitTypes ==
  ScalarTypes <=> NumTypes /\ alive \in [at : 0..MaxTime, ok : BOOLEAN, seen : 0..MaxTime]
  BY Zenon DEF ScalarTypes, NumTypes

LEMMA SplitTypesNext ==
  ScalarTypes' <=> NumTypes' /\ alive' \in [at : 0..MaxTime, ok : BOOLEAN, seen : 0..MaxTime]
  BY Zenon DEF ScalarTypes, NumTypes

LEMMA AliveType ==
  ASSUME NEW a \in 0..MaxTime, NEW b \in BOOLEAN, NEW c \in 0..MaxTime
  PROVE  [at |-> a, ok |-> b, seen |-> c] \in [at : 0..MaxTime, ok : BOOLEAN, seen : 0..MaxTime]
  BY Zenon

LEMMA InitInv == Init => IInv
<1> SUFFICES ASSUME Init PROVE IInv
  OBVIOUS
<1>1. alive \in [at : 0..MaxTime, ok : BOOLEAN, seen : 0..MaxTime]
  <2>1. 0 \in 0..MaxTime
    BY IterateAssumption
  <2>2. QED
    BY <2>1, AliveType DEF Init
<1>2. ScalarTypes
  <2>1. /\ now = 0 /\ startTime = 0 /\ lastIterateTime = 0 /\ qiLocal = 0
        /\ recv = 0 /\ lastPacketCount = 0 /\ lastPacketTime = 0 /\ lastSeen = 0
        /\ tickTime = 0 /\ tpc = "idle" /\ started = FALSE /\ sendOnly \in BOOLEAN
    BY DEF Init
  <2>2. NumTypes
    <3>1. /\ now \in 0..MaxTime /\ startTime \in 0..MaxTime
          /\ lastIterateTime \in 0..MaxTime /\ qiLocal \in Nat
          /\ recv \in 0..MaxRecv /\ lastPacketCount \in 0..MaxRecv
          /\ lastPacketTime \in 0..MaxTime /\ lastSeen \in 0..MaxTime
          /\ tickTime \in 0..MaxTime
      BY <2>1, IterateAssumption
    <3>2. started \in BOOLEAN /\ sendOnly \in BOOLEAN /\ tpc \in {"idle", "drain"}
      BY <2>1, Zenon
    <3>3. QED
      BY <3>1, <3>2, Zenon DEF NumTypes
  <2>3. QED
    BY <1>1, <2>2, SplitTypes
<1>3. QED
  BY <1>2 DEF Init, IInv, Clocks, Heard, Throttle, DeadMeansSilent

LEMMA StepInv == IInv /\ [Next]_vars => IInv'
<1> SUFFICES ASSUME IInv, [Next]_vars PROVE IInv'
  OBVIOUS
<1> USE IterateAssumption DEF IInv, ScalarTypes, Clocks, Heard, Throttle, DeadMeansSilent
<1>1. CASE Start
  BY <1>1 DEF Start
<1>2. CASE ClockTick
  BY <1>2 DEF ClockTick
<1>3. CASE ReceiveRtp
  BY <1>3 DEF ReceiveRtp
<1>4. CASE ReceiveRtcp
  BY <1>4 DEF ReceiveRtcp
<1>5. CASE PostOther
  BY <1>5 DEF PostOther
<1>6. ASSUME NEW so \in BOOLEAN, SetDirection(so) PROVE IInv'
  BY <1>6 DEF SetDirection
<1>7. CASE IterateDispatch
  BY <1>7 DEF IterateDispatch
<1>8. CASE IterateDrain
  <2> DEFINE rtcp == SelectSeq(evq, LAMBDA e : e # 0)
  <2>1. CASE rtcp # << >>
    BY <1>8, <2>1 DEF IterateDrain, MaxOf
  <2>2. CASE rtcp = << >>
    BY <1>8, <2>2 DEF IterateDrain
  <2>3. QED
    BY <2>1, <2>2
<1>9. CASE StreamAlive
  <2>1. alive' = [at |-> now, ok |-> ~started \/ ~(now - lastPacketTime' > Timeout),
                  seen |-> lastSeen]
    BY <1>9 DEF StreamAlive
  <2>2. alive' \in [at : 0..MaxTime, ok : BOOLEAN, seen : 0..MaxTime]
    BY <2>1, AliveType
  <2>7. /\ alive'.ok = (~started \/ ~(now - lastPacketTime' > Timeout))
        /\ alive'.at = now /\ alive'.seen = lastSeen
    BY <2>1
  <2>6. /\ now' = now /\ started' = started /\ startTime' = startTime
        /\ lastIterateTime' = lastIterateTime /\ sendOnly' = sendOnly
        /\ qiLocal' = qiLocal /\ recv' = recv /\ lastSeen' = lastSeen
        /\ tpc' = tpc /\ tickTime' = tickTime /\ tpc = "idle"
    BY <1>9 DEF StreamAlive
  <2>3. CASE started /\ recv # 0 /\ recv # lastPacketCount
    <3>1. lastPacketCount' = recv /\ lastPacketTime' = now
      BY <1>9, <2>3 DEF StreamAlive
    <3>2. NumTypes' /\ Clocks' /\ Throttle'
      BY <2>6, <3>1 DEF NumTypes
    <3>6. ScalarTypes'
      BY <3>2, <2>2, SplitTypesNext
    <3>3. Heard'
      BY <2>6, <3>1
    <3>4. DeadMeansSilent'
      <4>0. ~(now - lastPacketTime' > Timeout)
        BY <3>1
      <4>1. alive'.ok
        BY <2>7, <4>0, Zenon
      <4>2. QED
        BY <4>1 DEF DeadMeansSilent
    <3>5. QED
      BY <3>2, <3>3, <3>4, <3>6
  <2>4. CASE ~(started /\ recv # 0 /\ recv # lastPacketCount)
    <3>1. lastPacketCount' = lastPacketCount /\ lastPacketTime' = lastPacketTime
      BY <1>9, <2>4 DEF StreamAlive
    <3>2. started => recv = lastPacketCount
      BY <2>4
    <3>3. NumTypes' /\ Clocks' /\ Throttle' /\ Heard'
      BY <2>6, <3>1 DEF NumTypes
    <3>6. ScalarTypes'
      BY <3>3, <2>2, SplitTypesNext
    <3>4. DeadMeansSilent'
      <4>1. CASE ~started
        BY <2>7, <4>1 DEF DeadMeansSilent
      <4>2. CASE started
        <5>1. lastSeen <= lastPacketTime'
          BY <3>1, <3>2, <4>2
        <5>2. ~alive'.ok => now - lastPacketTime' > Timeout
          BY <2>7, Zenon
        <5>3. now - lastPacketTime' > Timeout => now - lastSeen > Timeout
          BY <5>1, <3>1
        <5>4. alive'.at - alive'.seen = now - lastSeen
          BY <2>7
        <5>5. QED
          BY <5>2, <5>3, <5>4 DEF DeadMeansSilent
      <4>3. QED
        BY <4>1, <4>2
    <3>5. QED
      BY <3>3, <3>4, <3>6
  <2>5. QED
    BY <2>3, <2>4
<1>10. CASE UNCHANGED vars
  BY <1>10 DEF vars
<1>11. QED
  BY <1>1, <1>2, <1>3, <1>4, <1>5, <1>6, <1>7, <1>8, <1>9, <1>10 DEF Next

-----------------------------------------------------------------------------
(* The inductive invariant the iterate run checks holds in every state:   *)
(* ms_time, the tick's curtime and the times media_stream_alive keeps     *)
(* never run ahead of each other, a count of oRTP packets not yet seen by *)
(* media_stream_alive accounts for every packet newer than its last       *)
(* packet time, and the quality indicator throttle holds.                 *)
THEOREM IInvHolds == Spec => []IInv
  BY InitInv, StepInv, PTL DEF Spec

-----------------------------------------------------------------------------
(* media_stream_alive reports a started stream dead only when nothing,    *)
(* RTP or RTCP, was heard from it for more than the timeout before the   *)
(* call, whatever the order of the transport thread's receptions and the *)
(* two halves of media_stream_iterate.                                    *)
THEOREM DeadMeansSilentHolds == Spec => []DeadMeansSilent
<1>1. IInv => DeadMeansSilent
  BY DEF IInv
<1>2. QED
  BY InitInv, StepInv, <1>1, PTL DEF Spec

(* media_stream_iterate updates the local quality indicator at most once  *)
(* in each second of ms_time, however often it is called.                 *)
THEOREM QiLocalOncePerSecondHolds == Spec => []QiLocalOncePerSecond
<1>1. IInv => QiLocalOncePerSecond
  BY DEF IInv, Throttle, QiLocalOncePerSecond
<1>2. QED
  BY InitInv, StepInv, <1>1, PTL DEF Spec
=============================================================================
