-------------------------- MODULE MediaStreamIterate --------------------------
(***************************************************************************)
(* The periodic tick of a MediaStream (src/src/voip/mediastream.c):        *)
(* media_stream_iterate with media_stream_process_rtcp, and the liveness   *)
(* check media_stream_alive, against the transport thread of oRTP that      *)
(* counts received RTP packets and posts events.                           *)
(*                                                                         *)
(* A received RTCP packet reaches the stream twice: through the event      *)
(* dispatcher (evd), which runs the TMMBR handler registered by            *)
(* media_stream_init, and through the event queue (evq), whose drain feeds *)
(* the bitrate controller, the quality indicator and the stream's own      *)
(* hook.  The tick is two steps of the application thread, the dispatcher  *)
(* and the drain, so that the transport thread can post between them.      *)
(* ms_time has a resolution of one second; the clock is monotonic here.    *)
(***************************************************************************)
EXTENDS Naturals, Sequences

CONSTANTS
  MaxTime,      \* the last second of a run
  Timeout,      \* the timeout argument of media_stream_alive, in seconds
  MaxPackets,   \* RTCP packets received over a run
  MaxRecv       \* RTP packets received over a run

ASSUME IterateAssumption ==
  /\ MaxTime \in Nat \ {0}
  /\ Timeout \in Nat
  /\ MaxPackets \in Nat
  /\ MaxRecv \in Nat

(* The 15 s after start during which RTCP reports use the initial         *)
(* interval; an MC module may scale it down with the clock.               *)
BeginningPeriod == 15

VARIABLES
  now,              \* ms_time(NULL)
  started,          \* stream->state == MSStreamStarted
  startTime,        \* stream->start_time
  isBeginning,      \* stream->is_beginning
  lastIterateTime,  \* stream->last_iterate_time
  sendOnly,         \* stream->direction == MediaStreamSendOnly
  qiLocal,          \* local quality-indicator updates made in second now
  recv,             \* rtp_session_get_stats(...)->recv, counted by oRTP
  lastPacketCount,  \* stream->last_packet_count
  lastPacketTime,   \* stream->last_packet_time
  lastSeen,         \* the last second an RTP packet was received or an
                    \* RTCP packet processed
  evdq,             \* RTCP packets the dispatcher has still to dispatch
  evq,              \* events in the stream's queue: a packet number, or 0
                    \* for an event of another kind
  nextPacket,       \* RTCP packets received so far
  handled,          \* the stream's handlings of RTCP packets, in order
  tpc,              \* the application thread: "idle", or "drain" between
                    \* the dispatcher and the drain of one tick
  tickTime,         \* curtime of the tick in progress
  alive             \* the last call of media_stream_alive: when, its result,
                    \* and lastSeen at that time

vars == <<now, started, startTime, isBeginning, lastIterateTime, sendOnly, qiLocal,
          recv, lastPacketCount, lastPacketTime, lastSeen, evdq, evq, nextPacket,
          handled, tpc, tickTime, alive>>

Paths == {"tmmbr", "rtcp"}

MaxOf(a, b) == IF a < b THEN b ELSE a

(* The handlings, along path, of the RTCP packets of queue q.             *)
Handlings(q, path) == [i \in 1..Len(q) |-> [id |-> q[i], path |-> path]]

-----------------------------------------------------------------------------
(* The stream is made, in the Idle state, by the stream constructor.      *)
Init ==
  /\ now = 0
  /\ started = FALSE
  /\ startTime = 0
  /\ isBeginning = TRUE
  /\ lastIterateTime = 0
  /\ sendOnly \in BOOLEAN
  /\ qiLocal = 0
  /\ recv = 0
  /\ lastPacketCount = 0
  /\ lastPacketTime = 0
  /\ lastSeen = 0
  /\ evdq = << >>
  /\ evq = << >>
  /\ nextPacket = 0
  /\ handled = << >>
  /\ tpc = "idle"
  /\ tickTime = 0
  /\ alive = [at |-> 0, ok |-> TRUE, seen |-> 0]

(* The start function of the stream type records the start time and takes *)
(* it as the time of the last packet.                                      *)
Start ==
  /\ ~started /\ tpc = "idle"
  /\ started' = TRUE
  /\ startTime' = now
  /\ lastPacketTime' = now
  /\ UNCHANGED <<now, isBeginning, lastIterateTime, sendOnly, qiLocal, recv,
                 lastPacketCount, lastSeen, evdq, evq, nextPacket, handled, tpc,
                 tickTime, alive>>

(* One second passes.                                                      *)
ClockTick ==
  /\ now < MaxTime
  /\ now' = now + 1
  /\ qiLocal' = 0
  /\ UNCHANGED <<started, startTime, isBeginning, lastIterateTime, sendOnly, recv,
                 lastPacketCount, lastPacketTime, lastSeen, evdq, evq, nextPacket,
                 handled, tpc, tickTime, alive>>

(* The transport thread receives an RTP packet.                            *)
ReceiveRtp ==
  /\ recv < MaxRecv
  /\ recv' = recv + 1
  /\ lastSeen' = now
  /\ UNCHANGED <<now, started, startTime, isBeginning, lastIterateTime, sendOnly,
                 qiLocal, lastPacketCount, lastPacketTime, evdq, evq, nextPacket,
                 handled, tpc, tickTime, alive>>

(* The transport thread receives an RTCP packet and posts it to the       *)
(* dispatcher's queue and to the stream's queue.                           *)
ReceiveRtcp ==
  /\ nextPacket < MaxPackets
  /\ nextPacket' = nextPacket + 1
  /\ evdq' = Append(evdq, nextPacket + 1)
  /\ evq' = Append(evq, nextPacket + 1)
  /\ UNCHANGED <<now, started, startTime, isBeginning, lastIterateTime, sendOnly,
                 qiLocal, recv, lastPacketCount, lastPacketTime, lastSeen, handled,
                 tpc, tickTime, alive>>

(* The transport thread posts an event of another kind (RTCP emitted,     *)
(* STUN received, ZRTP or DTLS encryption changed).                       *)
PostOther ==
  /\ Len(evq) < MaxPackets
  /\ evq' = Append(evq, 0)
  /\ UNCHANGED <<now, started, startTime, isBeginning, lastIterateTime, sendOnly,
                 qiLocal, recv, lastPacketCount, lastPacketTime, lastSeen, evdq,
                 nextPacket, handled, tpc, tickTime, alive>>

(* media_stream_set_direction.                                             *)
SetDirection(so) ==
  /\ sendOnly' = so
  /\ UNCHANGED <<now, started, startTime, isBeginning, lastIterateTime, qiLocal,
                 recv, lastPacketCount, lastPacketTime, lastSeen, evdq, evq,
                 nextPacket, handled, tpc, tickTime, alive>>

(* Mutant: the quality-indicator throttle compares with >=.              *)
IterateDispatchQiEveryTick ==
  /\ tpc = "idle"
  /\ tickTime' = now
  /\ isBeginning' = (isBeginning /\ ~(started /\ now - startTime > BeginningPeriod))
  /\ qiLocal' = IF started /\ now >= lastIterateTime /\ ~sendOnly
                THEN qiLocal + 1 ELSE qiLocal
  /\ lastIterateTime' = now
  /\ handled' = handled \o Handlings(evdq, "tmmbr")
  /\ evdq' = << >>
  /\ tpc' = "drain"
  /\ UNCHANGED <<now, started, startTime, sendOnly, recv, lastPacketCount,
                 lastPacketTime, lastSeen, evq, nextPacket, alive>>

(* media_stream_iterate up to the dispatcher: curtime is read; a started   *)
(* stream leaves its beginning phase after 15 s and updates its local      *)
(* quality indicator when the second has changed since the last tick,     *)
(* unless it only sends; then ortp_ev_dispatcher_iterate runs the TMMBR    *)
(* handler on every RTCP packet the dispatcher holds.                      *)
IterateDispatch ==
  /\ tpc = "idle"
  /\ tickTime' = now
  /\ isBeginning' = (isBeginning /\ ~(started /\ now - startTime > BeginningPeriod))
  /\ qiLocal' = IF started /\ now > lastIterateTime /\ ~sendOnly
                THEN qiLocal + 1 ELSE qiLocal
  /\ lastIterateTime' = now
  /\ handled' = handled \o Handlings(evdq, "tmmbr")
  /\ evdq' = << >>
  /\ tpc' = "drain"
  /\ UNCHANGED <<now, started, startTime, sendOnly, recv, lastPacketCount,
                 lastPacketTime, lastSeen, evq, nextPacket, alive>>

(* Mutant: media_stream_process_rtcp without the last_packet_time update. *)
IterateDrainNoRefresh ==
  /\ tpc = "drain"
  /\ LET rtcp == SelectSeq(evq, LAMBDA e : e # 0) IN
       /\ handled' = handled \o Handlings(rtcp, "rtcp")
       /\ IF rtcp # << >>
          THEN lastSeen' = MaxOf(lastSeen, tickTime)
          ELSE UNCHANGED lastSeen
  /\ evq' = << >>
  /\ tpc' = "idle"
  /\ UNCHANGED <<now, started, startTime, isBeginning, lastIterateTime, sendOnly,
                 qiLocal, recv, lastPacketCount, lastPacketTime, evdq, nextPacket,
                 tickTime, alive>>

(* The rest of media_stream_iterate: the event queue is drained in order;  *)
(* media_stream_process_rtcp takes each received RTCP packet, setting the *)
(* last packet time to the tick's curtime; other events are only logged   *)
(* or handed to ICE, and every event is destroyed.                         *)
IterateDrain ==
  /\ tpc = "drain"
  /\ LET rtcp == SelectSeq(evq, LAMBDA e : e # 0) IN
       /\ handled' = handled \o Handlings(rtcp, "rtcp")
       /\ IF rtcp # << >>
          THEN /\ lastPacketTime' = tickTime
               /\ lastSeen' = MaxOf(lastSeen, tickTime)
          ELSE UNCHANGED <<lastPacketTime, lastSeen>>
  /\ evq' = << >>
  /\ tpc' = "idle"
  /\ UNCHANGED <<now, started, startTime, isBeginning, lastIterateTime, sendOnly,
                 qiLocal, recv, lastPacketCount, evdq, nextPacket, tickTime, alive>>

(* Mutant: the timeout compared with >= instead of >.                    *)
StreamAliveOffByOne ==
  /\ tpc = "idle"
  /\ IF started /\ recv # 0 /\ recv # lastPacketCount
     THEN /\ lastPacketCount' = recv
          /\ lastPacketTime' = now
     ELSE UNCHANGED <<lastPacketCount, lastPacketTime>>
  /\ alive' = [at |-> now,
               ok |-> ~started \/ ~(now - lastPacketTime' >= Timeout),
               seen |-> lastSeen]
  /\ UNCHANGED <<now, started, startTime, isBeginning, lastIterateTime, sendOnly,
                 qiLocal, recv, lastSeen, evdq, evq, nextPacket, handled, tpc,
                 tickTime>>

(* media_stream_alive, called by the application between ticks: TRUE      *)
(* before start; otherwise a change of the received-packet count since the *)
(* last call refreshes the last packet time, and the stream is dead when   *)
(* more than timeout seconds have passed since it.                          *)
StreamAlive ==
  /\ tpc = "idle"
  /\ IF started /\ recv # 0 /\ recv # lastPacketCount
     THEN /\ lastPacketCount' = recv
          /\ lastPacketTime' = now
     ELSE UNCHANGED <<lastPacketCount, lastPacketTime>>
  /\ alive' = [at |-> now,
               ok |-> ~started \/ ~(now - lastPacketTime' > Timeout),
               seen |-> lastSeen]
  /\ UNCHANGED <<now, started, startTime, isBeginning, lastIterateTime, sendOnly,
                 qiLocal, recv, lastSeen, evdq, evq, nextPacket, handled, tpc,
                 tickTime>>

Next ==
  \/ Start
  \/ ClockTick
  \/ ReceiveRtp
  \/ ReceiveRtcp
  \/ PostOther
  \/ \E so \in BOOLEAN : SetDirection(so)
  \/ IterateDispatch
  \/ IterateDrain
  \/ StreamAlive

Spec == Init /\ [][Next]_vars

-----------------------------------------------------------------------------
TypeOK ==
  /\ now \in 0..MaxTime
  /\ started \in BOOLEAN
  /\ startTime \in 0..MaxTime
  /\ isBeginning \in BOOLEAN
  /\ lastIterateTime \in 0..MaxTime
  /\ sendOnly \in BOOLEAN
  /\ qiLocal \in Nat
  /\ recv \in 0..MaxRecv
  /\ lastPacketCount \in 0..MaxRecv
  /\ lastPacketTime \in 0..MaxTime
  /\ lastSeen \in 0..MaxTime
  /\ evdq \in Seq(1..MaxPackets)
  /\ evq \in Seq(0..MaxPackets)
  /\ nextPacket \in 0..MaxPackets
  /\ handled \in Seq([id : 1..MaxPackets, path : Paths])
  /\ tpc \in {"idle", "drain"}
  /\ tickTime \in 0..MaxTime
  /\ alive \in [at : 0..MaxTime, ok : BOOLEAN, seen : 0..MaxTime]

(* Spec 4.6: media_stream_alive reports a started stream dead only when,   *)
(* at the time of the call, no RTP packet had been received and no RTCP    *)
(* packet processed for more than timeout seconds.                         *)
DeadMeansSilent ==
  ~alive.ok => alive.at - alive.seen > Timeout

(* Spec 3: the local quality indicator is sampled at most once per         *)
(* wall-clock second, however often the stream is iterated.               *)
QiLocalOncePerSecond == qiLocal <= 1

(* Spec 5: the RTCP packets are handled in the order they arrived: no      *)
(* handling of a packet, by the TMMBR handler or by the RTCP processing,   *)
(* comes after a handling of a later packet.                               *)
ArrivalOrder ==
  \A i, j \in 1..Len(handled) : i < j => handled[i].id <= handled[j].id

=============================================================================
