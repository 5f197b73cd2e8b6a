---------------------------- MODULE TmmbrControl ----------------------------
(***************************************************************************)
(* The adaptive-bitrate reaction of a MediaStream to RTCP TMMBR feedback   *)
(* (src/src/voip/mediastream.c): media_stream_tmmbr_received,              *)
(* media_stream_process_tmmbr and update_bitrate_limit_from_tmmbr, with    *)
(* the user's media_stream_set_target_network_bitrate and                  *)
(* media_stream_set_max_network_bitrate.                                   *)
(*                                                                         *)
(* Bitrates are small naturals; IntMax plays INT_MAX, and a TMMBR value    *)
(* (a uint64_t on the wire) may exceed it.  Whether the encoder accepts a  *)
(* new bitrate or configuration (ms_filter_call_method returning 0) is a   *)
(* nondeterministic choice.                                               *)
(***************************************************************************)
EXTENDS Integers

CONSTANTS
  IntMax,         \* INT_MAX
  Tmmbrs,         \* maximum bitrates a received TMMBR may carry
  Ceilings,       \* values given to media_stream_set_max_network_bitrate
  Targets,        \* values given to media_stream_set_target_network_bitrate
  DupRate,        \* rtp_session_get_audio_bandwidth_estimator_duplicate_rate
  Setups          \* the streams to consider, as records of Setup below

(* What a stream is made of, fixed once it is started: its type, whether  *)
(* it has an encoder, whether the audio duplicate-packet estimator runs,  *)
(* whether its video preset is "custom", and the bitrate limits of the    *)
(* encoder's configuration list for the current size and CPU count ({}    *)
(* when the encoder has no list).                                         *)
Setup == [type : {"audio", "video", "text"}, encoder : BOOLEAN,
          estimator : BOOLEAN, custom : BOOLEAN, vconfs : SUBSET Nat]

ASSUME TmmbrAssumption ==
  /\ IntMax \in Nat \ {0}
  /\ Tmmbrs \subseteq Nat
  /\ Ceilings \subseteq Int
  /\ Targets \subseteq Int
  /\ DupRate \in Nat \ {0}
  /\ Setups \subseteq Setup

VARIABLES
  st,              \* the stream's Setup
  upload,          \* rtp_session_get_target_upload_bandwidth: the recorded limit
  targetBitrate,   \* stream->target_bitrate
  maxTarget,       \* stream->max_target_bitrate (<= 0: no ceiling)
  encoderBitrate,  \* bitrate the encoder runs at (MS_FILTER_SET_BITRATE, or
                   \* required_bitrate of its configuration for video)
  vqc,             \* ceiling last given to the video quality controller,
                   \* or -1 while it has not been created
  called           \* the last step called the encoder or the controller

vars == <<st, upload, targetBitrate, maxTarget, encoderBitrate, vqc, called>>

MinOf(a, b) == IF a < b THEN a ELSE b

(* The audio correction of media_stream_process_tmmbr: duplicated packets  *)
(* inflate the output, so the received value is reduced.                  *)
Corrected(v) ==
  IF st.type = "audio" /\ st.estimator THEN v - v \div DupRate ELSE v

(* The conversion of the uint64_t value to an int, saturating at INT_MAX. *)
ToInt(v) == IF v < IntMax THEN v ELSE IntMax

(* Mutant: the limit compared with max_target_bitrate by >= one too late. *)
CappedOffByOne(br) == IF maxTarget > 0 /\ br > maxTarget + 1 THEN maxTarget ELSE br

(* The capping of update_bitrate_limit_from_tmmbr by max_target_bitrate.  *)
Capped(br) == IF maxTarget > 0 /\ br > maxTarget THEN maxTarget ELSE br

Limit(v) == Capped(ToInt(Corrected(v)))

(* ms_video_find_best_configuration_for_size_and_bitrate, as far as its    *)
(* bitrate limit goes: the largest limit within the requested bitrate, or  *)
(* the smallest configuration when none fits.                             *)
BestLimit(br) ==
  IF \E l \in st.vconfs : l <= br
  THEN CHOOSE l \in st.vconfs : l <= br /\ \A m \in st.vconfs : m <= br => m <= l
  ELSE CHOOSE l \in st.vconfs : \A m \in st.vconfs : l <= m

-----------------------------------------------------------------------------
(* The stream starts with the upload limit and encoder bitrate its start   *)
(* function derived from the negotiated payload, no ceiling and no video   *)
(* quality controller.                                                    *)
Init ==
  /\ st \in Setups
  /\ upload \in Targets \cap Nat
  /\ targetBitrate = upload
  /\ encoderBitrate = upload
  /\ maxTarget = 0
  /\ vqc = -1
  /\ called = FALSE

(* What the encoder runs at after being asked for br: br when it accepts. *)
Push(br) == \E ok \in BOOLEAN : encoderBitrate' = IF ok THEN br ELSE encoderBitrate

(* The encoder-side effect of media_stream_process_tmmbr once the limit br *)
(* has been recorded: a direct bitrate for audio and text; for video, the  *)
(* configuration ladder of the "custom" preset or the quality controller. *)
ApplyToEncoder(br) ==
  \/ /\ st.type # "video"
     /\ Push(br)
     /\ called' = TRUE
     /\ UNCHANGED vqc
  \/ /\ st.type = "video" /\ st.custom /\ st.vconfs # {}
     /\ Push(MinOf(br, BestLimit(br)))
     /\ called' = TRUE
     /\ UNCHANGED vqc
  \/ /\ st.type = "video" /\ st.custom /\ st.vconfs = {}
     /\ called' = FALSE
     /\ UNCHANGED <<encoderBitrate, vqc>>
  \/ /\ st.type = "video" /\ ~st.custom
     /\ vqc' = br
     /\ called' = TRUE
     /\ UNCHANGED encoderBitrate

(* Mutant: the "previous_br_limit == br_limit" early return dropped.     *)
ProcessTmmbrNoSkip(v) ==
  LET br == Limit(v) IN
  \/ /\ ~st.encoder
     /\ called' = FALSE
     /\ UNCHANGED <<st, upload, targetBitrate, maxTarget, encoderBitrate, vqc>>
  \/ /\ st.encoder
     /\ upload' = br
     /\ targetBitrate' = br
     /\ ApplyToEncoder(br)
     /\ UNCHANGED <<st, maxTarget>>

(* A TMMBR sub-packet handed to media_stream_tmmbr_received.  Without an   *)
(* encoder, or when the limit is the one already recorded, nothing        *)
(* happens; otherwise the limit becomes the target and the session's      *)
(* upload bandwidth, and the encoder side is updated.                     *)
ProcessTmmbr(v) ==
  LET br == Limit(v) IN
  \/ /\ ~st.encoder \/ br = upload
     /\ called' = FALSE
     /\ UNCHANGED <<st, upload, targetBitrate, maxTarget, encoderBitrate, vqc>>
  \/ /\ st.encoder /\ br # upload
     /\ upload' = br
     /\ targetBitrate' = br
     /\ ApplyToEncoder(br)
     /\ UNCHANGED <<st, maxTarget>>

(* media_stream_set_max_network_bitrate.                                   *)
SetMaxNetworkBitrate(m) ==
  /\ maxTarget' = m
  /\ called' = FALSE
  /\ UNCHANGED <<st, upload, targetBitrate, encoderBitrate, vqc>>

(* media_stream_set_target_network_bitrate.                                *)
SetTargetNetworkBitrate(t) ==
  /\ targetBitrate' = t
  /\ called' = FALSE
  /\ UNCHANGED <<st, upload, maxTarget, encoderBitrate, vqc>>

Next ==
  \/ \E v \in Tmmbrs : ProcessTmmbr(v)
  \/ \E m \in Ceilings : SetMaxNetworkBitrate(m)
  \/ \E t \in Targets : SetTargetNetworkBitrate(t)

Spec == Init /\ [][Next]_vars

-----------------------------------------------------------------------------
TypeOK ==
  /\ st \in Setup
  /\ upload \in Nat
  /\ targetBitrate \in Int
  /\ maxTarget \in Int
  /\ encoderBitrate \in Nat
  /\ vqc \in Nat \cup {-1}
  /\ called \in BOOLEAN

(* Spec 8: a TMMBR that yields the limit already recorded is a no-op: no   *)
(* step that leaves the session's upload limit as it was calls the         *)
(* encoder or the video quality controller (update_bitrate_limit_from_tmmbr *)
(* returning -1 before media_stream_process_tmmbr reaches them).          *)
NoRepeatPush == [][upload' = upload => ~called']_vars

LimitStepBounded ==
  upload' # upload => /\ upload' <= IntMax
                      /\ (maxTarget > 0 => upload' <= maxTarget)

(* Every limit a TMMBR records fits in an int and respects the ceiling in *)
(* force when it is recorded, whatever the raw 64-bit value and the audio *)
(* correction were.                                                       *)
LimitWithinBounds == [][LimitStepBounded]_vars

=============================================================================
