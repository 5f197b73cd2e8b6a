------------------------ MODULE MediaCodecH264Decoder ------------------------
(***************************************************************************)
(* The Android MediaCodec H.264 decoder filter                             *)
(* (src/src/voip/h26x/media-codec-h264-decoder.cpp): the decoder object's  *)
(* reset-on-new-SPS mode and its copy _lastSps, and the filter's           *)
(* out-of-band parameter sets _sps and _pps.                               *)
(*                                                                         *)
(* An mblk_t is a block id 1..MaxBlocks; allocb, dupb and dupmsg each      *)
(* make a new one (a new header the holder must freemsg), and freemsg     *)
(* adds it to freed.  A parameter set's bytes are abstracted to a         *)
(* content <<size, variant>>: the video size its SPS announces and what   *)
(* else tells two sets apart for memcmp.  Only the contents of the blocks *)
(* the three fields point at are ever read, so they are kept per field.   *)
(***************************************************************************)
EXTENDS Naturals, FiniteSets

CONSTANTS
  Sizes,       \* video sizes an SPS may announce
  Variants,    \* SPSs/PPSs of the same size that differ in their bytes
  Devices,     \* DeviceInfo records of the phones the filter may run on
  TvDevices,   \* the _tvDevices table
  MaxBlocks    \* mblk_t headers the run may allocate

ASSUME MediaCodecAssumption ==
  /\ MaxBlocks \in Nat
  /\ 0 \notin Sizes
  /\ TvDevices \subseteq Devices

Contents == Sizes \X Variants
NoContent == <<0, 0>>
SizeOf(c) == c[1]
Fields == {"last", "sps", "pps"}

\* DeviceInfo::operator== and DeviceInfo::weakEquals.
DeviceEquals(a, b) ==
  a.manufacturer = b.manufacturer /\ a.model = b.model /\ a.platform = b.platform
WeakEquals(a, b) == a.manufacturer = b.manufacturer /\ a.platform = b.platform

VARIABLES
  resetOnPs,   \* _resetOnPsReceiving
  fmt,         \* width/height of the decoder's _format
  lastSps,     \* _lastSps of the decoder (0 = nullptr)
  sps, pps,    \* _sps and _pps of the filter (0 = nullptr)
  handed,      \* blocks given to the NAL unpacker by setOutOfBandSpsPps
  nextBlk,     \* blocks allocated so far (ids 1..nextBlk)
  cont,        \* the bytes _lastSps, _sps and _pps point at
  freed,       \* blocks released by freemsg
  alive        \* the filter (and its decoder) not yet destroyed

vars == <<resetOnPs, fmt, lastSps, sps, pps, handed, nextBlk, cont, freed, alive>>

Live == (1..nextBlk) \ freed
New == nextBlk + 1
Free(b) == IF b = 0 THEN {} ELSE {b}

(* The MediaCodecH264Decoder constructor: reset mode on an exact match of  *)
(* a TV device, or on a match of manufacturer and platform.  The format    *)
(* starts at some size chosen by MediaCodecDecoder.                       *)
Init ==
  /\ \E info \in Devices :
       resetOnPs = ((\E d \in TvDevices : DeviceEquals(info, d))
                    \/ (\E d \in TvDevices : WeakEquals(info, d)))
  /\ fmt \in Sizes
  /\ lastSps = 0 /\ sps = 0 /\ pps = 0
  /\ handed = {}
  /\ nextBlk = 0
  /\ cont = [f \in Fields |-> NoContent]
  /\ freed = {}
  /\ alive = TRUE

(* addFmtp with a sprop-parameter-sets value "sps,pps": two blocks are    *)
(* allocated and stored in _sps and _pps; the blocks these held before    *)
(* are not freed.  A value without a comma changes nothing.               *)
AddFmtp(s, p) ==
  /\ alive
  /\ nextBlk + 2 <= MaxBlocks
  /\ sps' = New /\ pps' = New + 1
  /\ cont' = [cont EXCEPT !["sps"] = s, !["pps"] = p]
  /\ nextBlk' = nextBlk + 2
  /\ UNCHANGED <<resetOnPs, fmt, lastSps, handed, freed, alive>>

(* process: when both are set, _sps and _pps go to the unpacker and are   *)
(* forgotten; the base class then decodes (no state of this model).       *)
ProcessNoNull ==
  /\ alive
  /\ sps # 0 /\ pps # 0
  /\ handed' = handed \cup {sps, pps}
  /\ UNCHANGED <<resetOnPs, fmt, lastSps, sps, pps, nextBlk, cont, freed, alive>>

Process ==
  /\ alive
  /\ sps # 0 /\ pps # 0
  /\ handed' = handed \cup {sps, pps}
  /\ sps' = 0 /\ pps' = 0
  /\ cont' = [cont EXCEPT !["sps"] = NoContent, !["pps"] = NoContent]
  /\ UNCHANGED <<resetOnPs, fmt, lastSps, nextBlk, freed, alive>>

(* checkSpsChange(sps): a first SPS is copied into _sps (updateSps); an   *)
(* SPS differing in size or bytes replaces _sps and drops _pps            *)
(* (updateSps, updatePps(nullptr)); the same SPS changes nothing.  Both   *)
(* update helpers free the block they replace.                            *)
CheckSpsChange(c) ==
  /\ alive
  /\ cont["sps"] # c
  /\ nextBlk < MaxBlocks
  /\ sps' = New
  /\ nextBlk' = nextBlk + 1
  /\ IF sps = 0
       THEN /\ cont' = [cont EXCEPT !["sps"] = c]
            /\ UNCHANGED <<pps, freed>>
       ELSE /\ cont' = [cont EXCEPT !["sps"] = c, !["pps"] = NoContent]
            /\ pps' = 0
            /\ freed' = freed \cup Free(sps) \cup Free(pps)
  /\ UNCHANGED <<resetOnPs, fmt, lastSps, handed, alive>>

(* checkPpsChange(pps): a first or a different PPS replaces _pps          *)
(* (updatePps frees the old block and stores a dupb of the new one).      *)
CheckPpsChange(c) ==
  /\ alive
  /\ cont["pps"] # c
  /\ nextBlk < MaxBlocks
  /\ pps' = New
  /\ cont' = [cont EXCEPT !["pps"] = c]
  /\ nextBlk' = nextBlk + 1
  /\ freed' = freed \cup Free(pps)
  /\ UNCHANGED <<resetOnPs, fmt, lastSps, sps, handed, alive>>

(* Mutant: isNewPps reports a different SPS as new but keeps the old copy. *)
IsNewPpsNoRefresh(c) ==
  IF lastSps = 0
    THEN /\ lastSps' = New /\ cont' = [cont EXCEPT !["last"] = c]
         /\ nextBlk' = nextBlk + 1 /\ freed' = freed
    ELSE UNCHANGED <<lastSps, cont, nextBlk, freed>>

(* isNewPps(sps) when it returns true: _lastSps becomes a dupmsg of sps,  *)
(* the previous copy freed.                                               *)
IsNewPps(c) ==
  /\ lastSps' = New
  /\ cont' = [cont EXCEPT !["last"] = c]
  /\ nextBlk' = nextBlk + 1
  /\ freed' = freed \cup Free(lastSps)

(* One SPS of the queue setParameterSets walks in reset mode: if it is    *)
(* new (no _lastSps, or different size or bytes) and announces another    *)
(* size than the format's, the format takes that size and the codec is    *)
(* stopped and restarted.  The SPSs of one queue are successive steps;    *)
(* nothing else of the model runs between them in the code, and the other *)
(* steps touch none of these variables.  Without reset mode, and for an   *)
(* SPS equal to _lastSps, the call only reaches the base class.           *)
SetParameterSets(c) ==
  /\ alive
  /\ resetOnPs
  /\ cont["last"] # c
  /\ nextBlk < MaxBlocks
  /\ IsNewPps(c)
  /\ fmt' = SizeOf(c)
  /\ UNCHANGED <<resetOnPs, sps, pps, handed, alive>>

(* The filter's destructor frees _sps and _pps, the decoder's frees       *)
(* _lastSps.                                                               *)
Destroy ==
  /\ alive
  /\ alive' = FALSE
  /\ freed' = freed \cup Free(sps) \cup Free(pps) \cup Free(lastSps)
  /\ UNCHANGED <<resetOnPs, fmt, lastSps, sps, pps, handed, nextBlk, cont>>

Next ==
  \/ \E s, p \in Contents : AddFmtp(s, p)
  \/ Process
  \/ \E c \in Contents : CheckSpsChange(c) \/ CheckPpsChange(c) \/ SetParameterSets(c)
  \/ Destroy

Spec == Init /\ [][Next]_vars

-----------------------------------------------------------------------------
TypeOK ==
  /\ resetOnPs \in BOOLEAN
  /\ fmt \in Sizes
  /\ {lastSps, sps, pps} \subseteq 0..nextBlk
  /\ handed \subseteq 1..nextBlk
  /\ nextBlk \in 0..MaxBlocks
  /\ cont \in [Fields -> Contents \cup {NoContent}]
  /\ freed \subseteq 1..nextBlk
  /\ alive \in BOOLEAN

(* In reset-on-new-SPS mode the decoder's format always has the size of   *)
(* the last SPS it kept (isNewPps with the size check of                  *)
(* setParameterSets): a resolution change in the stream restarts the      *)
(* codec at the new size and is never missed.                             *)
FormatTracksSps ==
  resetOnPs /\ lastSps # 0 => fmt = SizeOf(cont["last"])

(* The unpacker owns the blocks process hands it: no later checkSpsChange, *)
(* checkPpsChange or destructor of the filter frees one of them.          *)
NoFreeOfHanded == handed \cap freed = {}

(* Every block allocated and not yet freed is held by one of _sps, _pps,  *)
(* _lastSps of a live filter, or by the unpacker: nothing leaks, across   *)
(* repeated addFmtp calls and teardown.                                    *)
NoOrphanBlock ==
  \A b \in Live : b \in handed \/ (alive /\ b \in {sps, pps, lastSps})

=============================================================================
