-------------------- MODULE MediaCodecH264DecoderProofs --------------------
(***************************************************************************)
(* Proofs, for every number of blocks, device table and set of sizes,     *)
(* that the MediaCodec filter never frees a block it handed to the NAL    *)
(* unpacker, and that in reset mode the codec format follows the last SPS *)
(* the decoder kept.                                                       *)
(***************************************************************************)
EXTENDS MediaCodecH264Decoder, TLAPS

\* The fields of the filter and its decoder that hold a block.
Held == {b \in {sps, pps, lastSps} : b # 0}

(* Every block a field holds was allocated, was neither freed nor handed  *)
(* over, and is held by no other field: allocb, dupb and dupmsg always    *)
(* make a fresh one.  Together with handed \cap freed = {} this is what   *)
(* makes each freemsg of the filter safe.                                 *)
BlockInv ==
  /\ nextBlk \in Nat
  /\ {sps, pps, lastSps} \subseteq 0..nextBlk
  /\ handed \subseteq 1..nextBlk /\ freed \subseteq 1..nextBlk
  /\ handed \cap freed = {}
  /\ alive => Held \cap (handed \cup freed) = {}
  /\ sps # 0 => sps # pps /\ sps # lastSps
  /\ pps # 0 => pps # lastSps

\* The inductive invariant: the types, the block ownership and the format.
IInv == TypeOK /\ BlockInv /\ FormatTracksSps

-----------------------------------------------------------------------------
\* A block allocated by allocb, dupb or dupmsg is fresh.
LEMMA NewIsFresh ==
  ASSUME IInv
  PROVE  /\ New \in Nat \ {0}
         /\ New \notin handed \cup freed \cup {sps, pps, lastSps}
  BY DEF IInv, TypeOK, BlockInv, New

\* The blocks Free of the three fields gives are the ones they hold.
LEMMA FreeIsHeld ==
  Free(sps) \cup Free(pps) \cup Free(lastSps) = Held
  BY DEF Free, Held

\* Clearing or setting a field of cont keeps its type.
LEMMA ContType ==
  ASSUME NEW f \in [Fields -> Contents \cup {NoContent}],
         NEW g \in Fields, NEW h \in Fields,
         NEW a \in Contents \cup {NoContent}, NEW b \in Contents \cup {NoContent}
  PROVE  /\ [f EXCEPT ![g] = a] \in [Fields -> Contents \cup {NoContent}]
         /\ [f EXCEPT ![g] = a, ![h] = b] \in [Fields -> Contents \cup {NoContent}]
  OBVIOUS

\* What the invariant says of the three fields of a live filter, field by field.
LEMMA LiveFields ==
  ASSUME IInv, alive
  PROVE  /\ sps # 0 => sps \notin handed \cup freed /\ sps \in 1..nextBlk
         /\ pps # 0 => pps \notin handed \cup freed /\ pps \in 1..nextBlk
         /\ lastSps # 0 => lastSps \notin handed \cup freed /\ lastSps \in 1..nextBlk
  BY DEF IInv, TypeOK, BlockInv, Held

\* TypeOK of the next state, from the type of each variable.
LEMMA TypeNext ==
  ASSUME resetOnPs' \in BOOLEAN, fmt' \in Sizes,
         sps' \in 0..nextBlk', pps' \in 0..nextBlk', lastSps' \in 0..nextBlk',
         handed' \subseteq 1..nextBlk', nextBlk' \in 0..MaxBlocks,
         cont' \in [Fields -> Contents \cup {NoContent}],
         freed' \subseteq 1..nextBlk', alive' \in BOOLEAN
  PROVE  TypeOK'
  BY Zenon DEF TypeOK

\* BlockInv of the next state, from what holds of each field.
LEMMA BlockNext ==
  ASSUME nextBlk' \in Nat,
         sps' \in 0..nextBlk', pps' \in 0..nextBlk', lastSps' \in 0..nextBlk',
         handed' \subseteq 1..nextBlk', freed' \subseteq 1..nextBlk',
         handed' \cap freed' = {},
         alive' => /\ sps' # 0 => sps' \notin handed' \cup freed'
                   /\ pps' # 0 => pps' \notin handed' \cup freed'
                   /\ lastSps' # 0 => lastSps' \notin handed' \cup freed',
         sps' # 0 => sps' # pps' /\ sps' # lastSps',
         pps' # 0 => pps' # lastSps'
  PROVE  BlockInv'
  BY DEF BlockInv, Held

LEMMA InitInv == Init => IInv
  BY MediaCodecAssumption
  DEF Init, IInv, TypeOK, BlockInv, Held, FormatTracksSps, Fields, NoContent

LEMMA StepInv == IInv /\ [Next]_vars => IInv'
<1> SUFFICES ASSUME IInv, [Next]_vars PROVE IInv'
  OBVIOUS
<1>0. /\ New \in Nat \ {0}
      /\ New \notin handed \cup freed \cup {sps, pps, lastSps}
  BY NewIsFresh
<1>1. ASSUME NEW s \in Contents, NEW p \in Contents, AddFmtp(s, p) PROVE IInv'
  <2>1. TypeOK'
    BY <1>0, <1>1, MediaCodecAssumption DEF AddFmtp, IInv, TypeOK, Fields, New
  <2>2. Held' = {New, New + 1} \cup Free(lastSps)
    BY <1>0, <1>1 DEF AddFmtp, Held, New, Free
  <2>3. BlockInv'
    BY <1>0, <1>1, <2>2 DEF AddFmtp, IInv, TypeOK, BlockInv, Held, New, Free
  <2>4. FormatTracksSps'
    BY <1>1 DEF AddFmtp, IInv, TypeOK, FormatTracksSps, Fields
  <2>5. QED
    BY <2>1, <2>3, <2>4 DEF IInv
<1>2. CASE Process
  <2>1. TypeOK'
    <3>1. cont' \in [Fields -> Contents \cup {NoContent}]
      BY <1>2, ContType DEF Process, IInv, TypeOK, Fields
    <3>2. handed' \subseteq 1..nextBlk'
      <4>1. sps \in 1..nextBlk /\ pps \in 1..nextBlk
        BY <1>2 DEF Process, IInv, TypeOK
      <4>2. handed' = handed \cup {sps, pps} /\ nextBlk' = nextBlk
        BY <1>2 DEF Process
      <4>3. handed \subseteq 1..nextBlk
        BY DEF IInv, TypeOK
      <4>4. QED
        BY <4>1, <4>2, <4>3
    <3>3. QED
      BY <1>2, <3>1, <3>2 DEF Process, IInv, TypeOK, Fields
  <2>2. Held' = Free(lastSps)
    BY <1>2 DEF Process, Held, Free
  <2>3. BlockInv'
    <3>1. {sps, pps} \cap (handed \cup freed) = {} /\ {sps, pps} \subseteq 1..nextBlk
      BY <1>2, LiveFields DEF Process
    <3>2. lastSps # 0 => lastSps \notin handed \cup freed \cup {sps, pps}
      BY <1>2, LiveFields DEF Process, IInv, BlockInv
    <3>3. /\ handed' = handed \cup {sps, pps} /\ freed' = freed /\ nextBlk' = nextBlk
          /\ sps' = 0 /\ pps' = 0 /\ lastSps' = lastSps
      BY <1>2 DEF Process
    <3>4. handed' \cap freed' = {}
      BY <3>1, <3>3 DEF IInv, BlockInv
    <3>5. QED
      BY <2>1, <3>2, <3>3, <3>4, BlockNext DEF IInv, TypeOK, BlockInv
  <2>4. FormatTracksSps'
    BY <1>2 DEF Process, IInv, TypeOK, FormatTracksSps, Fields
  <2>5. QED
    BY <2>1, <2>3, <2>4 DEF IInv
<1>3. ASSUME NEW c \in Contents, CheckSpsChange(c) PROVE IInv'
  <2>0. /\ alive /\ nextBlk < MaxBlocks /\ sps' = New /\ nextBlk' = nextBlk + 1
        /\ resetOnPs' = resetOnPs /\ fmt' = fmt /\ lastSps' = lastSps
        /\ handed' = handed /\ alive' = alive
        /\ sps = 0 => pps' = pps /\ freed' = freed
        /\ sps # 0 => pps' = 0 /\ freed' = freed \cup Free(sps) \cup Free(pps)
    BY <1>3 DEF CheckSpsChange
  <2>2. nextBlk' \in 0..MaxBlocks /\ New \in 1..nextBlk'
    BY <1>0, <2>0, MediaCodecAssumption DEF IInv, TypeOK, BlockInv, New
  <2>3. /\ sps \in 0..nextBlk /\ pps \in 0..nextBlk /\ lastSps \in 0..nextBlk
        /\ handed \subseteq 1..nextBlk /\ freed \subseteq 1..nextBlk
        /\ nextBlk \in Nat /\ MaxBlocks \in Nat
    BY MediaCodecAssumption DEF IInv, TypeOK, BlockInv
  <2>4. FormatTracksSps'
    BY <1>3 DEF CheckSpsChange, IInv, TypeOK, FormatTracksSps, Fields
  <2>5. CASE sps = 0
    <3>f. pps' = pps /\ freed' = freed
      BY <2>0, <2>5
    <3>0. cont' \in [Fields -> Contents \cup {NoContent}]
      <4>1. cont' = [cont EXCEPT !["sps"] = c]
        BY <1>3, <2>5 DEF CheckSpsChange
      <4>2. QED
        BY <4>1, ContType DEF IInv, TypeOK, Fields
    <3>1. TypeOK'
      <4>1. sps' \in 0..nextBlk' /\ pps' \in 0..nextBlk' /\ lastSps' \in 0..nextBlk'
        BY <3>f, <2>0, <2>2, <2>3
      <4>2. handed' \subseteq 1..nextBlk' /\ freed' \subseteq 1..nextBlk'
        BY <3>f, <2>0, <2>3
      <4>3. resetOnPs' \in BOOLEAN /\ fmt' \in Sizes /\ alive' \in BOOLEAN
        BY <2>0 DEF IInv, TypeOK
      <4>4. QED
        BY <4>1, <4>2, <4>3, <3>0, <2>2, TypeNext
    <3>2. pps # 0 => pps \notin handed \cup freed /\ pps # lastSps
      BY <2>0, LiveFields DEF IInv, BlockInv
    <3>3. lastSps # 0 => lastSps \notin handed \cup freed
      BY <2>0, LiveFields
    <3>4. BlockInv'
      <4>1. handed' \cap freed' = {}
        BY <3>f, <2>0 DEF IInv, BlockInv
      <4>2. New \notin handed \cup freed /\ New # pps /\ New # lastSps
        BY <1>0
      <4>3. pps # 0 => pps # lastSps
        BY DEF IInv, BlockInv
      <4>4. QED
        BY <3>f, <2>0, <2>2, <2>3, <3>1, <3>2, <3>3, <4>1, <4>2, <4>3, BlockNext
        DEF TypeOK
    <3>5. QED
      BY <3>1, <3>4, <2>4 DEF IInv
  <2>6. CASE sps # 0
    <3>f. pps' = 0 /\ freed' = freed \cup {sps} \cup Free(pps)
      BY <2>0, <2>6 DEF Free
    <3>0. cont' \in [Fields -> Contents \cup {NoContent}]
      <4>1. cont' = [cont EXCEPT !["sps"] = c, !["pps"] = NoContent]
        BY <1>3, <2>6 DEF CheckSpsChange
      <4>2. QED
        BY <4>1, ContType DEF IInv, TypeOK, Fields
    <3>1. Free(pps) \subseteq 1..nextBlk /\ Free(pps) \cap handed = {}
      BY <2>0, LiveFields DEF Free
    <3>2. sps \in 1..nextBlk /\ sps \notin handed
      BY <2>0, <2>6, LiveFields
    <3>3. TypeOK'
      <4>1. sps' \in 0..nextBlk' /\ pps' \in 0..nextBlk' /\ lastSps' \in 0..nextBlk'
        BY <3>f, <2>0, <2>2, <2>3
      <4>2. handed' \subseteq 1..nextBlk' /\ freed' \subseteq 1..nextBlk'
        <5>1. freed' \subseteq 1..nextBlk
          BY <3>f, <2>3, <3>1, <3>2
        <5>2. QED
          BY <5>1, <2>0, <2>3
      <4>3. resetOnPs' \in BOOLEAN /\ fmt' \in Sizes /\ alive' \in BOOLEAN
        BY <2>0 DEF IInv, TypeOK
      <4>4. QED
        BY <4>1, <4>2, <4>3, <3>0, <2>2, TypeNext
    <3>4. lastSps # 0 => lastSps \notin handed \cup freed \cup {sps} \cup Free(pps)
      BY <2>0, <2>6, LiveFields DEF IInv, BlockInv, Free
    <3>5. BlockInv'
      <4>1. handed' \cap freed' = {}
        BY <3>f, <2>0, <3>1, <3>2 DEF IInv, BlockInv
      <4>2. New \notin handed \cup freed \cup {sps} \cup Free(pps) /\ New # lastSps
        BY <1>0 DEF Free
      <4>3. QED
        BY <3>f, <2>0, <2>2, <2>3, <3>3, <3>4, <4>1, <4>2, BlockNext DEF TypeOK
    <3>6. QED
      BY <3>3, <3>5, <2>4 DEF IInv
  <2>7. QED
    BY <2>5, <2>6
<1>4. ASSUME NEW c \in Contents, CheckPpsChange(c) PROVE IInv'
  BY <1>0, <1>4, MediaCodecAssumption
  DEF CheckPpsChange, IInv, TypeOK, BlockInv, Held, FormatTracksSps, Fields, Free, New
<1>5. ASSUME NEW c \in Contents, SetParameterSets(c) PROVE IInv'
  <2>1. TypeOK'
    BY <1>0, <1>5, MediaCodecAssumption
    DEF SetParameterSets, IsNewPps, IInv, TypeOK, Fields, Free, New, Contents, SizeOf
  <2>2. Held' = Free(sps) \cup Free(pps) \cup {New}
    BY <1>0, <1>5 DEF SetParameterSets, IsNewPps, Held, Free
  <2>3. BlockInv'
    BY <1>0, <1>5, <2>2 DEF SetParameterSets, IsNewPps, IInv, TypeOK, BlockInv, Held, Free, New
  <2>4. FormatTracksSps'
    BY <1>5 DEF SetParameterSets, IsNewPps, IInv, TypeOK, FormatTracksSps, Fields
  <2>5. QED
    BY <2>1, <2>3, <2>4 DEF IInv
<1>6. CASE Destroy
  <2>1. freed' = freed \cup Held
    BY <1>6, FreeIsHeld DEF Destroy
  <2>2. Held \subseteq 1..nextBlk
    BY DEF IInv, TypeOK, Held
  <2>3. BlockInv'
    BY <1>6, <2>1, <2>2 DEF Destroy, IInv, TypeOK, BlockInv, Held
  <2>4. TypeOK'
    BY <1>6, <2>1, <2>2 DEF Destroy, IInv, TypeOK
  <2>5. QED
    BY <1>6, <2>3, <2>4 DEF Destroy, IInv, FormatTracksSps
<1>7. CASE UNCHANGED vars
  BY <1>7 DEF vars, IInv, TypeOK, BlockInv, Held, FormatTracksSps
<1>8. QED
  BY <1>1, <1>2, <1>3, <1>4, <1>5, <1>6, <1>7 DEF Next

-----------------------------------------------------------------------------
(* The filter never frees a block it handed to the NAL unpacker in        *)
(* process: checkSpsChange, checkPpsChange and the destructors free only  *)
(* blocks the fields still own.                                            *)
THEOREM NoFreeOfHandedHolds == Spec => []NoFreeOfHanded
<1>1. IInv => NoFreeOfHanded
  BY DEF IInv, BlockInv, NoFreeOfHanded
<1>2. QED
  BY InitInv, StepInv, <1>1, PTL DEF Spec

(* In reset-on-new-SPS mode the codec format always has the size of the  *)
(* SPS the decoder last kept (isNewPps and setParameterSets).             *)
THEOREM FormatTracksSpsHolds == Spec => []FormatTracksSps
<1>1. IInv => FormatTracksSps
  BY DEF IInv
<1>2. QED
  BY InitInv, StepInv, <1>1, PTL DEF Spec
=============================================================================
