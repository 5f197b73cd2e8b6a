------------------------- MODULE TmmbrControlProofs -------------------------
(***************************************************************************)
(* Proofs, for every INT_MAX, duplicate rate and set of inputs allowed by  *)
(* TmmbrAssumption, that every upload limit the TMMBR handling records   *)
(* fits in an int and respects the max_target_bitrate in force, and that *)
(* a TMMBR repeating the recorded limit never reaches the encoder.        *)
(***************************************************************************)
EXTENDS TmmbrControl, TLAPS

(* The part of the state the bound depends on keeps its type; the        *)
(* encoder's bitrate and the controller's ceiling, which the proof does   *)
(* not need, are left to TLC.                                             *)
BoundInv ==
  /\ st \in Setup
  /\ upload \in Nat
  /\ maxTarget \in Int
  /\ targetBitrate \in Int
  /\ called \in BOOLEAN

(* The limit a TMMBR yields is a natural within INT_MAX and the ceiling.  *)
LEMMA LimitBounds ==
  ASSUME BoundInv, NEW v \in Tmmbrs
  PROVE  /\ Limit(v) \in Nat
         /\ Limit(v) <= IntMax
         /\ maxTarget > 0 => Limit(v) <= maxTarget
<1>1. Corrected(v) \in Nat
  <2>1. CASE st.type = "audio" /\ st.estimator
    <3>1. v \div DupRate <= v
      BY TmmbrAssumption, Z3
    <3>2. QED
      BY <2>1, <3>1, TmmbrAssumption DEF Corrected, BoundInv, Setup
  <2>2. CASE ~(st.type = "audio" /\ st.estimator)
    BY <2>2, TmmbrAssumption DEF Corrected, BoundInv, Setup
  <2>3. QED
    BY <2>1, <2>2
<1>2. ToInt(Corrected(v)) \in 0..IntMax
  BY <1>1, TmmbrAssumption DEF ToInt, Corrected
<1>3. QED
  BY <1>2, TmmbrAssumption DEF Limit, Capped, BoundInv

LEMMA InitBoundInv == Init => BoundInv
<1> SUFFICES ASSUME Init PROVE BoundInv
  OBVIOUS
<1>1. st \in Setup
  BY TmmbrAssumption, Zenon DEF Init
<1>2. upload \in Nat /\ targetBitrate \in Int
  BY DEF Init
<1>3. maxTarget = 0 /\ called = FALSE
  BY DEF Init
<1>4. maxTarget \in Int
  BY <1>3, SMT
<1>5. called \in BOOLEAN
  BY <1>3, Zenon
<1>6. QED
  BY <1>1, <1>2, <1>4, <1>5 DEF BoundInv

LEMMA StepBoundInv == BoundInv /\ [Next]_vars => BoundInv'
<1> SUFFICES ASSUME BoundInv, [Next]_vars PROVE BoundInv'
  OBVIOUS
<1>1. CASE \E v \in Tmmbrs : ProcessTmmbr(v)
  <2>1. PICK v \in Tmmbrs : ProcessTmmbr(v)
    BY <1>1
  <2>2. Limit(v) \in Nat
    BY LimitBounds
  <2>3. st' = st /\ maxTarget' = maxTarget
    BY <2>1 DEF ProcessTmmbr
  <2>4. upload' \in Nat /\ targetBitrate' \in Int
    BY <2>1, <2>2 DEF ProcessTmmbr, BoundInv
  <2>5. called' \in BOOLEAN
    BY <2>1 DEF ProcessTmmbr, ApplyToEncoder
  <2>6. QED
    BY <2>3, <2>4, <2>5 DEF BoundInv
<1>2. CASE \E m \in Ceilings : SetMaxNetworkBitrate(m)
  BY <1>2, TmmbrAssumption DEF SetMaxNetworkBitrate, BoundInv
<1>3. CASE \E t \in Targets : SetTargetNetworkBitrate(t)
  BY <1>3, TmmbrAssumption DEF SetTargetNetworkBitrate, BoundInv
<1>4. CASE UNCHANGED vars
  BY <1>4 DEF vars, BoundInv
<1>5. QED
  BY <1>1, <1>2, <1>3, <1>4 DEF Next

(* Every upload limit recorded from a TMMBR fits in an int and respects    *)
(* the max_target_bitrate in force, for any 64-bit value received, any     *)
(* audio duplicate rate and any order of TMMBRs and ceiling changes.       *)
THEOREM LimitWithinBoundsHolds == Spec => LimitWithinBounds
<1>1. BoundInv /\ [Next]_vars => [LimitStepBounded]_vars
  <2> SUFFICES ASSUME BoundInv, [Next]_vars, upload' # upload
               PROVE  /\ upload' <= IntMax
                      /\ (maxTarget > 0 => upload' <= maxTarget)
    BY DEF LimitStepBounded
  <2>1. PICK v \in Tmmbrs : ProcessTmmbr(v)
    <3>1. ~\E m \in Ceilings : SetMaxNetworkBitrate(m)
      BY DEF SetMaxNetworkBitrate
    <3>2. ~\E t \in Targets : SetTargetNetworkBitrate(t)
      BY DEF SetTargetNetworkBitrate
    <3>3. ~UNCHANGED vars
      BY DEF vars
    <3>4. QED
      BY <3>1, <3>2, <3>3 DEF Next
  <2>2. upload' = Limit(v)
    BY <2>1 DEF ProcessTmmbr
  <2>3. QED
    BY <2>2, LimitBounds
<1>2. Spec => []BoundInv
  BY InitBoundInv, StepBoundInv, PTL DEF Spec
<1>3. QED
  BY <1>1, <1>2, PTL DEF Spec, LimitWithinBounds

(* A TMMBR whose limit is the one already recorded, a ceiling change and  *)
(* a target change never reach the encoder or the video quality           *)
(* controller: only a step that records a new upload limit calls them     *)
(* (update_bitrate_limit_from_tmmbr's early return).                      *)
THEOREM NoRepeatPushHolds == Spec => NoRepeatPush
<1>1. [Next]_vars => [upload' = upload => ~called']_vars
  <2>1. ASSUME NEW v \in Tmmbrs, ProcessTmmbr(v) PROVE upload' = upload => ~called'
    <3>1. CASE ~st.encoder \/ Limit(v) = upload
      BY <2>1, <3>1 DEF ProcessTmmbr
    <3>2. CASE st.encoder /\ Limit(v) # upload
      BY <2>1, <3>2 DEF ProcessTmmbr
    <3>3. QED
      BY <3>1, <3>2
  <2>2. ASSUME NEW m \in Ceilings, SetMaxNetworkBitrate(m) PROVE ~called'
    BY <2>2 DEF SetMaxNetworkBitrate
  <2>3. ASSUME NEW t \in Targets, SetTargetNetworkBitrate(t) PROVE ~called'
    BY <2>3 DEF SetTargetNetworkBitrate
  <2>4. QED
    BY <2>1, <2>2, <2>3 DEF Next
<1>2. QED
  BY <1>1, PTL DEF Spec, NoRepeatPush
=============================================================================
