---------------------- MODULE MC_MediaCodecH264Decoder ----------------------
(* Two sizes, so an SPS can change the resolution, and two variants of     *)
(* each, so an SPS can differ from _lastSps without a size change.  Three  *)
(* devices: an entry of _tvDevices, a phone of the same manufacturer and   *)
(* platform but another model, and a phone of neither.  Six blocks allow  *)
(* an addFmtp (two blocks) followed by four single-block allocations: an   *)
(* SPS/PPS change after a handoff and a new SPS kept by setParameterSets,  *)
(* or a second addFmtp that frees the first pair.                          *)
EXTENDS MediaCodecH264Decoder

MCTvDevices ==
  { [manufacturer |-> "rockchip", model |-> "rk3288", platform |-> "rk3288"] }

MCDevices ==
  MCTvDevices \cup
  { [manufacturer |-> "rockchip", model |-> "X10", platform |-> "rk3288"],
    [manufacturer |-> "samsung", model |-> "SM-G991B", platform |-> "exynos2100"] }
=============================================================================
