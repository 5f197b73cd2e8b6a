--------------------------- MODULE MC_TmmbrControl ---------------------------
(* A small instance of TmmbrControl: INT_MAX is 6, so a TMMBR of 9 stands   *)
(* for a 64-bit value above INT_MAX; a ceiling of 4 cuts the larger values; *)
(* a duplicate rate of 2 halves audio TMMBRs; the streams are an audio      *)
(* stream with its estimator, a text stream, a video stream with the        *)
(* quality controller, a custom-preset video stream whose encoder offers    *)
(* the limits {2, 5}, one whose encoder offers no list, and a stream        *)
(* without an encoder.                                                      *)
EXTENDS TmmbrControl

MCSetups ==
  { [type |-> "audio", encoder |-> TRUE, estimator |-> TRUE, custom |-> FALSE, vconfs |-> {}],
    [type |-> "text", encoder |-> TRUE, estimator |-> FALSE, custom |-> FALSE, vconfs |-> {}],
    [type |-> "video", encoder |-> TRUE, estimator |-> FALSE, custom |-> FALSE, vconfs |-> {}],
    [type |-> "video", encoder |-> TRUE, estimator |-> FALSE, custom |-> TRUE, vconfs |-> {2, 5}],
    [type |-> "video", encoder |-> TRUE, estimator |-> FALSE, custom |-> TRUE, vconfs |-> {}],
    [type |-> "audio", encoder |-> FALSE, estimator |-> FALSE, custom |-> FALSE, vconfs |-> {}] }

(* Audio streams only, for the check of the spec's idempotence claim.      *)
MCAudioSetups ==
  { [type |-> "audio", encoder |-> TRUE, estimator |-> TRUE, custom |-> FALSE, vconfs |-> {}] }
=============================================================================
