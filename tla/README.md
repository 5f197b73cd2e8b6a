# TLA+ models of the mediastreamer2 stream session controller

This directory holds the formal models of `src/src/voip/mediastream.c` (the
MediaStream core and its SDES crypto-suite conversions),
`src/src/voip/h26x/videotoolbox-decoder.cpp` (the asynchronous VideoToolbox
decoder) and `src/src/voip/h26x/media-codec-h264-decoder.cpp` (the Android
MediaCodec H.264 decoder). It also holds the TLC configurations that
check the models and the TLAPS proofs of their main invariants. `PROJECT.json`
is the machine-readable index. It lists the components, the runs, the mutants,
the map from each definition to the source lines it models, the findings, the
hazards and the theorems.

## 1. Inventory

### Components, state and operations

| Component | Source | State | Operations that change it |
|---|---|---|---|
| Session aggregate (`MSMediaStreamSessions` inside `MediaStream`) | mediastream.c 112-259, 299-354, 556-559, 970-996 | `rtp_session`, `srtp_context`, `zrtp_context`, `dtls_context`, `ticker`, `fec_session` pointers; `owns_sessions`; `stun_allowed`; `ice_check_list`; the back-pointers that the ZRTP and DTLS contexts hold to the struct | `media_stream_init`, `media_stream_start_ticker`, `media_stream_enable_dtls`, `media_stream_enable_srtp`, the ZRTP enabler, `media_stream_set_ice_check_list`, `media_stream_set_stun_allowed`, `media_stream_configure_stun_packet_sending`, `media_stream_handle_fec`, `media_stream_reclaim_sessions`, `media_stream_free`, `ms_media_stream_sessions_uninit` |
| Adaptive bitrate (TMMBR) | mediastream.c 526-534, 812-910 | the session's target upload bandwidth, `target_bitrate`, `max_target_bitrate`, the encoder's bitrate or configuration, `video_quality_controller` | `media_stream_tmmbr_received`, `media_stream_process_tmmbr`, `update_bitrate_limit_from_tmmbr`, `media_stream_set_target_network_bitrate`, `media_stream_set_max_network_bitrate` |
| Tick, RTCP processing, liveness | mediastream.c 403-496 | `is_beginning`, `start_time`, `last_iterate_time`, `direction`, `last_packet_count`, `last_packet_time`, the event dispatcher's and event queue's pending RTCP | `media_stream_iterate`, `media_stream_process_rtcp`, `media_stream_alive`, `media_stream_set_direction` |
| VideoToolbox decoder | videotoolbox-decoder.cpp 35-268 | `_session`, `_formatDesc`, `_psStore` gathering state, `_freeze`, `_destroying`, `_queue`, and the frames held by VideoToolbox | `feed`, `createDecoder`, `decodeFrame`, `destroyDecoder`, `outputCb` (on the VideoToolbox thread), `fetch`, the destructor |
| FEC coordinator | mediastream.c 938-996 | `fec_session`, `fec_stream` and its parameters, the primary session's jitter compensation | `media_stream_handle_fec`, which calls `media_stream_extract_fec_params` |
| Crypto suite names | mediastream.c 621-737 | none: pure conversions | `ms_crypto_suite_build_from_name_params`, `ms_crypto_suite_to_name_params`, the two classifiers |
| MediaCodec H.264 decoder | media-codec-h264-decoder.cpp 40-208 | the decoder's `_resetOnPsReceiving`, `_lastSps` and format size; the filter's `_sps`, `_pps` | the constructor, `setParameterSets`, `isNewPps`, `addFmtp`, `process`, `checkSpsChange`, `checkPpsChange`, both destructors |
| Ticker priority, transport binding, queries | mediastream.c 45-110, 145-192, 360-401, 498-605 | none of this code's own | environment lookups, configuration calls into oRTP, getters |
| `zrtp.h`, `android_mediacodec.h` | headers | none | declarations only |

### How the parts interact

The stream's start function hands a `MSMediaStreamSessions` to
`media_stream_init`. From then on the stream owns those objects. The ZRTP and
DTLS contexts point back at the struct. The security enablers add contexts to
the struct. `media_stream_enable_dtls` and `media_stream_set_ice_check_list`
then re-decide the STUN keepalive of the rtpsend filter.

Every tick of the scheduler calls `media_stream_iterate`. The tick first runs
the event dispatcher, which calls the TMMBR handler and so the bitrate
controller. It then drains the event queue, whose RTCP packets go through
`media_stream_process_rtcp` and refresh `last_packet_time`. The application
polls `media_stream_alive`.

`media_stream_reclaim_sessions` copies the struct out to the caller and turns
the stream non-owning. `media_stream_free` then skips the uninit, and the
caller uninitialises its copy later.

The VideoToolbox decoder runs on the filter thread. The decoder session
delivers results on its own thread through `outputCb`, under `_mutex`.

The MediaCodec decoder filter receives `sprop-parameter-sets` through
`addFmtp` and hands them to the NAL unpacker in `process`. On TV boxes the
decoder restarts the codec when an SPS announces a new size.

The SDES layer turns a remote `a=crypto` descriptor into a suite with
`ms_crypto_suite_build_from_name_params`, and a suite back into a descriptor
with `ms_crypto_suite_to_name_params`.

### The hard behaviours

- Teardown across reclaim. After a reclaim both the stream and the caller's
  copy point at the same objects, and contexts can be created before or after
  the reclaim. The model tears the stream down first and the copy after it.
  That is the caller's contract: a copy uninitialised first would leave
  `media_stream_free` reading the freed contexts and RTP session
  (mediastream.c:237-245). The copy-first order is therefore not explored.
- Back-pointers from contexts that outlive the stream.
- The order of the keepalive decisions. Dummy STUN can be forced by DTLS and
  must later be turned off by ICE.
- Saturation of 64-bit TMMBR values to an int, the duplicate-rate correction,
  the ceiling, and the idempotence check that compares with the recorded
  limit.
- The order of dispatcher and queue processing within one tick.
- Liveness measured in whole seconds, with sampling.
- A VideoToolbox callback racing `destroyDecoder`, the wait for frames in
  flight, and a session creation that fails half-way.
- Ownership of `mblk_t` blocks passed between the MediaCodec filter, its
  decoder and the NAL unpacker.
- Descriptors outside the crypto table that must be refused.

### Properties that make each part correct

- Session aggregate:
  - no double destroy;
  - no dangling back-pointer;
  - at most one key exchange;
  - ICE cancels forced STUN;
  - no leak at teardown;
  - the ownership and reclaim rule of spec 3 is implemented.
- TMMBR:
  - limits within the int range and the ceiling;
  - no encoder call for a repeated limit.
- Tick:
  - dead only after a real silence longer than the timeout;
  - the quality indicator sampled at most once a second;
  - RTCP handled in arrival order.
- FEC:
  - parameters as the fmtp says, with the documented defaults.
- VideoToolbox decoder:
  - no delivery queued during teardown;
  - nothing in flight and no session after the destructor;
  - every teardown completes;
  - the abstract decoder lifecycle of spec 5 is implemented;
  - every format description released.
- MediaCodec decoder:
  - the codec format follows the last SPS kept;
  - no block handed to the unpacker is freed by the filter;
  - no block is orphaned.
- Crypto suites:
  - the two conversions are inverse on the table of spec 6;
  - every combination outside the table is refused.

## 2. Plan and modules

| Module | Models | Composes |
|---|---|---|
| `MediaStreamSessions` | the session aggregate, security contexts, STUN keepalive, FEC session creation, reclaim and teardown | the core module; INSTANCEs `SessionOwnership` with a refinement mapping |
| `SessionOwnership` | the abstract ownership and reclaim rule of spec 3: create, reclaim, destroy, caller release | the abstract specification |
| `FecCoordinator` | `media_stream_handle_fec` and `media_stream_extract_fec_params` | the FEC session's teardown is in `MediaStreamSessions` |
| `TmmbrControl` | the TMMBR reaction and the two bitrate setters | reads the session's upload bandwidth as its own variable |
| `MediaStreamIterate` | the tick, RTCP processing, TMMBR dispatch order, liveness | packet arrival and the clock as environment actions |
| `VideoToolboxDecoder` | the two-thread decoder | INSTANCEs `VideoDecoderLifecycle` with a refinement mapping |
| `VideoDecoderLifecycle` | the abstract decoder of spec 5: open, submit, deliver, take, close, retire | the abstract specification |
| `MediaCodecH264Decoder` | the Android decoder and its filter | independent |
| `CryptoSuite` | the SDES crypto-suite conversions | independent |
| `MediaStreamSessionsProofs`, `TmmbrControlProofs`, `VideoToolboxDecoderProofs`, `CryptoSuiteProofs`, `MediaCodecH264DecoderProofs`, `MediaStreamIterateProofs` | TLAPS proofs | EXTENDS the module they prove about |
| `MC_*` | TLC instances | EXTENDS the module, small constants |

Planned:

- a composition of `MediaStreamIterate` with `TmmbrControl` through the
  dispatcher.

### How the state and actions correspond to the code

**MediaStreamSessions.** Each pointer field of the struct is a flag in
`sessPtr`, and the reclaimed copy is a flag in `copyPtr`. `created` records
which objects were ever made. `releases` counts the calls of each object's
destroy function, so a double destroy is visible as a count of 2. `backPtr`
is the back-pointer of the ZRTP and DTLS contexts. `stunCfg` and `stunForced`
are the last values given to `MS_RTP_SEND_ENABLE_STUN` and
`MS_RTP_SEND_ENABLE_STUN_FORCED`.

- `Init` is `media_stream_init` applied to any of the `InitContexts`.
- `EnableDtls` is `media_stream_enable_dtls` including its call of
  `ConfigureStun`, which models `media_stream_configure_stun_packet_sending`.
- `SetIceCheckList` is `media_stream_set_ice_check_list` including the same
  re-decision.
- `HandleFec` is the creation of `fec_session` by `media_stream_handle_fec`.
- `MediaStreamFree` nulls the back-pointers, uninitialises only when owning,
  and leaves `fec_session` set, because `ms_media_stream_sessions_uninit`
  (`Uninit`, `Unset`) does not touch it.
- `CopyUninit` is the holder's uninit of the reclaimed copy.
- The ZRTP enabler is not in `src/`, so `EnableZrtp` is modelled from the
  spec.

**FecCoordinator.** An fmtp value is a sequence of character classes:

- a digit 0..9;
- `Minus`;
- `Other`.

`FmtpGetValue` is what the 10-byte buffer of `fmtp_get_value` keeps: at most
9 characters. `Atoi` is what `atoi` reads: an optional sign, then the longest
run of digits, folded in base 10. `ExtractFecParams` applies them per key,
with the code's defaults. `HandleFec` is the whole of
`media_stream_handle_fec` for a flexfec profile:

- the 200 ms jitter compensation;
- the FEC session, created if absent;
- a new `fec_stream` made from the extracted parameters.

`ParamsFollowFmtp` compares the result with `Decimal`, a reference definition
by positional weights.

**TmmbrControl.** `upload` is `rtp_session_get_target_upload_bandwidth`.

- `Corrected`, `ToInt` and `Capped` are the three transformations of the
  received value, in the code's order.
- `ProcessTmmbr` is the whole of `media_stream_tmmbr_received`: the early
  returns, the recording of the limit, then `ApplyToEncoder`.
  `ApplyToEncoder` covers four cases: the direct bitrate of audio and text,
  the "custom" configuration ladder, the custom preset without a list, and
  the quality controller.
- `Push` lets the encoder accept or refuse, since `ms_filter_call_method` can
  fail.
- The setup of a stream (type, encoder, estimator, preset, configuration
  list) is a record chosen at `Init`, because the code fixes it at start.

**MediaStreamIterate.** `IterateDispatch` is the first half of
`media_stream_iterate`:

- the beginning period;
- the quality indicator throttled by `curtime > last_iterate_time` and by
  the direction;
- `last_iterate_time`;
- the event dispatcher, whose TMMBR handlings are appended to `handled`.

`IterateDrain` is the second half. It drains the event queue and applies
`media_stream_process_rtcp` to each RTCP packet. Both halves run in one call,
and no other action of the tick thread can run between them: `tpc` forbids
it. `StreamAlive` is `media_stream_alive`. The environment actions are
`ClockTick`, `ReceiveRtp`, `ReceiveRtcp` and `PostOther`. `ReceiveRtcp` posts
the same packet to the dispatcher and to the queue, as oRTP does.

**VideoToolboxDecoder.** `fpc` is the filter thread's position:

- `"idle"`;
- `"rest"`, within `feed` after the parameter sets;
- `"wait"`, within `destroyDecoder`;
- `"gone"`.

`destroyDecoder` is split into `BeginDestroy` (setting `_destroying`) and
`EndDestroy`. `EndDestroy` waits for `inFlight = 0`, then invalidates and
releases. `OutputCb` runs on the VideoToolbox thread and can interleave
anywhere. `CreateDecoder` models both failures: the format description can
throw, or the session creation can fail after the format description was
made.

`FairSpec` adds weak fairness on `OutputCb` and `EndDestroy`. `Status` maps
the filter thread's position and `_session` to the abstract status. `fpc =
"gone"` maps to `"gone"`, `"wait"` to `"closing"`, a live session to
`"active"`, and anything else to `"none"`. `inFlight` is the abstract
`pending`, and `Len(queue)` is `out`. `Lifecycle` is the INSTANCE of
`VideoDecoderLifecycle` under this mapping.

**MediaCodecH264Decoder.** An `mblk_t` is a block id. `allocb`, `dupb` and
`dupmsg` each make a new block, and `freemsg` adds it to `freed`. `handed`
holds the blocks given to the unpacker. The bytes of a parameter set are a
pair <<size, variant>>. `memcmp` tells variants apart, and the size is what
`ms_h264_sps_get_video_size` reads. `cont` keeps the contents of the three
fields, the only ones ever read.

- `Init` is the constructor. Reset mode comes from `DeviceEquals` or
  `WeakEquals` against `TvDevices`.
- `AddFmtp` allocates two blocks and overwrites `_sps` and `_pps`.
- `Process` hands both to the unpacker when both are set.
- `CheckSpsChange` and `CheckPpsChange` include `updateSps` and
  `updatePps`, which free the block they replace.
- `SetParameterSets` is one SPS of the queue walked in reset mode: `IsNewPps`
  then the size check and restart.
- `Destroy` is both destructors.

The base classes `MediaCodecDecoder` and `H26xDecoderFilter` are not in this
repository. `checkSpsChange` and `checkPpsChange` are private and have no
caller in this file, so the model lets them run at any time.

**CryptoSuite.** `keywordcmp` compares whole names, so a name is one of the
seven known names or `"other"`. The parameter string is searched only with
`strstr` for three keywords. It is therefore the set of keywords it contains,
plus `"other"` when it holds anything else. `Build`, `NameOf`, `ParamsOf` and
`ToName` are the two conversions. `Negotiate` is the offer and answer of the
call layer, which is not in `src/`.

## 3. Runs

| Run | Checks | Result | Shows |
|---|---|---|---|
| `sessions` | NoDoubleRelease, NoDanglingBackPointer, NoForcedStunUnderIce, IInv, ImplementsOwnership | pass, 16474 states | Reclaim, stream teardown and then the copy's teardown never destroy an object twice and never leave a context pointing into a freed stream. ICE always cancels forced STUN. The session set implements `SessionOwnership`. |
| `key_exchange` | AtMostOneKeyExchange | violation | ZRTP, then `enable_dtls`, leaves two key exchanges. |
| `fec_leak` | NoLeakAtTeardown | violation | `handle_fec` then `media_stream_free` leaks the FEC session. |
| `tmmbr` | NoRepeatPush, LimitWithinBounds | pass, 639 states | The idempotence check and the saturation and ceiling work for every kind of stream. |
| `vt_decoder` | NoCallbackAfterFree, NoOutputDuringTeardown, ImplementsLifecycle, TeardownCompletes | pass, 1400 states | The `_destroying` flag and the wait make teardown safe against `outputCb`. Under `FairSpec` every teardown completes, and the decoder implements `VideoDecoderLifecycle`. |
| `vt_leak` | FormatDescReleased | violation | A failed session creation, then the destructor, leaks `_formatDesc`. |
| `iterate` | DeadMeansSilent, QiLocalOncePerSecond, IInv | pass, 272336 states | A stream is only declared dead after more than `timeout` seconds without RTP or RTCP. The local quality indicator is updated at most once per second. `IInv` is the inductive invariant `MediaStreamIterateProofs` proves. |
| `fec` | ParamsFollowFmtp | pass, 121 states | The parameters are the values of well-formed fmtp numbers that fit the buffer, 9 digits included, and the defaults for absent keys. |
| `mediacodec` | FormatTracksSps, NoFreeOfHanded | pass, 57136 states | In reset mode the codec format always has the size of the last SPS kept. No block handed to the unpacker is freed later. |
| `mediacodec_leak` | NoOrphanBlock | violation | Two `addFmtp` calls orphan the first SPS/PPS pair. |
| `crypto_invalid` | InvalidRejected | violation | `AES_CM_128_HMAC_SHA1_80` with an unknown parameter token, or with `UNENCRYPTED_SRTP` and `UNAUTHENTICATED_SRTP`, is accepted. |
| `iterate_order` | ArrivalOrder | violation | A TMMBR of a later packet is handled before the RTCP processing of an earlier one. |

Every property of a passing run has a mutant (see PROJECT.json), and TLC finds
each mutant violated. The mutants are:

- the set_ice_check_list without the re-decision;
- a reclaim that keeps ownership;
- a free that ignores `owns_sessions` (also for the sessions' `ImplementsOwnership`);
- a free that keeps the back-pointers;
- a TMMBR without the early return;
- a ceiling off by one;
- an outputCb without the `_destroying` check;
- a destroy without the wait (also for `ImplementsLifecycle`);
- a destroy that also waits for the output queue to drain (for
  `TeardownCompletes`);
- a `process` that does not null `_sps` and `_pps`;
- an `isNewPps` that does not refresh `_lastSps`;
- a quality-indicator update on every tick;
- a drain without the `last_packet_time` refresh (also for the Iterate `IInv`);
- a liveness test off by one;
- an fmtp buffer one byte too short.

### Bounds and why they are enough

- **Sessions.** `InitContexts` holds the four initial structs that start
  functions produce: no context, ZRTP, DTLS and SRTP. Every action creates an
  object at most once, so the state space is complete (depth 11). Every
  order of the operations is explored, except that the copy's uninit comes
  only after `media_stream_free` (the caller contract above).
- **TMMBR.** `IntMax = 6`, with TMMBR values 0, 3, 5 and 9. The value 9
  exceeds `IntMax`, 5 is above a ceiling of 4, and 0 is below every target.
  `DupRate = 2` makes the correction change values. The six setups cover
  every branch of `media_stream_process_tmmbr`.
- **Decoder.** Two frames in flight, a queue of two and three format
  descriptions. This allows one frame in flight during a teardown while
  another is queued, and a re-creation after new parameter sets.
- **Tick.** Four seconds with `Timeout = 1` and a beginning period of 2.
  This allows a silence longer than the timeout, an arrival in the same
  second as the check, and the end of the beginning period. One RTCP packet
  is enough for the refresh. The order run uses two packets, which the
  reordering needs.

- **FEC.** The fmtp values cover every path of the conversion:
  - absent;
  - 5 digits;
  - 9 digits, which fill the buffer;
  - 10 digits, which are truncated;
  - a non-number;
  - a minus sign;
  - digits followed by junk.

  Two calls show that the set-up is repeated: `fecStreams` reaches 2, and a
  second FEC stream replaces the first without the first being destroyed.
  Spec 4.5 says the set-up is idempotent. No run states this, and the hazard
  is recorded in PROJECT.json.

- **MediaCodec.** Two sizes and two variants of each, so an SPS can change
  the size, or differ in its bytes without changing it. Three devices: an
  entry of `_tvDevices`, a weak match of it and a phone of neither. Six
  blocks allow two `addFmtp` calls, or a handoff followed by an SPS change
  and a new `_lastSps`.
- **Crypto.** The descriptors are all 8 names times all 16 keyword sets, so
  every branch of both conversions is reached.

### Fairness

Only `vt_decoder` checks liveness, under `FairSpec`, which has two weak
fairness conditions:

- on `OutputCb`, because VideoToolbox delivers every frame it accepted on
  its own thread;
- on `EndDestroy`, because `VTDecompressionSessionWaitForAsynchronousFrames`
  returns once it has.

Feeding and fetching are up to the filter graph and get no fairness. The
tick is driven by an external scheduler, so `MediaStreamIterate` has no
fairness. Several runs set `CHECK_DEADLOCK FALSE`, each because the system
really stops: a freed stream takes no more calls, a destroyed decoder is
gone, and the counters of the FEC and MediaCodec models reach their
bounds.

## 4. Proofs

`tlapm` checks every proof to the last leaf.

**MediaStreamSessionsProofs** proves `Spec => []IInv` for every set of
initial contexts. From it, it proves `TypeCorrect`,
`NoDoubleReleaseInvariant` and `NoDanglingBackPointerInvariant`. The two
safety properties alone are not inductive. A free must know that the stream
still points at exactly the objects created, all unreleased. A copy uninit
must know that the copy points only at unreleased objects, and that the copy
is empty while the stream owns them. A back-pointer into the stream must
imply that the stream is alive and holds that context. `IInv` states these
facts. TLC checks `IInv` in the `sessions` run, and `StepIInv` proves it
preserved with one case per action.

`NoForcedStunUnderIceInvariant` rests on `StunInv`. `StunInv` adds that, while
the stream lives, forced STUN is "on" only with an rtpsend filter and a DTLS
context. Without it, `set_ice_check_list` could meet a forced keepalive that
it does not re-decide, because it re-decides only when both exist.

`ImplementsOwnershipHolds` proves that the session set implements
`SessionOwnership`, for every `InitContexts`. The refinement mapping `Holder`
maps each object as follows:

- not created: no one's;
- destroyed: released;
- in the reclaimed copy: the caller's;
- otherwise: the stream's.

`owning` is `owns_sessions`, and `open` is the stream being alive.
`StepOwnership` maps each step:

- the three enablers, `start_ticker` and `handle_fec` are `Create`. The
  field was empty, so while the stream lives the object was never made
  (lemma `CreateRefines`).
- `reclaim_sessions` is `Reclaim`. While the stream lives it points at every
  object made, and all are unreleased, so the copy takes them all.
- `media_stream_free` is `Destroy`. When it owns, the copy is empty, so the
  objects uninit destroys are exactly the stream's destroyable ones.
- the copy's uninit is `CallerRelease`.
- the STUN and ICE setters are stutters.

Every case rests on `IInv`. The abstract destroy covers exactly `Uninit`.
So the FEC session, which uninit never destroys, stays with its holder in
the abstract specification too. That is the `fec_leak` finding.

**TmmbrControlProofs** proves `LimitWithinBounds`, an action property, for
every `IntMax`, `DupRate`, set of inputs and setup. The proof has three
parts:

- `LimitBounds` shows that `Limit(v)` is a natural number at most `IntMax`
  and at most any positive ceiling. It rests on `DupRate >= 1`, the
  assumption `TmmbrAssumption`.
- The type facts `BoundInv` hold in every state.
- Every step therefore satisfies `LimitStepBounded`.

`NoRepeatPushHolds` proves `NoRepeatPush` with no invariant. Each disjunct
of `Next` either records a new upload limit or sets `called' = FALSE`:

- the early return of `update_bitrate_limit_from_tmmbr`;
- a stream without an encoder;
- the two setters.

**VideoToolboxDecoderProofs** proves `NoCallbackAfterFree` from an inductive
`IInv`. It states that frames in flight imply a session, that the destroying
phase implies a session, and that after the destructor nothing is in flight
and no session is left. `ImplementsLifecycleHolds` proves that the decoder
implements `VideoDecoderLifecycle`:

- `Init` maps to the abstract `Init`.
- `StepRefines` maps every step to an abstract step or a stutter:
  - `Feed` with new parameter sets is `BeginClose`;
  - `CreateDecoder` is `Open`;
  - `DecodeFrame` is `Submit` or `BeginClose`;
  - `OutputCb` is `Deliver`;
  - `Fetch` is `Take`;
  - `EndDestroy` is `Close`;
  - the destructor is `BeginClose` or `Retire`.
- The mapping of `OutputCb` needs `DestroyingMeansWait`, which says that
  `_destroying` is set exactly while the filter thread is inside
  `destroyDecoder`. The lemma proves it inductive together with `IInv`.

`NoOutputDuringTeardownHolds` proves the action property
`NoOutputDuringTeardown` from the same pair of invariants. While `fpc` is
`"wait"`, `_destroying` is set, so `OutputCb` takes its dropping branch.
`EndDestroy` leaves the queue alone. Every other action that touches the
queue needs the filter thread elsewhere.

**CryptoSuiteProofs** proves three theorems for every descriptor:

- `SuiteRoundTrip`: every valid suite is rebuilt unchanged from its
  descriptor.
- `DescriptorRoundTrip`: every descriptor the table allows is rebuilt
  unchanged from its suite.
- `FlagsFollowParams`: the two classifiers agree with the keywords asked for.

These are the parts of spec 8's crypto property that the code satisfies. The
part it violates is the `crypto_invalid` run.

**MediaCodecH264DecoderProofs** proves `NoFreeOfHanded` and
`FormatTracksSps` (`NoFreeOfHandedHolds`, `FormatTracksSpsHolds`) for every
`MaxBlocks`, size set and device table. Both rest on one inductive invariant,
`IInv == TypeOK /\ BlockInv /\ FormatTracksSps`. Before it was proved,
`BlockInv` was checked with TLC on the `mediacodec` instance (57,136
states). `NoFreeOfHanded` alone is not inductive:
`checkSpsChange` and the destructors free `_sps`, `_pps` and `_lastSps`, so
the proof must know those blocks are neither handed over nor already freed.
`BlockInv` says so for a live filter. It also says that the three fields
hold distinct blocks, so freeing one never frees another's. That holds
because `allocb`, `dupb` and `dupmsg` always return a fresh header (lemma
`NewIsFresh`). `addFmtp` overwriting the fields without freeing breaks
nothing here: it leaks, which is the `mediacodec_leak` finding, but it never
frees twice.

`freed` is a set, so a second `freemsg` of the same block would not show
in `freed` itself. It is excluded by `BlockInv` instead: the blocks the
fields hold are never in `freed`, so `updateSps`, `updatePps`,
`isNewPps` and the destructors only free blocks not yet freed.

**MediaStreamIterateProofs** proves `DeadMeansSilent` and
`QiLocalOncePerSecond` for every `MaxTime`, `Timeout`, `MaxPackets` and
`MaxRecv` (`DeadMeansSilentHolds`, `QiLocalOncePerSecondHolds`). Neither
holds inductively as stated. `IInv` adds four facts:

- `ScalarTypes`: the types of the scalar variables.
- `Clocks`: no recorded time is ahead of `now`, and `last_packet_count` is
  at most oRTP's count.
- `Heard`: the argument for `DeadMeansSilent`. While the count
  `media_stream_alive` last saw is still oRTP's, `last_packet_time` is at
  least the last time the stream heard anything. Its second clause covers
  the tick split in two. An RTP packet received after the dispatcher read
  `curtime` and before the drain makes `lastSeen` later than the drain's
  `last_packet_time`. The clause says that such a packet has changed the
  count, so the next `media_stream_alive` refreshes the time.
- `Throttle`: an update of the indicator in this second means that
  `last_iterate_time` is `now`.

`StepInv` has one case per action. The `StreamAlive` case splits on whether
the packet count changed. The `IterateDrain` case splits on whether the
queue held RTCP. The queues and the handling log stay out of `IInv`: their
types rest on `SelectSeq`, and proving those needs induction over the queue.
TLC checks `IInv` in the `iterate` run, and `IInvHolds` states it for
every instance.

What stays with TLC:

- All liveness (`TeardownCompletes`), and anything about ENABLED.
- `ParamsFollowFmtp`. It says that `atoi`, a fold over the digit run, gives
  the positional value of every digit string. That is an induction over the
  string. `FoldLeft` is `MapThenFoldSet`, a recursive function over subsets
  of the index set, and the library's induction theorems take an operator
  parameter, which the provers cannot instantiate.
- The runs' violations. They are findings about the code, not theorems.
- The full `TypeOK` of `MediaStreamIterate`, whose queue parts rest on
  `SelectSeq`.

The proof modules reach no RECURSIVE operator.

## 5. Not modelled

- **Ticker priority, transport binding and queries** are environment
  lookups, configuration calls into oRTP and getters. They hold no state of
  this code. The security queries read `stream->state`, which the start
  functions outside `src/` set.
- **Spec disagreements without a run.** The run budget goes to the cases
  above. Three disagreements are in the models but no run states them:
  - `media_stream_configure_stun_packet_sending` turns forced STUN off for a
    non-primary bundled DTLS stream, where spec 4.1 requires it;
  - `update_bitrate_limit_from_tmmbr` records a limit the encoder refused;
  - an unparsable FEC fmtp value gives atoi's 0 instead of the default.

  PROJECT.json lists each of them as a hazard.
- **The headers** contain declarations only.
- **Outside `src/`.** The ZRTP enabler, the stream start functions and
  `ms_video_find_best_configuration_for_size_and_bitrate` are not in `src/`,
  so `EnableZrtp`, `Start`, the TMMBR and FEC `Init` and `BestLimit` are modelled
  from the spec. They are marked `spec_modelled` in the map.
