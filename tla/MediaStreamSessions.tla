------------------------- MODULE MediaStreamSessions -------------------------
(***************************************************************************)
(* The set of transport and security objects a MediaStream holds in its    *)
(* MSMediaStreamSessions struct (src/src/voip/mediastream.c), and the      *)
(* operations that create, hand over and release them:                    *)
(*   media_stream_init, media_stream_enable_dtls, the ZRTP and SDES        *)
(*   enablers, media_stream_set_ice_check_list (with the STUN keepalive    *)
(*   decision of media_stream_configure_stun_packet_sending),              *)
(*   media_stream_start_ticker, media_stream_handle_fec (its FEC session), *)
(*   media_stream_reclaim_sessions,                                        *)
(*   media_stream_free and ms_media_stream_sessions_uninit.                *)
(*                                                                         *)
(* An object is a member of Res, named after its field in the struct.      *)
(* Two structs may point at it: the stream's own one (sessPtr) and the     *)
(* caller's struct that media_stream_reclaim_sessions copies it into       *)
(* (copyPtr).  Creating and releasing are counted (created, releases), so  *)
(* that a double release or a release of a still referenced object is a    *)
(* state the invariants can talk about.                                    *)
(***************************************************************************)
EXTENDS Naturals

CONSTANT InitContexts   \* the sets of security contexts that the sessions
                        \* handed to media_stream_init may already hold

\* The pointer fields of MSMediaStreamSessions, those that
\* ms_media_stream_sessions_uninit destroys, and the contexts that keep a
\* back-pointer to the struct (ms_zrtp/dtls_srtp_set_stream_sessions).
Res == {"rtp", "srtp", "zrtp", "dtls", "ticker", "fec"}
Uninit == {"rtp", "srtp", "zrtp", "dtls", "ticker"}
Ctx == {"zrtp", "dtls"}

ASSUME InitContextsAssumption == InitContexts \subseteq SUBSET {"srtp", "zrtp", "dtls"}

VARIABLES
  created,          \* [Res -> BOOLEAN]: the object has been allocated
  releases,         \* [Res -> Nat]: how often its destroy function ran
  sessPtr,          \* [Res -> BOOLEAN]: stream->sessions.<r> != NULL
  copyPtr,          \* [Res -> BOOLEAN]: the reclaimer's copy holds <r>
  owns,             \* stream->owns_sessions
  streamAlive,      \* the MediaStream has not gone through media_stream_free
  backPtr,          \* [Ctx -> {"null", "stream"}]: the context's back-pointer
  iceList,          \* stream->ice_check_list != NULL
  stunAllowed,      \* stream->stun_allowed
  bundleSecondary,  \* rtp_session->bundle && !rtp_session->is_primary
  hasRtpSend,       \* stream->rtpsend != NULL
  stunCfg,          \* MS_RTP_SEND_ENABLE_STUN last given to rtpsend
  stunForced        \* MS_RTP_SEND_ENABLE_STUN_FORCED last given to rtpsend

vars == <<created, releases, sessPtr, copyPtr, owns, streamAlive, backPtr,
          iceList, stunAllowed, bundleSecondary, hasRtpSend, stunCfg, stunForced>>

StunSetting == {"unset", "on", "off"}

Flag(b) == IF b THEN "on" ELSE "off"

Live(r) == created[r] /\ releases[r] = 0

\* The objects a struct of pointer flags p refers to.
Held(p) == {r \in Res : p[r]}

NoPtr == [r \in Res |-> FALSE]

\* A struct after ms_media_stream_sessions_uninit: the fields it destroys
\* are NULL, the others keep their value.
Unset(p) == [r \in Res |-> r \notin Uninit /\ p[r]]

\* One more call of the destroy function of every object of S.
Release(S) == releases' = [r \in Res |-> IF r \in S THEN releases[r] + 1 ELSE releases[r]]

-----------------------------------------------------------------------------
(* media_stream_configure_stun_packet_sending, given the ICE check list   *)
(* and DTLS context the stream has when it is called.                     *)
ConfigureStun(ice, dtls) ==
  LET enabled == stunAllowed /\ ~ice /\ ~bundleSecondary
  IN  /\ stunCfg' = IF hasRtpSend THEN Flag(enabled) ELSE stunCfg
      /\ stunForced' = IF hasRtpSend /\ dtls THEN Flag(enabled) ELSE stunForced

(* media_stream_init: the stream takes the sessions it is given, points   *)
(* their ZRTP and DTLS contexts back at its own copy and allows STUN; the *)
(* stream constructors then mark the sessions as owned.                   *)
Init ==
  /\ \E pre \in InitContexts :
        /\ created = [r \in Res |-> r = "rtp" \/ r \in pre]
        /\ sessPtr = created
        /\ backPtr = [c \in Ctx |-> IF c \in pre THEN "stream" ELSE "null"]
  /\ releases = [r \in Res |-> 0]
  /\ copyPtr = NoPtr
  /\ owns = TRUE
  /\ streamAlive = TRUE
  /\ iceList = FALSE
  /\ stunAllowed = TRUE
  /\ bundleSecondary \in BOOLEAN
  /\ hasRtpSend \in BOOLEAN
  /\ stunCfg = "unset"
  /\ stunForced = "unset"

(* Creation of context c by an enabler whose guard is "the field is NULL". *)
CreateContext(c) ==
  /\ streamAlive
  /\ ~sessPtr[c]
  /\ created' = [created EXCEPT ![c] = TRUE]
  /\ sessPtr' = [sessPtr EXCEPT ![c] = TRUE]

(* media_stream_enable_dtls: creates the DTLS-SRTP context only when the  *)
(* DTLS field is empty (whatever else the struct holds), then re-decides  *)
(* the STUN keepalive now that a DTLS context exists.                     *)
EnableDtls ==
  /\ CreateContext("dtls")
  /\ backPtr' = [backPtr EXCEPT !["dtls"] = "stream"]
  /\ ConfigureStun(iceList, TRUE)
  /\ UNCHANGED <<releases, copyPtr, owns, streamAlive, iceList, stunAllowed,
                 bundleSecondary, hasRtpSend>>

(* The ZRTP enabler of the stream types: creates the ZRTP context when the *)
(* field is empty, pointing it back at the stream's sessions.             *)
EnableZrtp ==
  /\ CreateContext("zrtp")
  /\ backPtr' = [backPtr EXCEPT !["zrtp"] = "stream"]
  /\ UNCHANGED <<releases, copyPtr, owns, streamAlive, iceList, stunAllowed,
                 bundleSecondary, hasRtpSend, stunCfg, stunForced>>

(* media_stream_enable_srtp (SDES): setting the receive and send keys     *)
(* allocates the SRTP context of the sessions when there is none.          *)
EnableSrtp ==
  /\ CreateContext("srtp")
  /\ UNCHANGED <<releases, copyPtr, owns, streamAlive, backPtr, iceList, stunAllowed,
                 bundleSecondary, hasRtpSend, stunCfg, stunForced>>

(* Mutant: set_ice_check_list that records the list without re-deciding *)
(* the STUN keepalive.                                                    *)
SetIceCheckListNoReconfigure(cl) ==
  /\ streamAlive
  /\ iceList' = cl
  /\ UNCHANGED <<created, releases, sessPtr, copyPtr, owns, streamAlive, backPtr,
                 stunAllowed, bundleSecondary, hasRtpSend, stunCfg, stunForced>>

(* media_stream_set_ice_check_list, with or without a check list.         *)
SetIceCheckList(cl) ==
  /\ streamAlive
  /\ iceList' = cl
  /\ ConfigureStun(cl, sessPtr["dtls"])
  /\ UNCHANGED <<created, releases, sessPtr, copyPtr, owns, streamAlive, backPtr,
                 stunAllowed, bundleSecondary, hasRtpSend>>

(* media_stream_set_stun_allowed: only records the flag.                  *)
SetStunAllowed(v) ==
  /\ streamAlive
  /\ stunAllowed' = v
  /\ UNCHANGED <<created, releases, sessPtr, copyPtr, owns, streamAlive, backPtr,
                 iceList, bundleSecondary, hasRtpSend, stunCfg, stunForced>>

(* media_stream_start_ticker: returns early when a ticker exists.         *)
StartTicker ==
  /\ streamAlive
  /\ ~sessPtr["ticker"]
  /\ created' = [created EXCEPT !["ticker"] = TRUE]
  /\ sessPtr' = [sessPtr EXCEPT !["ticker"] = TRUE]
  /\ UNCHANGED <<releases, copyPtr, owns, streamAlive, backPtr, iceList, stunAllowed,
                 bundleSecondary, hasRtpSend, stunCfg, stunForced>>

(* media_stream_handle_fec with a profile that has a "flexfec" payload    *)
(* type, on a stream without FEC session: the session is created and      *)
(* bundled with the primary one.  Later calls leave the field as it is.    *)
HandleFec ==
  /\ streamAlive
  /\ ~sessPtr["fec"]
  /\ created' = [created EXCEPT !["fec"] = TRUE]
  /\ sessPtr' = [sessPtr EXCEPT !["fec"] = TRUE]
  /\ UNCHANGED <<releases, copyPtr, owns, streamAlive, backPtr, iceList, stunAllowed,
                 bundleSecondary, hasRtpSend, stunCfg, stunForced>>

(* Mutant: reclaim that copies the struct but leaves owns_sessions set.  *)
ReclaimSessionsKeepingOwnership ==
  /\ streamAlive
  /\ copyPtr' = sessPtr
  /\ UNCHANGED <<created, releases, sessPtr, owns, streamAlive, backPtr, iceList,
                 stunAllowed, bundleSecondary, hasRtpSend, stunCfg, stunForced>>

(* media_stream_reclaim_sessions: memcpy of the struct to the caller, and  *)
(* the stream no longer owns what it points at.                           *)
ReclaimSessions ==
  /\ streamAlive
  /\ copyPtr' = sessPtr
  /\ owns' = FALSE
  /\ UNCHANGED <<created, releases, sessPtr, streamAlive, backPtr, iceList, stunAllowed,
                 bundleSecondary, hasRtpSend, stunCfg, stunForced>>

(* Mutant: free that uninits the sessions whether or not it owns them.   *)
MediaStreamFreeIgnoringOwns ==
  /\ streamAlive
  /\ backPtr' = [c \in Ctx |-> IF sessPtr[c] THEN "null" ELSE backPtr[c]]
  /\ Release(Held(sessPtr) \cap Uninit)
  /\ sessPtr' = Unset(sessPtr)
  /\ streamAlive' = FALSE
  /\ UNCHANGED <<created, copyPtr, owns, iceList, stunAllowed, bundleSecondary,
                 hasRtpSend, stunCfg, stunForced>>

(* Mutant: free that does not detach the ZRTP/DTLS back-pointers.         *)
MediaStreamFreeKeepingBackPointers ==
  /\ streamAlive
  /\ IF owns THEN /\ Release(Held(sessPtr) \cap Uninit)
                  /\ sessPtr' = Unset(sessPtr)
             ELSE UNCHANGED <<releases, sessPtr>>
  /\ streamAlive' = FALSE
  /\ UNCHANGED <<created, copyPtr, owns, backPtr, iceList, stunAllowed, bundleSecondary,
                 hasRtpSend, stunCfg, stunForced>>

(* media_stream_free: detach the ZRTP and DTLS back-pointers, then, when  *)
(* the stream owns its sessions, ms_media_stream_sessions_uninit on them. *)
MediaStreamFree ==
  /\ streamAlive
  /\ backPtr' = [c \in Ctx |-> IF sessPtr[c] THEN "null" ELSE backPtr[c]]
  /\ IF owns THEN /\ Release(Held(sessPtr) \cap Uninit)
                  /\ sessPtr' = Unset(sessPtr)
             ELSE UNCHANGED <<releases, sessPtr>>
  /\ streamAlive' = FALSE
  /\ UNCHANGED <<created, copyPtr, owns, iceList, stunAllowed, bundleSecondary,
                 hasRtpSend, stunCfg, stunForced>>

(* ms_media_stream_sessions_uninit on the reclaimed copy, which its       *)
(* holder does once the stream it came from is freed.                     *)
CopyUninit ==
  /\ ~streamAlive
  /\ Held(copyPtr) \cap Uninit # {}
  /\ Release(Held(copyPtr) \cap Uninit)
  /\ copyPtr' = Unset(copyPtr)
  /\ UNCHANGED <<created, sessPtr, owns, streamAlive, backPtr, iceList, stunAllowed,
                 bundleSecondary, hasRtpSend, stunCfg, stunForced>>

Next ==
  \/ EnableDtls
  \/ EnableZrtp
  \/ EnableSrtp
  \/ \E cl \in BOOLEAN : SetIceCheckList(cl)
  \/ \E v \in BOOLEAN : SetStunAllowed(v)
  \/ StartTicker
  \/ HandleFec
  \/ ReclaimSessions
  \/ MediaStreamFree
  \/ CopyUninit

Spec == Init /\ [][Next]_vars

(* Who holds each object, as SessionOwnership sees it: an object not yet  *)
(* created is no one's, one destroyed is released, one in the reclaimed    *)
(* copy is the caller's, and any other is the stream's.                   *)
Holder ==
  [r \in Res |->
     IF ~created[r] THEN "none"
     ELSE IF releases[r] > 0 THEN "released"
     ELSE IF copyPtr[r] THEN "caller"
     ELSE "stream"]

Ownership == INSTANCE SessionOwnership
               WITH Objects <- Res, Destroyable <- Uninit, holder <- Holder,
                    owning <- owns, open <- streamAlive

-----------------------------------------------------------------------------
TypeOK ==
  /\ created \in [Res -> BOOLEAN]
  /\ releases \in [Res -> Nat]
  /\ sessPtr \in [Res -> BOOLEAN]
  /\ copyPtr \in [Res -> BOOLEAN]
  /\ owns \in BOOLEAN
  /\ streamAlive \in BOOLEAN
  /\ backPtr \in [Ctx -> {"null", "stream"}]
  /\ iceList \in BOOLEAN
  /\ stunAllowed \in BOOLEAN
  /\ bundleSecondary \in BOOLEAN
  /\ hasRtpSend \in BOOLEAN
  /\ stunCfg \in StunSetting
  /\ stunForced \in StunSetting

(* Across reclaim, teardown of the stream and teardown of the reclaimed   *)
(* copy, the destroy function of no transport or security object runs     *)
(* twice (media_stream_free skips ms_media_stream_sessions_uninit once    *)
(* media_stream_reclaim_sessions has cleared owns_sessions).              *)
NoDoubleRelease == \A r \in Res : releases[r] <= 1

(* A ZRTP or DTLS context that is still alive never keeps a back-pointer  *)
(* into a MediaStream that media_stream_free has released, in particular  *)
(* when the context was reclaimed and so survives the stream.             *)
NoDanglingBackPointer ==
  \A c \in Ctx : Live(c) /\ backPtr[c] = "stream" => streamAlive

(* The rtpsend filter never forces dummy STUN packets while an ICE check   *)
(* list is attached: media_stream_set_ice_check_list re-decides the        *)
(* keepalive after a DTLS context has forced it.                          *)
NoForcedStunUnderIce == iceList => stunForced # "on"

(* The inductive strengthening of NoDoubleRelease and                     *)
(* NoDanglingBackPointer: while the stream lives its struct points at      *)
(* exactly the objects created so far, all unreleased; the reclaimed copy  *)
(* points only at created, unreleased objects and is empty while the       *)
(* stream owns its sessions; a back-pointer into the stream exists only    *)
(* while the stream lives and still holds that context.                   *)
IInv ==
  /\ TypeOK
  /\ \A r \in Res : releases[r] <= 1
  /\ \A r \in Res : ~created[r] => releases[r] = 0
  /\ streamAlive => /\ sessPtr = created
                   /\ \A r \in Res : sessPtr[r] => releases[r] = 0
  /\ \A r \in Res : copyPtr[r] => created[r] /\ releases[r] = 0
  /\ owns => copyPtr = NoPtr
  /\ \A c \in Ctx : backPtr[c] = "stream" => streamAlive /\ sessPtr[c]

(* Spec 3 and 8: a session holds at most one key-exchange context, and   *)
(* enabling DTLS-SRTP while a ZRTP context is active leaves exactly one   *)
(* of the two (media_stream_enable_dtls and the ZRTP enabler).            *)
AtMostOneKeyExchange == ~(Live("zrtp") /\ Live("dtls"))

(* Spec 3: destruction releases every sub-resource the session owns, the  *)
(* FEC session included: once the stream is freed and the reclaimed copy, *)
(* if any, uninitialised, every object created for it has been destroyed. *)
NoLeakAtTeardown ==
  ~streamAlive /\ Held(copyPtr) \cap Uninit = {} =>
    \A r \in Res : created[r] => releases[r] > 0

(* Spec 3 as a whole: the stream owns the objects it holds until          *)
(* media_stream_reclaim_sessions hands them all to the caller;             *)
(* media_stream_free destroys exactly the objects                          *)
(* ms_media_stream_sessions_uninit covers that the stream still owns, and  *)
(* the caller's uninit exactly those it reclaimed.                         *)
ImplementsOwnership == Ownership!Spec

=============================================================================
