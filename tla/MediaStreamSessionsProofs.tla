---------------------- MODULE MediaStreamSessionsProofs ----------------------
(***************************************************************************)
(* Proofs, for every choice of InitContexts, that the session set of a    *)
(* MediaStream keeps IInv: no object is destroyed twice across reclaim    *)
(* and teardown, no live ZRTP or DTLS context points back into a freed   *)
(* stream, and no dummy STUN is forced while an ICE check list is set.    *)
(***************************************************************************)
EXTENDS MediaStreamSessions, TLAPS

LEMMA InitIInv == Init => IInv
<1> SUFFICES ASSUME Init PROVE IInv
  OBVIOUS
<1>1. PICK pre \in InitContexts :
        /\ created = [r \in Res |-> r = "rtp" \/ r \in pre]
        /\ sessPtr = created
        /\ backPtr = [c \in Ctx |-> IF c \in pre THEN "stream" ELSE "null"]
  BY DEF Init
<1>2. TypeOK
  BY <1>1 DEF Init, TypeOK, NoPtr, StunSetting
<1>3. \A r \in Res : releases[r] = 0
  BY DEF Init
<1>4. \A c \in Ctx : backPtr[c] = "stream" => sessPtr[c]
  BY <1>1 DEF Ctx, Res
<1>5. QED
  BY <1>1, <1>2, <1>3, <1>4 DEF Init, IInv, NoPtr

(* Creating a context keeps the invariant: the field was empty, so the    *)
(* object is fresh and unreleased.                                        *)
LEMMA CreateStep ==
  ASSUME IInv, NEW c \in {"zrtp", "dtls", "srtp"}, CreateContext(c),
         UNCHANGED <<releases, copyPtr, owns, streamAlive>>,
         backPtr' = backPtr \/ backPtr' = [backPtr EXCEPT ![c] = "stream"],
         /\ iceList' \in BOOLEAN /\ stunAllowed' \in BOOLEAN
         /\ bundleSecondary' \in BOOLEAN /\ hasRtpSend' \in BOOLEAN
         /\ stunCfg' \in StunSetting /\ stunForced' \in StunSetting
  PROVE  IInv'
<1>1. TypeOK'
  BY DEF IInv, TypeOK, CreateContext, Ctx, Res
<1>2. ~created[c] /\ releases[c] = 0
  BY DEF IInv, TypeOK, CreateContext, Res
<1>3. QED
  BY <1>1, <1>2 DEF IInv, TypeOK, CreateContext, Res, Ctx, NoPtr

LEMMA StepIInv == IInv /\ [Next]_vars => IInv'
<1> SUFFICES ASSUME IInv, [Next]_vars PROVE IInv'
  OBVIOUS
<1>1. CASE EnableDtls
  BY <1>1, CreateStep DEF EnableDtls, ConfigureStun, Flag, StunSetting, IInv, TypeOK
<1>2. CASE EnableZrtp
  BY <1>2, CreateStep DEF EnableZrtp, IInv, TypeOK
<1>3. CASE EnableSrtp
  BY <1>3, CreateStep DEF EnableSrtp, IInv, TypeOK
<1>4. CASE \E cl \in BOOLEAN : SetIceCheckList(cl)
  BY <1>4 DEF SetIceCheckList, ConfigureStun, Flag, StunSetting, IInv, TypeOK
<1>5. CASE \E v \in BOOLEAN : SetStunAllowed(v)
  BY <1>5 DEF SetStunAllowed, IInv, TypeOK
<1>6. CASE StartTicker
  <2>1. ~created["ticker"] /\ releases["ticker"] = 0
    BY <1>6 DEF StartTicker, IInv, TypeOK, Res
  <2>2. QED
    BY <1>6, <2>1 DEF StartTicker, IInv, TypeOK, Res, Ctx
<1>7. CASE ReclaimSessions
  BY <1>7 DEF ReclaimSessions, IInv, TypeOK, NoPtr
<1>8. CASE MediaStreamFree
  <2>1. CASE owns
    <3>1. /\ releases' = [r \in Res |-> IF sessPtr[r] /\ r \in Uninit
                                          THEN releases[r] + 1 ELSE releases[r]]
          /\ sessPtr' = Unset(sessPtr) /\ streamAlive' = FALSE /\ copyPtr' = NoPtr
          /\ backPtr' = [c \in Ctx |-> IF sessPtr[c] THEN "null" ELSE backPtr[c]]
      BY <1>8, <2>1 DEF MediaStreamFree, Release, Held, IInv
    <3>2. \A r \in Res : sessPtr[r] => created[r] /\ releases[r] = 0
      BY <1>8 DEF MediaStreamFree, IInv
    <3>3. TypeOK'
      <4>1. UNCHANGED <<created, owns, iceList, stunAllowed, bundleSecondary,
                        hasRtpSend, stunCfg, stunForced>>
        BY <1>8 DEF MediaStreamFree
      <4>2. releases' \in [Res -> Nat]
        BY <3>1 DEF IInv, TypeOK
      <4>3. backPtr' \in [Ctx -> {"null", "stream"}]
        BY <3>1 DEF IInv, TypeOK
      <4>4. QED
        BY <3>1, <4>1, <4>2, <4>3 DEF IInv, TypeOK, NoPtr, Unset
    <3>4. \A c \in Ctx : backPtr'[c] # "stream"
      BY <1>8, <3>1 DEF IInv, TypeOK, Ctx
    <3>5. QED
      BY <1>8, <3>1, <3>2, <3>3, <3>4 DEF MediaStreamFree, IInv, TypeOK, NoPtr
  <2>2. CASE ~owns
    BY <1>8, <2>2 DEF MediaStreamFree, IInv, TypeOK, NoPtr, Ctx
  <2>3. QED
    BY <2>1, <2>2
<1>9. CASE CopyUninit
  <2>1. /\ releases' = [r \in Res |-> IF copyPtr[r] /\ r \in Uninit
                                        THEN releases[r] + 1 ELSE releases[r]]
        /\ copyPtr' = Unset(copyPtr)
    BY <1>9 DEF CopyUninit, Release, Held
  <2>2. \A r \in Res : copyPtr[r] => created[r] /\ releases[r] = 0
    BY DEF IInv
  <2>3. ~streamAlive /\ ~owns
    BY <1>9, <2>1 DEF CopyUninit, IInv, TypeOK, NoPtr, Unset, Uninit, Held, Res
  <2>4. TypeOK'
    BY <1>9, <2>1 DEF CopyUninit, IInv, TypeOK, Unset
  <2>5. \A r \in Res : releases'[r] <= 1 /\ (~created'[r] => releases'[r] = 0)
    BY <1>9, <2>1, <2>2 DEF CopyUninit, IInv, TypeOK
  <2>6. \A r \in Res : copyPtr'[r] => created'[r] /\ releases'[r] = 0
    BY <1>9, <2>1, <2>2 DEF CopyUninit, IInv, TypeOK, Unset
  <2>7. QED
    BY <1>9, <2>3, <2>4, <2>5, <2>6 DEF CopyUninit, IInv
<1>10. CASE HandleFec
  <2>1. ~created["fec"] /\ releases["fec"] = 0
    BY <1>10 DEF HandleFec, IInv, TypeOK, Res
  <2>2. QED
    BY <1>10, <2>1 DEF HandleFec, IInv, TypeOK, Res, Ctx
<1>11. CASE UNCHANGED vars
  BY <1>11 DEF vars, IInv, TypeOK, NoPtr
<1>12. QED
  BY <1>1, <1>2, <1>3, <1>4, <1>5, <1>6, <1>7, <1>8, <1>9, <1>10, <1>11 DEF Next

(* The session set keeps its inductive invariant in every reachable state. *)
THEOREM IInvInvariant == Spec => []IInv
BY InitIInv, StepIInv, PTL DEF Spec

(* Every field of the stream's model keeps its type.                     *)
THEOREM TypeCorrect == Spec => []TypeOK
<1>1. IInv => TypeOK
  BY DEF IInv
<1>2. QED
  BY <1>1, IInvInvariant, PTL

(* No transport or security object is destroyed twice, whatever the order *)
(* of context creation, reclaim and media_stream_free, with the reclaimed *)
(* copy's uninit coming after media_stream_free.                          *)
THEOREM NoDoubleReleaseInvariant == Spec => []NoDoubleRelease
<1>1. IInv => NoDoubleRelease
  BY DEF IInv, NoDoubleRelease
<1>2. QED
  BY <1>1, IInvInvariant, PTL

(* No live ZRTP or DTLS context keeps a back-pointer into a freed stream. *)
THEOREM NoDanglingBackPointerInvariant == Spec => []NoDanglingBackPointer
<1>1. IInv => NoDanglingBackPointer
  BY DEF IInv, NoDanglingBackPointer, Live
<1>2. QED
  BY <1>1, IInvInvariant, PTL


-----------------------------------------------------------------------------
(* Dummy STUN is forced only through a DTLS context of the live stream on  *)
(* a stream with an rtpsend filter: the only call that forces it is       *)
(* media_stream_enable_dtls, and the DTLS field stays set while the       *)
(* stream lives.  That is what lets set_ice_check_list, which re-decides   *)
(* only when both are there, always turn the forcing off.                  *)
StunInv ==
  /\ NoForcedStunUnderIce
  /\ streamAlive /\ stunForced = "on" => hasRtpSend /\ sessPtr["dtls"]

LEMMA InitStun == Init => StunInv
BY DEF Init, StunInv, NoForcedStunUnderIce

LEMMA StepStun == IInv /\ StunInv /\ [Next]_vars => StunInv'
<1> SUFFICES ASSUME IInv, StunInv, [Next]_vars PROVE StunInv'
  OBVIOUS
<1>1. CASE EnableDtls
  <2>1. sessPtr'["dtls"] /\ UNCHANGED <<iceList, hasRtpSend, streamAlive>>
    BY <1>1 DEF EnableDtls, CreateContext, IInv, TypeOK, Res
  <2>2. stunForced' = IF hasRtpSend
                        THEN Flag(stunAllowed /\ ~iceList /\ ~bundleSecondary)
                        ELSE stunForced
    BY <1>1 DEF EnableDtls, ConfigureStun
  <2>3. QED
    BY <2>1, <2>2 DEF StunInv, NoForcedStunUnderIce, Flag
<1>2. CASE \E cl \in BOOLEAN : SetIceCheckList(cl)
  <2>1. PICK cl \in BOOLEAN : SetIceCheckList(cl)
    BY <1>2
  <2>2. /\ iceList' = cl /\ streamAlive
        /\ UNCHANGED <<sessPtr, hasRtpSend, streamAlive>>
        /\ stunForced' = IF hasRtpSend /\ sessPtr["dtls"]
                           THEN Flag(stunAllowed /\ ~cl /\ ~bundleSecondary)
                           ELSE stunForced
    BY <2>1 DEF SetIceCheckList, ConfigureStun
  <2>3. QED
    BY <2>2 DEF StunInv, NoForcedStunUnderIce, Flag
<1>3. CASE MediaStreamFree
  BY <1>3 DEF MediaStreamFree, StunInv, NoForcedStunUnderIce
<1>4. CASE EnableZrtp \/ EnableSrtp \/ StartTicker \/ HandleFec
  <2>1. sessPtr'["dtls"] = sessPtr["dtls"]
    BY <1>4 DEF EnableZrtp, EnableSrtp, StartTicker, HandleFec, CreateContext,
       IInv, TypeOK, Res
  <2>2. UNCHANGED <<iceList, hasRtpSend, streamAlive, stunForced>>
    BY <1>4 DEF EnableZrtp, EnableSrtp, StartTicker, HandleFec
  <2>3. QED
    BY <2>1, <2>2 DEF StunInv, NoForcedStunUnderIce
<1>5. CASE \/ \E v \in BOOLEAN : SetStunAllowed(v)
          \/ ReclaimSessions \/ CopyUninit \/ UNCHANGED vars
  BY <1>5 DEF SetStunAllowed, ReclaimSessions, CopyUninit, vars, StunInv,
     NoForcedStunUnderIce
<1>6. QED
  BY <1>1, <1>2, <1>3, <1>4, <1>5 DEF Next

(* While an ICE check list is attached the rtpsend filter never forces     *)
(* dummy STUN, whatever the order of enable_dtls, set_ice_check_list,     *)
(* set_stun_allowed, reclaim and teardown.                                 *)
THEOREM NoForcedStunUnderIceInvariant == Spec => []NoForcedStunUnderIce
<1>1. Spec => [](IInv /\ StunInv)
  BY InitIInv, StepIInv, InitStun, StepStun, PTL DEF Spec
<1>2. QED
  BY <1>1, PTL DEF StunInv
-----------------------------------------------------------------------------
(* Creating the object r of an empty field is a Create step of the        *)
(* abstract session: the field is empty only for an object never made.    *)
LEMMA CreateRefines ==
  ASSUME IInv, NEW r \in Res, streamAlive, ~sessPtr[r],
         created' = [created EXCEPT ![r] = TRUE],
         releases' = releases, copyPtr' = copyPtr, owns' = owns,
         streamAlive' = streamAlive
  PROVE  Ownership!Create(r)
<1>1. ~created[r] /\ releases[r] = 0 /\ ~copyPtr[r]
  BY DEF IInv, TypeOK
<1>2. Holder[r] = "none"
  BY <1>1 DEF Holder
<1>3. \A s \in Res : Holder'[s] = IF s = r THEN "stream" ELSE Holder[s]
  BY <1>1 DEF Holder, IInv, TypeOK
<1>4. Holder' = [Holder EXCEPT ![r] = "stream"]
  BY <1>3, Zenon DEF Holder
<1>5. QED
  BY <1>2, <1>4 DEF Ownership!Create

(* Every step of the stream's sessions is a step of the abstract session  *)
(* or leaves holders, ownership and the stream's life unchanged.          *)
LEMMA StepOwnership == IInv /\ [Next]_vars => [Ownership!Next]_Ownership!vars
<1> SUFFICES ASSUME IInv, [Next]_vars PROVE [Ownership!Next]_Ownership!vars
  OBVIOUS
<1>1. CASE EnableDtls \/ EnableZrtp \/ EnableSrtp
  <2>1. \E c \in {"dtls", "zrtp", "srtp"} :
          /\ streamAlive /\ ~sessPtr[c]
          /\ created' = [created EXCEPT ![c] = TRUE]
          /\ releases' = releases /\ copyPtr' = copyPtr /\ owns' = owns
          /\ streamAlive' = streamAlive
    <3>1. CASE EnableDtls
      BY <3>1 DEF EnableDtls, CreateContext
    <3>2. CASE EnableZrtp
      BY <3>2 DEF EnableZrtp, CreateContext
    <3>3. CASE EnableSrtp
      BY <3>3 DEF EnableSrtp, CreateContext
    <3>4. QED
      BY <1>1, <3>1, <3>2, <3>3
  <2>2. PICK c \in {"dtls", "zrtp", "srtp"} :
          /\ streamAlive /\ ~sessPtr[c]
          /\ created' = [created EXCEPT ![c] = TRUE]
          /\ releases' = releases /\ copyPtr' = copyPtr /\ owns' = owns
          /\ streamAlive' = streamAlive
    BY <2>1, Zenon
  <2>3. c \in Res
    BY DEF Res
  <2>4. Ownership!Create(c)
    BY <2>2, <2>3, CreateRefines, Zenon
  <2>5. QED
    BY <2>3, <2>4 DEF Ownership!Next
<1>2. CASE StartTicker \/ HandleFec
  <2>1. PICK c \in {"ticker", "fec"} :
          /\ streamAlive /\ ~sessPtr[c]
          /\ created' = [created EXCEPT ![c] = TRUE]
          /\ releases' = releases /\ copyPtr' = copyPtr /\ owns' = owns
          /\ streamAlive' = streamAlive
    BY <1>2 DEF StartTicker, HandleFec
  <2>2. c \in Res
    BY DEF Res
  <2>3. Ownership!Create(c)
    BY <2>1, <2>2, CreateRefines, Zenon
  <2>4. QED
    BY <2>2, <2>3 DEF Ownership!Next
<1>3. CASE (\E cl \in BOOLEAN : SetIceCheckList(cl)) \/ (\E v \in BOOLEAN : SetStunAllowed(v))
  BY <1>3 DEF SetIceCheckList, SetStunAllowed, Ownership!vars, Holder
<1>4. CASE ReclaimSessions
  <2>1. streamAlive /\ copyPtr' = created /\ ~owns'
        /\ UNCHANGED <<created, releases, streamAlive>>
    BY <1>4 DEF ReclaimSessions, IInv
  <2>2. \A r \in Res : created[r] => releases[r] = 0
    BY <2>1 DEF IInv
  <2>3. Holder' = [r \in Res |-> IF Holder[r] = "stream" THEN "caller" ELSE Holder[r]]
    BY <2>1, <2>2 DEF Holder, IInv, TypeOK
  <2>4. QED
    BY <2>1, <2>3 DEF Ownership!Next, Ownership!Reclaim
<1>5. CASE MediaStreamFree
  <2>1. streamAlive /\ ~streamAlive' /\ UNCHANGED <<created, copyPtr, owns>>
    BY <1>5 DEF MediaStreamFree
  <2>2. CASE owns
    <3>1. releases' = [r \in Res |-> IF created[r] /\ r \in Uninit
                                       THEN releases[r] + 1 ELSE releases[r]]
      BY <1>5, <2>2 DEF MediaStreamFree, Release, Held, IInv
    <3>2. copyPtr = NoPtr /\ \A r \in Res : created[r] => releases[r] = 0
      BY <2>1, <2>2 DEF IInv
    <3>3. Holder' = [r \in Res |-> IF Holder[r] = "stream" /\ r \in Uninit
                                     THEN "released" ELSE Holder[r]]
      BY <2>1, <3>1, <3>2 DEF Holder, NoPtr, IInv, TypeOK
    <3>4. QED
      BY <2>1, <2>2, <3>3
      DEF Ownership!Next, Ownership!Destroy, Ownership!ReleaseAll
  <2>3. CASE ~owns
    <3>1. UNCHANGED releases
      BY <1>5, <2>3 DEF MediaStreamFree
    <3>2. UNCHANGED Holder
      BY <2>1, <3>1 DEF Holder
    <3>3. QED
      BY <2>1, <2>3, <3>2 DEF Ownership!Next, Ownership!Destroy
  <2>4. QED
    BY <2>2, <2>3
<1>6. CASE CopyUninit
  <2>1. /\ ~streamAlive /\ UNCHANGED <<created, owns, streamAlive>>
        /\ releases' = [r \in Res |-> IF copyPtr[r] /\ r \in Uninit
                                        THEN releases[r] + 1 ELSE releases[r]]
        /\ copyPtr' = Unset(copyPtr)
        /\ \E r \in Uninit : copyPtr[r]
    BY <1>6 DEF CopyUninit, Release, Held, Uninit, Res
  <2>2. \A r \in Res : copyPtr[r] => created[r] /\ releases[r] = 0
    BY DEF IInv
  <2>3. \A r \in Res : Holder[r] = "caller" <=> copyPtr[r]
    BY <2>2 DEF Holder, IInv, TypeOK
  <2>4. Holder' = [r \in Res |-> IF Holder[r] = "caller" /\ r \in Uninit
                                   THEN "released" ELSE Holder[r]]
    BY <2>1, <2>2, <2>3 DEF Holder, Unset, IInv, TypeOK
  <2>5. \E r \in Uninit : Holder[r] = "caller"
    BY <2>1, <2>3 DEF Uninit, Res
  <2>6. QED
    BY <2>1, <2>4, <2>5
    DEF Ownership!Next, Ownership!CallerRelease, Ownership!ReleaseAll
<1>7. CASE UNCHANGED vars
  BY <1>7 DEF vars, Ownership!vars, Holder
<1>8. QED
  BY <1>1, <1>2, <1>3, <1>4, <1>5, <1>6, <1>7 DEF Next

(* The stream's sessions follow spec 3's ownership rule: the stream owns   *)
(* what it makes until media_stream_reclaim_sessions hands it all over,    *)
(* media_stream_free destroys exactly what uninit covers and the stream    *)
(* still owns, and the caller's uninit exactly what it reclaimed.          *)
THEOREM ImplementsOwnershipHolds == Spec => ImplementsOwnership
<1>1. Init => Ownership!Init
  BY DEF Init, Holder, NoPtr, Ownership!Init
<1>2. QED
  BY <1>1, InitIInv, StepIInv, StepOwnership, PTL
  DEF Spec, ImplementsOwnership, Ownership!Spec
=============================================================================
