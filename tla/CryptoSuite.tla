----------------------------- MODULE CryptoSuite -----------------------------
(***************************************************************************)
(* The SDES crypto-suite conversions of src/src/voip/mediastream.c:        *)
(* ms_crypto_suite_build_from_name_params, its inverse                     *)
(* ms_crypto_suite_to_name_params, and the two classifiers.                *)
(*                                                                         *)
(* keywordcmp compares the whole name, so a name is one of the seven       *)
(* known names or anything else ("other").  The parameters are only ever  *)
(* searched with strstr for three keywords, so a parameter string is the  *)
(* set of keywords it contains, plus "other" when it holds anything else; *)
(* a NULL string is the empty set.                                        *)
(***************************************************************************)
EXTENDS Naturals

US == "UNENCRYPTED_SRTP"
UC == "UNENCRYPTED_SRTCP"
UA == "UNAUTHENTICATED_SRTP"
Tokens == {US, UC, UA, "other"}

N80 == "AES_CM_128_HMAC_SHA1_80"
N32 == "AES_CM_128_HMAC_SHA1_32"
\* The names that take no parameter at all, with their suites.
StrictNames == {"AES_256_CM_HMAC_SHA1_32", "AES_256_CM_HMAC_SHA1_80",
                "AES_CM_256_HMAC_SHA1_80", "AEAD_AES_128_GCM", "AEAD_AES_256_GCM"}
Names == {N80, N32, "other"} \cup StrictNames

\* The MSCryptoSuite values; a strict suite is named after its SDP name.
Suites80 == {"AES_128_SHA1_80", "AES_128_SHA1_80_NO_AUTH",
             "AES_128_SHA1_80_SRTP_NO_CIPHER", "AES_128_SHA1_80_SRTCP_NO_CIPHER",
             "AES_128_SHA1_80_NO_CIPHER"}
Suites32 == {"AES_128_SHA1_32", "AES_128_SHA1_32_NO_AUTH"}
Invalid == "CRYPTO_SUITE_INVALID"
Suites == Suites80 \cup Suites32 \cup StrictNames \cup {Invalid}

\* An MSCryptoSuiteNameParams.
Descriptors == [name : Names, params : SUBSET Tokens]

-----------------------------------------------------------------------------
(* ms_crypto_suite_build_from_name_params: the first matching branch of    *)
(* the name, then the first keyword test that succeeds; an unknown name,  *)
(* or a keyword the suite does not allow, goes to error.                   *)
Build(d) ==
  LET us == US \in d.params
      uc == UC \in d.params
      ua == UA \in d.params
  IN  IF d.name = N80
        THEN IF us /\ uc THEN "AES_128_SHA1_80_NO_CIPHER"
             ELSE IF us THEN "AES_128_SHA1_80_SRTP_NO_CIPHER"
             ELSE IF uc THEN "AES_128_SHA1_80_SRTCP_NO_CIPHER"
             ELSE IF ua THEN "AES_128_SHA1_80_NO_AUTH"
             ELSE "AES_128_SHA1_80"
      ELSE IF d.name = N32
        THEN IF us \/ uc THEN Invalid
             ELSE IF ua THEN "AES_128_SHA1_32_NO_AUTH"
             ELSE "AES_128_SHA1_32"
      ELSE IF d.name \in StrictNames
        THEN IF us \/ uc \/ ua THEN Invalid ELSE d.name
      ELSE Invalid

\* ms_crypto_suite_is_unencrypted and ms_crypto_suite_is_unauthenticated.
IsUnencrypted(cs) ==
  cs \in {"AES_128_SHA1_80_SRTP_NO_CIPHER", "AES_128_SHA1_80_SRTCP_NO_CIPHER",
          "AES_128_SHA1_80_NO_CIPHER"}
IsUnauthenticated(cs) == cs \in {"AES_128_SHA1_80_NO_AUTH", "AES_128_SHA1_32_NO_AUTH"}

(* ms_crypto_suite_to_name_params: the SDP name of the suite (none for    *)
(* the invalid suite, which makes the call return -1) and its parameter  *)
(* keywords.                                                               *)
NameOf(cs) ==
  IF cs \in Suites80 THEN N80
  ELSE IF cs \in Suites32 THEN N32
  ELSE IF cs \in StrictNames THEN cs
  ELSE "none"

ParamsOf(cs) ==
  (IF IsUnauthenticated(cs) THEN {UA} ELSE {})
  \cup (IF cs \in {"AES_128_SHA1_80_SRTP_NO_CIPHER", "AES_128_SHA1_80_NO_CIPHER"}
          THEN {US} ELSE {})
  \cup (IF cs \in {"AES_128_SHA1_80_SRTCP_NO_CIPHER", "AES_128_SHA1_80_NO_CIPHER"}
          THEN {UC} ELSE {})

ToName(cs) == [name |-> NameOf(cs), params |-> ParamsOf(cs)]

-----------------------------------------------------------------------------
(* The SDES negotiation of one stream: the offered a=crypto descriptor is *)
(* turned into a suite, and the suite back into the descriptor of the     *)
(* answer.  The descriptors offered are the environment's choice.         *)
VARIABLES
  offer,    \* the descriptor last received
  suite,    \* the suite built from it
  answer    \* the descriptor ms_crypto_suite_to_name_params gives back

vars == <<offer, suite, answer>>

Init ==
  /\ offer \in Descriptors
  /\ suite = Build(offer)
  /\ answer = ToName(suite)

Negotiate(d) ==
  /\ offer' = d
  /\ suite' = Build(d)
  /\ answer' = ToName(Build(d))

Next == \E d \in Descriptors : Negotiate(d)

Spec == Init /\ [][Next]_vars

-----------------------------------------------------------------------------
TypeOK ==
  /\ offer \in Descriptors
  /\ suite \in Suites
  /\ answer \in [name : Names \cup {"none"}, params : SUBSET Tokens]

(* The combinations the table of spec 6 allows: five parameter sets for   *)
(* AES_CM_128_HMAC_SHA1_80, none or UNAUTHENTICATED_SRTP for              *)
(* AES_CM_128_HMAC_SHA1_32, none for the other known names.               *)
TableValid(d) ==
  \/ d.name = N80 /\ d.params \in {{}, {US}, {UC}, {US, UC}, {UA}}
  \/ d.name = N32 /\ d.params \in {{}, {UA}}
  \/ d.name \in StrictNames /\ d.params = {}

(* Spec 6 and 8: a name and parameters the table marks invalid give the  *)
(* Invalid suite and never a valid one                                    *)
(* (ms_crypto_suite_build_from_name_params).                             *)
InvalidRejected == suite # Invalid => TableValid(offer)

=============================================================================
