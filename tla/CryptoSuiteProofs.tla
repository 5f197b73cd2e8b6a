-------------------------- MODULE CryptoSuiteProofs --------------------------
(***************************************************************************)
(* Proofs that the two SDES crypto-suite conversions of mediastream.c are  *)
(* inverse on everything the table of spec 6 allows, and that the         *)
(* unencrypted and unauthenticated classifiers agree with the parameters. *)
(***************************************************************************)
EXTENDS CryptoSuite, TLAPS

(* Every valid suite survives ms_crypto_suite_to_name_params followed by  *)
(* ms_crypto_suite_build_from_name_params.                                 *)
THEOREM SuiteRoundTrip ==
  \A cs \in Suites \ {Invalid} : Build(ToName(cs)) = cs
<1> SUFFICES ASSUME NEW cs \in Suites \ {Invalid} PROVE Build(ToName(cs)) = cs
  OBVIOUS
<1>1. CASE cs \in Suites80
  BY <1>1 DEF Suites80, Build, ToName, NameOf, ParamsOf, IsUnauthenticated,
     N80, N32, US, UC, UA, StrictNames, Suites32
<1>2. CASE cs \in Suites32
  BY <1>2 DEF Suites32, Build, ToName, NameOf, ParamsOf, IsUnauthenticated,
     N80, N32, US, UC, UA, StrictNames, Suites80
<1>3. CASE cs \in StrictNames
  BY <1>3 DEF Suites80, Suites32, Build, ToName, NameOf, ParamsOf,
     IsUnauthenticated, N80, N32, US, UC, UA, StrictNames
<1>4. QED
  BY <1>1, <1>2, <1>3 DEF Suites

(* Every descriptor the table of spec 6 allows gives a valid suite whose  *)
(* descriptor is the one offered: an SDES answer repeats the offer.       *)
THEOREM DescriptorRoundTrip ==
  \A d \in Descriptors : TableValid(d) => Build(d) # Invalid /\ ToName(Build(d)) = d
<1> SUFFICES ASSUME NEW d \in Descriptors, TableValid(d)
             PROVE  Build(d) # Invalid /\ ToName(Build(d)) = d
  OBVIOUS
<1>1. d = [name |-> d.name, params |-> d.params]
  BY DEF Descriptors
<1> USE DEF Build, ToName, NameOf, ParamsOf, IsUnauthenticated, N80, N32,
            US, UC, UA, StrictNames, Suites80, Suites32, Invalid
<1>2. CASE d.name = N80
  <2>1. CASE d.params = {}
    BY <1>1, <1>2, <2>1
  <2>2. CASE d.params = {US}
    BY <1>1, <1>2, <2>2
  <2>3. CASE d.params = {UC}
    BY <1>1, <1>2, <2>3
  <2>4. CASE d.params = {US, UC}
    BY <1>1, <1>2, <2>4
  <2>5. CASE d.params = {UA}
    BY <1>1, <1>2, <2>5
  <2>6. QED
    BY <1>2, <2>1, <2>2, <2>3, <2>4, <2>5 DEF TableValid
<1>3. CASE d.name = N32
  <2>1. CASE d.params = {}
    BY <1>1, <1>3, <2>1
  <2>2. CASE d.params = {UA}
    BY <1>1, <1>3, <2>2
  <2>3. QED
    BY <1>3, <2>1, <2>2 DEF TableValid
<1>4. CASE d.name \in StrictNames
  <2>1. d.params = {}
    BY <1>4 DEF TableValid
  <2>2. QED
    BY <1>1, <1>4, <2>1
<1>5. QED
  BY <1>2, <1>3, <1>4 DEF TableValid

(* For a descriptor the table allows, ms_crypto_suite_is_unencrypted holds *)
(* exactly when it asks for an UNENCRYPTED_* keyword, and                  *)
(* ms_crypto_suite_is_unauthenticated exactly when it asks for             *)
(* UNAUTHENTICATED_SRTP.                                                   *)
THEOREM FlagsFollowParams ==
  \A d \in Descriptors :
    TableValid(d) =>
      /\ IsUnencrypted(Build(d)) <=> d.params \cap {US, UC} # {}
      /\ IsUnauthenticated(Build(d)) <=> UA \in d.params
<1> SUFFICES ASSUME NEW d \in Descriptors, TableValid(d)
             PROVE  /\ IsUnencrypted(Build(d)) <=> d.params \cap {US, UC} # {}
                    /\ IsUnauthenticated(Build(d)) <=> UA \in d.params
  OBVIOUS
<1> USE DEF Build, IsUnencrypted, IsUnauthenticated, N80, N32, US, UC, UA,
            StrictNames, Invalid
<1>1. CASE d.name = N80
  BY <1>1 DEF TableValid
<1>2. CASE d.name = N32
  BY <1>2 DEF TableValid
<1>3. CASE d.name \in StrictNames
  BY <1>3 DEF TableValid
<1>4. QED
  BY <1>1, <1>2, <1>3 DEF TableValid
=============================================================================
