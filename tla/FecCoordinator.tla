--------------------------- MODULE FecCoordinator ---------------------------
(***************************************************************************)
(* The FlexFEC set-up of a MediaStream (src/src/voip/mediastream.c):       *)
(* media_stream_handle_fec and the parameter extraction it calls,          *)
(* media_stream_extract_fec_params.                                       *)
(*                                                                         *)
(* An fmtp attribute value is a sequence of characters abstracted to what  *)
(* atoi tells apart: a digit (0..9), a minus sign and any other character. *)
(* fmtp_get_value copies the value into a buffer of BufSize bytes, so at   *)
(* most BufSize - 1 characters of it reach atoi.                           *)
(***************************************************************************)
EXTENDS Integers, Sequences, SequencesExt

CONSTANTS
  Fmtps,       \* the flexfec fmtp attributes a negotiated profile may carry
  MaxCalls     \* calls of media_stream_handle_fec with a flexfec profile

Digits == 0..9
Minus == 10
Other == 11
Chars == Digits \cup {Minus, Other}

\* An fmtp parameter: whether fmtp_get_value finds the key, and its value.
Value == [found : BOOLEAN, chars : Seq(Chars)]
Fmtp == [rw : Value, L : Value, D : Value]
Keys == {"rw", "L", "D"}

ASSUME FecAssumption ==
  /\ Fmtps \subseteq Fmtp
  /\ MaxCalls \in Nat \ {0}

\* max_size, and the literal 10 given for L and D.
BufSize == 10

\* The defaults of media_stream_extract_fec_params.
Default == [rw |-> 100000, L |-> 10, D |-> 0]

MinOf(a, b) == IF a < b THEN a ELSE b

(* Mutant: a buffer one byte shorter than the one passed.                 *)
FmtpGetValueShortBuffer(v) == SubSeq(v.chars, 1, MinOf(Len(v.chars), BufSize - 2))

(* What fmtp_get_value leaves in the buffer: the value, cut to fit with    *)
(* its terminating NUL.                                                    *)
FmtpGetValue(v) == SubSeq(v.chars, 1, MinOf(Len(v.chars), BufSize - 1))

(* atoi: an optional minus sign, then the longest run of digits, read in  *)
(* base 10; no digit gives 0.                                              *)
Atoi(s) ==
  LET neg  == s # << >> /\ s[1] = Minus
      body == IF neg THEN Tail(s) ELSE s
      stop == SelectInSeq(body, LAMBDA c : c \notin Digits)
      run  == IF stop = 0 THEN body ELSE SubSeq(body, 1, stop - 1)
      n    == FoldLeft(LAMBDA acc, d : 10 * acc + d, 0, run)
  IN  IF neg THEN -n ELSE n

(* One parameter: atoi of the buffer when the key is found, else the      *)
(* default.                                                                *)
ReadParam(v, default) == IF v.found THEN Atoi(FmtpGetValue(v)) ELSE default

(* media_stream_extract_fec_params.                                        *)
ExtractFecParams(f) == [k \in Keys |-> ReadParam(f[k], Default[k])]

VARIABLES
  jitter,       \* jitter compensation of the primary RTP session (ms)
  fecSession,   \* sessions.fec_session != NULL
  fecStreams,   \* FEC stream objects created by fec_stream_new so far
  params,       \* the parameters of the stream ms->fec_stream points at
  lastFmtp      \* the fmtp those parameters were extracted from

vars == <<jitter, fecSession, fecStreams, params, lastFmtp>>

NoFmtp == [found |-> FALSE, chars |-> << >>]

Init ==
  /\ jitter = 0
  /\ fecSession = FALSE
  /\ fecStreams = 0
  /\ params = Default
  /\ lastFmtp = [k \in Keys |-> NoFmtp]

(* media_stream_handle_fec with a profile holding a "flexfec" payload     *)
(* type whose fmtp is f (without one the function returns at once).  The  *)
(* jitter compensation is set to 200 ms, the FEC session created if there *)
(* is none and bound into the bundle, and a new FEC stream made from the  *)
(* extracted parameters replaces ms->fec_stream.                           *)
HandleFec(f) ==
  /\ fecStreams < MaxCalls
  /\ jitter' = 200
  /\ fecSession' = TRUE
  /\ fecStreams' = fecStreams + 1
  /\ params' = ExtractFecParams(f)
  /\ lastFmtp' = f

Next == \E f \in Fmtps : HandleFec(f)

Spec == Init /\ [][Next]_vars

-----------------------------------------------------------------------------
TypeOK ==
  /\ jitter \in {0, 200}
  /\ fecSession \in BOOLEAN
  /\ fecStreams \in 0..MaxCalls
  /\ params \in [Keys -> Int]
  /\ lastFmtp \in Fmtp

\* The decimal number a string of digits denotes, by positional weights.
Decimal(s) ==
  LET w[i \in 0..Len(s)] == IF i = 0 THEN 1 ELSE 10 * w[i - 1]
      val[i \in 0..Len(s)] == IF i = 0 THEN 0 ELSE val[i - 1] + s[i] * w[Len(s) - i]
  IN  val[Len(s)]

(* Spec 3 and 7: the FEC stream's parameters are the fmtp values when they *)
(* are well-formed numbers that fit in the parser's buffer, and the       *)
(* defaults (repair window 100000, L 10, D 0) when the attribute is absent. *)
ParamsFollowFmtp ==
  fecStreams > 0 =>
    \A k \in Keys :
      /\ ~lastFmtp[k].found => params[k] = Default[k]
      /\ lastFmtp[k].found /\ lastFmtp[k].chars \in Seq(Digits)
         /\ 0 < Len(lastFmtp[k].chars) /\ Len(lastFmtp[k].chars) < BufSize
         => params[k] = Decimal(lastFmtp[k].chars)

=============================================================================
