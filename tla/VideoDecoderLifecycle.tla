------------------------ MODULE VideoDecoderLifecycle ------------------------
(***************************************************************************)
(* What spec 5 promises of an asynchronous hardware video decoder, without *)
(* threads, locks or parameter sets: a decoding session is opened, takes   *)
(* frames, delivers each one exactly once, and is closed only when nothing *)
(* is pending; a result delivered while the session is closing never       *)
(* reaches the output queue; the decoder object is retired with no open    *)
(* session.                                                                *)
(***************************************************************************)
EXTENDS Naturals

CONSTANTS
  MaxPending,   \* frames the session holds at once
  MaxOut        \* decoded frames the output queue holds at once

VARIABLES
  status,       \* "none", "active", "closing" or "gone"
  pending,      \* frames submitted and not yet delivered
  out           \* decoded frames waiting to be fetched

vars == <<status, pending, out>>

Init == status = "none" /\ pending = 0 /\ out = 0

Open ==
  /\ status = "none" /\ status' = "active"
  /\ UNCHANGED <<pending, out>>

Submit ==
  /\ status = "active" /\ pending < MaxPending
  /\ pending' = pending + 1
  /\ UNCHANGED <<status, out>>

\* A delivery while closing is dropped; otherwise it is queued.
Deliver ==
  /\ pending > 0
  /\ pending' = pending - 1
  /\ \/ status = "closing" /\ out' = out
     \/ status = "active" /\ out < MaxOut /\ out' = out + 1
  /\ UNCHANGED status

Take ==
  /\ out > 0 /\ out' = out - 1
  /\ UNCHANGED <<status, pending>>

BeginClose ==
  /\ status = "active" /\ status' = "closing"
  /\ UNCHANGED <<pending, out>>

\* The session is released only once nothing is pending.
Close ==
  /\ status = "closing" /\ pending = 0
  /\ status' \in {"none", "gone"}
  /\ UNCHANGED <<pending, out>>

Retire ==
  /\ status = "none" /\ status' = "gone"
  /\ UNCHANGED <<pending, out>>

Next == Open \/ Submit \/ Deliver \/ Take \/ BeginClose \/ Close \/ Retire

Spec == Init /\ [][Next]_vars

=============================================================================
