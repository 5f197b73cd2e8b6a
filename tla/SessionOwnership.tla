-------------------------- MODULE SessionOwnership --------------------------
(***************************************************************************)
(* Spec 3's ownership rule for the sub-resources of a stream session,      *)
(* without pointers or structs.  Each object is not yet made, held by the  *)
(* stream, held by a caller that reclaimed it, or released.  The stream    *)
(* owns what it holds until a reclaim hands everything it holds to the     *)
(* caller and leaves it non-owning.  Destroying the stream releases the    *)
(* destroyable objects it holds if it still owns them, and nothing else;   *)
(* the caller later releases the destroyable objects it holds.  Nobody     *)
(* releases an object another holds, and a released object stays so.      *)
(***************************************************************************)
CONSTANTS
  Objects,       \* the sub-resources a session may have
  Destroyable    \* those that session teardown destroys

VARIABLES
  holder,   \* [Objects -> Holders]
  owning,   \* the stream owns what it holds
  open      \* the stream has not been destroyed

vars == <<holder, owning, open>>

Holders == {"none", "stream", "caller", "released"}

\* Every object h holds that teardown destroys is released.
ReleaseAll(h) ==
  holder' = [r \in Objects |->
               IF holder[r] = h /\ r \in Destroyable THEN "released" ELSE holder[r]]

Init ==
  /\ holder \in [Objects -> {"none", "stream"}]
  /\ owning = TRUE
  /\ open = TRUE

\* A stream that is not destroyed makes a new object of a kind it lacks.
Create(r) ==
  /\ open
  /\ holder[r] = "none"
  /\ holder' = [holder EXCEPT ![r] = "stream"]
  /\ UNCHANGED <<owning, open>>

\* The caller takes everything the stream holds; the stream stops owning.
Reclaim ==
  /\ open
  /\ holder' = [r \in Objects |-> IF holder[r] = "stream" THEN "caller" ELSE holder[r]]
  /\ owning' = FALSE
  /\ UNCHANGED open

\* The stream is destroyed, releasing what it holds only if it owns it.
Destroy ==
  /\ open
  /\ open' = FALSE
  /\ IF owning THEN ReleaseAll("stream") ELSE UNCHANGED holder
  /\ UNCHANGED owning

\* Once the stream is gone, the caller releases what it reclaimed.
CallerRelease ==
  /\ ~open
  /\ \E r \in Destroyable : holder[r] = "caller"
  /\ ReleaseAll("caller")
  /\ UNCHANGED <<owning, open>>

Next == (\E r \in Objects : Create(r)) \/ Reclaim \/ Destroy \/ CallerRelease

Spec == Init /\ [][Next]_vars

=============================================================================
