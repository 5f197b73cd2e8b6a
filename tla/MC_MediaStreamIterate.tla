------------------------ MODULE MC_MediaStreamIterate ------------------------
(* Seconds are scaled so that a run of 5 s sees the beginning phase end:   *)
(* BeginningPeriod is 2 here.  A timeout of 1 s lets a stream go silent    *)
(* and be declared dead inside the run.  The run also checks IInv, the   *)
(* inductive invariant of MediaStreamIterateProofs.                       *)
EXTENDS MediaStreamIterateProofs

MCBeginningPeriod == 2
=============================================================================
