--------------------------- MODULE MCLiftScheduler --------------------------
(***************************************************************************)
(* Two instances of LiftScheduler.  The budget is 4; r (3) and the binja   *)
(* jobs b and c (2 each) do not fit beside each other, o (6) is oversized, *)
(* so a job of either pool may have to wait for one of the other.          *)
(***************************************************************************)
EXTENDS LiftScheduler

CONSTANTS r, o, b, c

MCJobList == <<r, b, c, o>>
MCShortList == <<r, b, o>>
MCLicensed == {b, c} \cap Jobs
MCEstimate == [j \in Jobs |-> CASE j = r -> 3 [] j = o -> 6 [] OTHER -> 2]
=============================================================================
