----------------------------- MODULE MCTaskRunner -----------------------------
(* Three servers, and no limit, one slot, or two: with one slot two jobs   *)
(* queue behind the first, with two a third waits while two run.  One     *)
(* server may be silent.                                                   *)
EXTENDS TaskRunner

CONSTANTS j1, j2, j3

MCJobs == {j1, j2, j3}
MCLimits == 0..2
MCHangs == {{}, {j1}}
=============================================================================
