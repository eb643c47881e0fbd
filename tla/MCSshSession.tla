----------------------------- MODULE MCSshSession -----------------------------
(* Two servers, and no limit or one slot, for which the second waits.  The *)
(* session of one is followed, and it may be silent instead.               *)
EXTENDS SshSession

CONSTANTS j1, j2

MCJobs == {j1, j2}
MCLimits == 0..1
MCHangs == {{}, {j1}}
=============================================================================
