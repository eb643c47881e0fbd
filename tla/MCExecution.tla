----------------------------- MODULE MCExecution -----------------------------
(* Two executions, so that one can be the retry of the other; two servers, *)
(* so that a report can be a partial failure.  The safety run selects both *)
(* servers each time; the liveness run follows one execution and lets      *)
(* requests select any of them.                                            *)
EXTENDS Execution

CONSTANTS e1, e2, s1, s2

MCExecIds == {e1, e2}
MCServers == {s1, s2}
MCSelections == {MCServers}
MCAllSelections == (SUBSET MCServers) \ {{}}
=============================================================================
