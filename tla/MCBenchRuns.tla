---------------------------- MODULE MCBenchRuns ----------------------------
(* Two runs, so that one can be started beside, after or over the other.   *)
(* The watched one has two passes of three cases on two workers, so that a *)
(* worker can finish out of order and another hold a case when a pass is   *)
(* broken off; the other has a single case.                                *)
EXTENDS BenchRuns
CONSTANTS r1, r2
MCRuns == {r1, r2}
MCPasses == [r \in MCRuns |-> IF r = r1 THEN 2 ELSE 1]
MCCases == [r \in MCRuns |-> IF r = r1 THEN 3 ELSE 1]
=============================================================================
