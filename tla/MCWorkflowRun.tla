--------------------------- MODULE MCWorkflowRun ---------------------------
(* WorkflowRun for TLC: four workflows of three nodes.                       *)
EXTENDS WorkflowRun, TLC

Links(success, failure, always) == [k \in LINK_KINDS |->
  CASE k = "success" -> success [] k = "failure" -> failure [] k = "always" -> always]
Workflow(links, converge, types, unmet, timed) ==
  [link |-> links, converge |-> converge, type |-> types, unmet |-> unmet, timed |-> timed]

\* a job, and after it an approval or another job
Branch == Workflow(Links({<<1, 2>>}, {<<1, 3>>}, {}), {}, <<"job", "approval", "job">>, {}, {2})
\* a job and an approval side by side, and a job that needs both
Converging == Workflow(Links({<<1, 3>>, <<2, 3>>}, {}, {}), {3}, <<"job", "approval", "job">>, {}, {})
\* two approvals at the same time, and a project after the first
TwoApprovals == Workflow(Links({}, {}, {<<1, 3>>}), {}, <<"approval", "approval", "project">>, {}, {2})
\* a node whose condition is not met, one after it whose failure would be handled by the last
Chain == Workflow(Links({<<1, 2>>}, {<<1, 3>>}, {<<2, 3>>}), {}, <<"job", "project", "job">>, {1}, {})

MCGraph == {Branch, Converging, TwoApprovals, Chain}
=============================================================================
