--------------------------- MODULE MCPlannerLoop ---------------------------
EXTENDS PlannerLoop

\* What an earlier run of the server left: a session that a crash cut off, or one
\* that was completed.
MCFirstRecords ==
    {<<[status |-> status, updated |-> 0, audio |-> TRUE]>> : status \in {"running", "completed"}}

MCRequirements == {[tracks |-> {1, 2}, parts |-> {1}]}
MCRequests == {[tracks |-> {1}, parts |-> {1}], [tracks |-> {1, 2}, parts |-> {1, 2}]}
=============================================================================
