---------------------------- MODULE MCWorkflowRun ----------------------------
(***************************************************************************)
(* Values for TLC: the canonical chain is what ingest builds; callers have *)
(* a chain of one step and one whose reviewer comes first.                 *)
(***************************************************************************)
EXTENDS WorkflowRun

MCDefsLong == {<<Step("code-reviewer", TRUE), Step("coder", TRUE)>>}
MCDefs == MCDefsLong \cup {<<Step("planner", TRUE)>>}

\* A refusal that quotes approval, blocks short and long.  A done task without
\* a reply is approval.
MCReplies == {{"CHANGES_REQUESTED", "APPROVED"},
              {"BLOCKED", "APPROVED"}, {"BLOCKED", "cut"}}
MCRepliesMild == {{"CHANGES_REQUESTED"}}

\* At most two of a caller's operation, a late report, a crash and a failure;
\* at most one where liveness is checked.  None of them is fair.
TwoTroubles == ops + redone + crashes + faults <= 2
OneTrouble  == ops + redone + crashes + faults <= 1
=============================================================================
