----------------------------- MODULE ReviewLoop -----------------------------
(***************************************************************************)
(* What a workflow run promises: it consumes one finished step at a time   *)
(* and logs a verdict for each, every verdict has its consequence, and a   *)
(* run that is done or failed never moves again.                           *)
(***************************************************************************)
EXTENDS Naturals, Sequences, FiniteSets

CONSTANTS Runs, MAX_FIXUP_ROUNDS

VARIABLES status, step, log

loopVars == <<status, step, log>>

Rounds(r) == Cardinality({i \in DOMAIN log[r] :
                            log[r][i] = "changes_requested"})

Init == /\ status = [r \in Runs |-> "none"]
        /\ step = [r \in Runs |-> 0]
        /\ log = [r \in Runs |-> << >>]

Become(r, st, k) == /\ status' = [status EXCEPT ![r] = st]
                    /\ step' = [step EXCEPT ![r] = k]
Logs(r, v) == log' = [log EXCEPT ![r] = Append(@, v)]

Start(r) == /\ status[r] = "none"
            /\ Become(r, "running", 0) /\ UNCHANGED log

\* The task of the current step failed for good.
Abort(r) == /\ status[r] = "running"
            /\ Become(r, "failed", step[r]) /\ UNCHANGED log

Block(r) == /\ status[r] = "running"
            /\ Logs(r, "blocked") /\ Become(r, "failed", step[r])

Rework(r) == /\ status[r] = "running"
             /\ Logs(r, "changes_requested")
             /\ IF Rounds(r) < MAX_FIXUP_ROUNDS
                THEN Become(r, "running", 0)
                ELSE Become(r, "failed", step[r])

\* One step further, or the end of the chain, or of the definition.
Accept(r) == /\ status[r] = "running"
             /\ \E v \in {"none", "approved"} : Logs(r, v)
             /\ \/ \E st \in {"running", "done"} : Become(r, st, step[r] + 1)
                \/ Become(r, "failed", step[r])

Next == \E r \in Runs :
          Start(r) \/ Abort(r) \/ Block(r) \/ Rework(r) \/ Accept(r)

Spec == Init /\ [][Next]_loopVars
=============================================================================
