----------------------------- MODULE TaskService -----------------------------
(***************************************************************************)
(* The queue as those see it who submit tasks and poll their rows: what    *)
(* WorkflowRun assumes of it and TaskQueue provides.  A task is pending    *)
(* until its dispatch reports; once it is done or failed it stays so,      *)
(* unless an operator resets it, an outage loses it, or another dispatch   *)
(* of it is still under way and reports late.  A response is there as long *)
(* as its task is not put back.  To put a task back is to delete it and    *)
(* insert it again, and the second half may fail.                          *)
(***************************************************************************)
EXTENDS Naturals

CONSTANTS Tasks, Texts, NoText

VARIABLES
  status, text,  \* what get_task and get_response read
  late,          \* settled tasks with another dispatch in the air
  used,          \* submitted so far
  calls,         \* calls of the retry endpoints
  epoch          \* changes with every crash and every start

serviceVars == <<status, text, late, used, calls, epoch>>

Settled == {"done", "failed"}
Present == {t \in Tasks : status[t] # "absent"}

Init ==
  /\ status = [t \in Tasks |-> "absent"]
  /\ text = [t \in Tasks |-> NoText]
  /\ late = {} /\ used = {}

Submit(t) ==
  /\ t \notin used
  /\ used' = used \cup {t}
  /\ status' = [status EXCEPT ![t] = "pending"]
  /\ UNCHANGED <<text, late, calls, epoch>>

\* A dispatch of t writes what it has, a response or a status, or ends.
Report(t, st, x) ==
  /\ status[t] = "pending" \/ t \in late
  /\ x = NoText => text[t] = NoText \/ st = "pending"
  /\ status' = [status EXCEPT ![t] = st]
  /\ text' = [text EXCEPT ![t] = x]
  /\ IF st = "pending" THEN late' = late \ {t}
                       ELSE late' \in {late \cup {t}, late \ {t}}
  /\ UNCHANGED <<used, calls, epoch>>

\* A call of a retry endpoint puts those tasks back.
Retry(S) ==
  /\ calls' = calls + 1
  /\ S \subseteq Present
  /\ status' = [t \in Tasks |-> IF t \in S THEN "pending" ELSE status[t]]
  /\ text' = [t \in Tasks |-> IF t \in S THEN NoText ELSE text[t]]
  /\ late' = late \ S
  /\ UNCHANGED <<used, epoch>>

\* A dispatch of t or a retry deletes the row and fails to insert it again.
Lose(t) ==
  /\ t \in Present
  /\ \/ (status[t] = "pending" \/ t \in late) /\ UNCHANGED calls
     \/ calls' = calls + 1
  /\ status' = [status EXCEPT ![t] = "absent"]
  /\ text' = [text EXCEPT ![t] = NoText]
  /\ late' = late \ {t}
  /\ UNCHANGED <<used, epoch>>

\* The process dies or starts, and those rows are lost on the way.
Outage(S) ==
  /\ epoch' # epoch
  /\ S \subseteq Present
  /\ status' = [t \in Tasks |-> IF t \in S THEN "absent" ELSE status[t]]
  /\ text' = [t \in Tasks |-> IF t \in S THEN NoText ELSE text[t]]
  /\ late' = {}
  /\ UNCHANGED <<used, calls>>

Next ==
  \/ \E t \in Tasks :
       \/ Submit(t)
       \/ /\ status'[t] \in {"pending"} \cup Settled
          /\ text'[t] \in Texts \cup {NoText}
          /\ Report(t, status'[t], text'[t])
       \/ Lose(t)
  \/ \E S \in SUBSET Tasks : Retry(S) \/ Outage(S)

Spec == Init /\ [][Next]_serviceVars
=============================================================================
