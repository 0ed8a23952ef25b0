---------------------------- MODULE TaskLifecycle ----------------------------
(***************************************************************************)
(* What the queue promises about one task: it is attempted one turn at a   *)
(* time, a transient failure puts it back at most MaxRetries times, and    *)
(* once it is done or failed it stays so.  A statement of the lake that    *)
(* fails may lose the task in its turn, or forget how often it was tried.  *)
(***************************************************************************)
EXTENDS Naturals

CONSTANTS Tasks, MaxRetries, MaxFaults

VARIABLES status, retry, faults

lifeVars == <<status, retry, faults>>

Init == /\ status = [t \in Tasks |-> "absent"]
        /\ retry = [t \in Tasks |-> 0]
        /\ faults = 0

Move(t, from, to) == /\ status[t] = from
                     /\ status' = [status EXCEPT ![t] = to]

\* A statement of the lake fails.
Fault == faults < MaxFaults /\ faults' = faults + 1

Submit(t) == Move(t, "absent", "pending") /\ UNCHANGED <<retry, faults>>

Begin(t) == Move(t, "pending", "running") /\ UNCHANGED <<retry, faults>>

Succeed(t) == Move(t, "running", "done") /\ UNCHANGED <<retry, faults>>

\* A statement may fail in it that makes no difference.
GiveUp(t) == /\ Move(t, "running", "failed") /\ UNCHANGED retry
             /\ UNCHANGED faults \/ Fault

PutBack(t) == /\ retry[t] < MaxRetries
              /\ Move(t, "running", "pending")
              /\ retry' = [retry EXCEPT ![t] = @ + 1]
              /\ UNCHANGED faults

EndOfTurn(t) == Succeed(t) \/ GiveUp(t) \/ PutBack(t)

\* It loses the task in its turn, forgets its tries, or touches nothing here.
Lose(t) == /\ Move(t, "running", "lost") /\ Fault
           /\ retry' \in {retry, [retry EXCEPT ![t] = 0]}

Forget(t) == /\ MaxRetries > 0
             /\ Move(t, "running", "pending") /\ Fault
             /\ retry' = [retry EXCEPT ![t] = 1]

Slip == Fault /\ UNCHANGED <<status, retry>>

Next == \/ \E t \in Tasks : \/ Submit(t) \/ Begin(t) \/ EndOfTurn(t)
                            \/ Lose(t) \/ Forget(t)
        \/ Slip

Spec == Init /\ [][Next]_lifeVars
=============================================================================
