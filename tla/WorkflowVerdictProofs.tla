------------------------ MODULE WorkflowVerdictProofs ------------------------
(***************************************************************************)
(* What a reviewer said of the runs that are done, and that the runs use   *)
(* the queue only as TaskService describes it: theorems about WorkflowRun  *)
(* for every value of its constants.                                       *)
(***************************************************************************)
EXTENDS WorkflowBudgetProofs

\* No operator interfered and no task was dispatched twice.
Quiet == ops = 0 /\ redone = 0
Refusals == {"BLOCKED", "CHANGES_REQUESTED"}

\* Tasks that will not change any more, but for an outage.
Lasting(t) == t \in used /\ status[t] # "pending"

\* Only reviewers' tasks have replies.
Spoken == \A t \in TaskIds :
  text[t] # {} => t \in used /\ made[t].agent = "code-reviewer"
\* The reply that is judged is the last one of its task.
Reading == Quiet => \A r \in Runs :
  Turn(r, "read") => status[runs[r].task] # "pending"
Accepted == Quiet => \A r \in Runs :
  runs[r].status = "done" =>
    /\ runs[r].outputs # << >>
    /\ LET t == runs[r].outputs[Len(runs[r].outputs)].task IN
       Lasting(t) /\ text[t] \cap Refusals = {}

VerdictInv == Spoken /\ (Quiet => late = {}) /\ Reading /\ Accepted

\* What a step of the queue may do.
QueueKeeps ==
  /\ Spoken'
  /\ Quiet' => /\ Quiet /\ late' = {}
               /\ \A t \in TaskIds :
                    Lasting(t) => Lasting(t)' /\ text'[t] \subseteq text[t]

-----------------------------------------------------------------------------
(* The queue.                                                              *)

\* Building an envelope leaves submitted tasks alone.
LEMMA MadeKeeps ==
  ASSUME RunInv, NEW t \in TaskIds, IsFresh(t), NEW x,
         made' = [made EXCEPT ![t] = x]
  PROVE  t \notin used /\ \A u \in used : made'[u] = made[u]
<1>1. t \notin used
  BY UnusedMade
<1> QED
  BY <1>1 DEF RunInv, TypeOK

LEMMA IdleKeeps ==
  ASSUME RunInv, VerdictInv, UNCHANGED <<queueVars, redone>>, ops' \in {ops, ops + 1},
         \A u \in used : made'[u] = made[u]
  PROVE  QueueKeeps
<1>1. UNCHANGED <<status, text, late, used>>
  BY DEF queueVars
<1>2. Quiet' => Quiet
  BY CountTypes DEF Quiet
<1> QED
  BY <1>1, <1>2 DEF VerdictInv, QueueKeeps, Spoken, Lasting

LEMMA SubmitKeeps ==
  ASSUME RunInv, VerdictInv, NEW t \in TaskIds, Queue!Submit(t), redone' = redone,
         \A u \in used : made'[u] = made[u]
  PROVE  QueueKeeps
<1>1. /\ t \notin used /\ used' = used \cup {t}
      /\ status' = [status EXCEPT ![t] = "pending"]
      /\ UNCHANGED <<text, late, ops>>
  BY DEF Queue!Submit
<1>2. \A u \in used : status'[u] = status[u]
  BY <1>1 DEF RunInv, TypeOK
<1>3. Spoken'
  BY <1>1 DEF VerdictInv, Spoken
<1> QED
  BY <1>1, <1>2, <1>3 DEF VerdictInv, QueueKeeps, Quiet, Lasting

LEMMA ReportKeeps ==
  ASSUME RunInv, VerdictInv, NEW t \in TaskIds, NEW st \in {"pending", "done", "failed"},
         NEW x, Queue!Report(t, st, x), made' = made,
         x = {} \/ x = text[t] \/ made[t].agent = "code-reviewer",
         redone' \in {redone, redone + 1}, t \in late' => redone' = redone + 1
  PROVE  QueueKeeps
<1>1. /\ status[t] = "pending" \/ t \in late
      /\ status' = [status EXCEPT ![t] = st] /\ text' = [text EXCEPT ![t] = x]
      /\ late' \in {late \cup {t}, late \ {t}}
      /\ UNCHANGED <<used, ops>>
  BY DEF Queue!Report
<1>2. /\ status \in [TaskIds -> {"absent", "pending", "done", "failed"}]
      /\ text \in [TaskIds -> SUBSET Words]
      /\ late \subseteq {u \in TaskIds : status[u] \in {"done", "failed"}}
  BY DEF RunInv, TypeOK
<1>3. t \in used
  BY <1>1, <1>2 DEF RunInv, QueueFits
<1>4. Spoken'
  BY <1>1, <1>2, <1>3 DEF VerdictInv, Spoken
<1>5. ASSUME Quiet'
      PROVE  Quiet /\ t \notin late'
  BY <1>1, <1>5, CountTypes DEF Quiet
<1>6. ASSUME Quiet', NEW u \in TaskIds, Lasting(u)
      PROVE  Lasting(u)' /\ text'[u] \subseteq text[u]
  <2>1. u # t
    BY <1>1, <1>5, <1>6 DEF VerdictInv, Lasting
  <2> QED
    BY <1>1, <1>2, <1>6, <2>1 DEF Lasting
<1> QED
  BY <1>1, <1>4, <1>5, <1>6 DEF VerdictInv, QueueKeeps

LEMMA QueueStep ==
  ASSUME RunInv, VerdictInv, [Next]_vars
  PROVE  QueueKeeps
<1>1. ASSUME NEW r \in Runs, Ingest(r)
      PROVE  QueueKeeps
  <2>1. PICK t \in TaskIds :
          IsFresh(t) /\ made' = [made EXCEPT ![t] = MadeFor(r, "coder", 0)]
    BY <1>1, Zenon DEF Ingest
  <2>2. UNCHANGED <<queueVars, redone, ops>>
    BY <1>1 DEF Ingest, boundVars
  <2> QED
    BY <2>1, <2>2, MadeKeeps, IdleKeeps
<1>2. ASSUME NEW r \in Runs, IngestSubmits(r)
      PROVE  QueueKeeps
  <2>1. runs[r].task \in drafts /\ Queue!Submit(runs[r].task)
        /\ UNCHANGED <<made, redone>>
    BY <1>2 DEF IngestSubmits
  <2>2. runs[r].task \in TaskIds
    BY <2>1 DEF RunInv, TypeOK
  <2> QED
    BY <2>1, <2>2, SubmitKeeps
<1>3. ASSUME NEW r \in Runs, NEW w \in Flows, RunWorkflow(r, w)
      PROVE  QueueKeeps
  <2>1. PICK t \in TaskIds :
          /\ IsFresh(t) /\ Queue!Submit(t)
          /\ made' = [made EXCEPT ![t] = MadeFor(r, flows[w].steps[1].agent, 0)]
    BY <1>3, Zenon DEF RunWorkflow
  <2>2. redone' = redone
    BY <1>3 DEF RunWorkflow
  <2> QED
    BY <2>1, <2>2, MadeKeeps, SubmitKeeps
<1>4. ASSUME NEW t \in TaskIds, NEW st \in {"done", "failed"}, Report(t, st)
      PROVE  QueueKeeps
  <2>1. PICK x \in {text[t]} \cup IF st = "done" /\ made[t].agent = "code-reviewer"
                                  THEN Replies ELSE {} :
           Queue!Report(t, st, x)
    BY <1>4 DEF Report
  <2>2. made' = made /\ redone' = IF t \in late' THEN redone + 1 ELSE redone
    BY <1>4 DEF Report
  <2>3. x = text[t] \/ made[t].agent = "code-reviewer"
    BY <2>1
  <2> QED
    BY <2>1, <2>2, <2>3, ReportKeeps
<1>5. ASSUME NEW t \in TaskIds, Queue!Report(t, "pending", {}),
             UNCHANGED <<made, redone>>
      PROVE  QueueKeeps
  <2>1. t \notin late'
    BY <1>5 DEF Queue!Report
  <2> QED
    BY <1>5, <2>1, ReportKeeps
<1>6. ASSUME NEW t \in TaskIds, RetryTask(t)
      PROVE  QueueKeeps
  <2>1. /\ text' = [u \in TaskIds |-> IF u \in {t} THEN {} ELSE text[u]]
        /\ ops' = ops + 1 /\ used' = used /\ made' = made
    BY <1>6 DEF RetryTask, Queue!Retry
  <2>2. ~Quiet'
    BY <2>1, CountTypes DEF Quiet
  <2> QED
    BY <2>1, <2>2 DEF VerdictInv, QueueKeeps, Spoken
<1>7. CASE Crash
  <2>1. PICK gone : Queue!Outage(gone)
    BY <1>7 DEF Crash
  <2>2. /\ status' = [t \in TaskIds |-> IF t \in gone THEN "absent" ELSE status[t]]
        /\ text' = [t \in TaskIds |-> IF t \in gone THEN {} ELSE text[t]]
        /\ late' = {} /\ UNCHANGED <<used, ops>>
    BY <2>1 DEF Queue!Outage
  <2>3. UNCHANGED <<made, redone>>
    BY <1>7 DEF Crash
  <2> QED
    BY <2>2, <2>3 DEF VerdictInv, QueueKeeps, Spoken, Quiet, Lasting
<1>8. ASSUME NEW r \in Runs, NEW k, Submit(r, k)
      PROVE  QueueKeeps
  <2>1. PICK t \in TaskIds :
          /\ IsFresh(t) /\ Queue!Submit(t)
          /\ made' = [made EXCEPT ![t] = MadeFor(r, StepsOf(r)[k + 1].agent, k)]
    BY <1>8, Zenon DEF Submit
  <2>2. redone' = redone
    BY <1>8 DEF Submit
  <2> QED
    BY <2>1, <2>2, MadeKeeps, SubmitKeeps
<1>9. ASSUME UNCHANGED <<taskVars, redone>>, ops' \in {ops, ops + 1}
      PROVE  QueueKeeps
  BY <1>9, IdleKeeps DEF taskVars
<1>10. ASSUME NEW r \in Runs, InsertRun(r)
       PROVE  QueueKeeps
  BY <1>9, <1>10 DEF InsertRun, boundVars
<1>11. ASSUME NEW w \in Flows,
              CreateWorkflow(w) \/ CreateFails(w) \/ DeleteWorkflow(w)
       PROVE  QueueKeeps
  BY <1>9, <1>11 DEF CreateWorkflow, CreateFails, DeleteWorkflow, Fault
<1>16. ASSUME NEW r \in Runs, IngestFails(r) \/ InsertRunFails(r) \/ TurnFails(r)
       PROVE  QueueKeeps
  BY <1>9, <1>16 DEF IngestFails, InsertRunFails, TurnFails, Fault
<1>19. CASE Hangs
  BY <1>9, <1>19 DEF Hangs, Fault
<1>17. ASSUME NEW r \in Runs, IngestSubmitFails(r)
       PROVE  QueueKeeps
  BY <1>17, IdleKeeps DEF IngestSubmitFails, Fault
<1>18. ASSUME NEW t \in TaskIds, LoseTask(t)
       PROVE  QueueKeeps
  <2>1. /\ status' = [status EXCEPT ![t] = "absent"]
        /\ text' = [text EXCEPT ![t] = {}]
        /\ late' = late \ {t} /\ used' = used /\ made' = made
        /\ redone' = redone /\ ops' \in {ops, ops + 1}
    BY <1>18 DEF LoseTask, Queue!Lose, Fault
  <2>2. /\ status \in [TaskIds -> {"absent", "pending", "done", "failed"}]
        /\ text \in [TaskIds -> SUBSET Words]
    BY DEF RunInv, TypeOK
  <2>3. Quiet' => Quiet
    BY <2>1, CountTypes DEF Quiet
  <2>4. Spoken'
    BY <2>1, <2>2 DEF VerdictInv, Spoken
  <2>5. \A u \in TaskIds :
          /\ status'[u] = "pending" => status[u] = "pending"
          /\ text'[u] \subseteq text[u]
    BY <2>1, <2>2
  <2> QED
    BY <2>1, <2>3, <2>4, <2>5 DEF VerdictInv, QueueKeeps, Lasting
<1>12. ASSUME NEW r \in Runs,
              \/ NotSettled(r) \/ TaskFailed(r) \/ TaskDone(r)
              \/ Blocked(r) \/ Panic(r) \/ BudgetSpent(r) \/ ReworkBails(r)
              \/ FlowDeleted(r) \/ Finish(r) \/ StoreRun(r)
              \/ \E k : SubmitFails(r, k)
       PROVE  QueueKeeps
  <2>1. UNCHANGED <<taskVars, boundVars>>
    BY <1>12 DEF NotSettled, TaskFailed, TaskDone, Blocked, Panic, BudgetSpent,
                 ReworkBails, FlowDeleted, Finish, StoreRun, SubmitFails
  <2> QED
    BY <1>9, <2>1 DEF boundVars
<1>13. ASSUME NEW r \in Runs, Rework(r) \/ NextStep(r)
       PROVE  QueueKeeps
  BY <1>8, <1>12, <1>13 DEF Rework, NextStep
<1>14. CASE ListRuns
  BY <1>9, <1>14 DEF ListRuns, boundVars
<1>15. CASE UNCHANGED vars
  BY <1>9, <1>15 DEF vars, boundVars
<1> QED
  BY <1>1, <1>2, <1>3, <1>4, <1>5, <1>6, <1>7, <1>10, <1>11, <1>12, <1>13,
     <1>14, <1>15, <1>16, <1>17, <1>18, <1>19 DEF Next, Advancer, Settle, ReportLate

-----------------------------------------------------------------------------
(* The runs.                                                               *)

\* A run whose task is being judged was found done, or was judged before.
LEMMA ReadTurns ==
  ASSUME RunInv, [Next]_vars, NEW r \in Runs, Turn(r, "read")'
  PROVE  /\ runs'[r] = runs[r]
         /\ \/ Turn(r, "read")
            \/ UNCHANGED status /\ status[runs[r].task] # "pending"
<1>1. pc' = "read" /\ r \in todo' /\ \A q \in todo' : q <= r
  BY DEF Turn
<1>2. ASSUME NEW q \in Runs, TaskDone(q)
      PROVE  /\ runs'[r] = runs[r]
             /\ UNCHANGED status /\ status[runs[r].task] # "pending"
  <2>1. /\ Turn(q, "scan") /\ TaskStatus(q) = "done"
        /\ UNCHANGED <<runs, todo, status>>
    BY <1>2 DEF TaskDone, taskVars, queueVars
  <2>2. Turn(r, "scan")
    BY <1>1, <2>1 DEF Turn
  <2>3. q = r
    BY <2>1, <2>2, OneTurn
  <2>4. runs[q].task # 0
    BY <2>1, TurnParts, WorkflowAssumption
  <2> QED
    BY <2>1, <2>3, <2>4 DEF TaskStatus
<1>3. ASSUME UNCHANGED <<pc, todo>>, runs'[r] = runs[r]
      PROVE  /\ runs'[r] = runs[r]
             /\ Turn(r, "read")
  BY <1>1, <1>3 DEF Turn
<1>4. ASSUME UNCHANGED advancerVars
      PROVE  r \in todo /\ runs[r].status = "running"
  BY <1>1, <1>4 DEF RunInv, TodoFits, advancerVars
<1>5. ASSUME NEW q \in Runs,
             \/ Ingest(q) \/ InsertRun(q) \/ \E w \in Flows : RunWorkflow(q, w)
             \/ IngestFails(q) \/ InsertRunFails(q)
      PROVE  UNCHANGED <<pc, todo>> /\ runs'[r] = runs[r]
  <2>1. UNCHANGED advancerVars
    BY <1>5 DEF Ingest, InsertRun, RunWorkflow, IngestFails, InsertRunFails, taskVars
  <2>2. runs[q].status \in {"none", "draft"}
    BY <1>5 DEF Ingest, InsertRun, RunWorkflow, IngestFails, InsertRunFails,
                IsNextRun
  <2>3. q # r
    BY <1>4, <2>1, <2>2
  <2>4. \E row : runs' = [runs EXCEPT ![q] = row]
    <3>1. CASE InsertRun(q)
      <4>1. runs' = [runs EXCEPT ![q] = [runs[q] EXCEPT !.status = "running"]]
        BY <3>1 DEF InsertRun, RunInv, TypeOK
      <4> QED
        BY <4>1, Zenon
    <3>2. CASE Ingest(q)
      BY <3>2, Zenon DEF Ingest
    <3>3. CASE \E w \in Flows : RunWorkflow(q, w)
      BY <3>3, Zenon DEF RunWorkflow
    <3>4. CASE InsertRunFails(q)
      <4>1. runs' = [runs EXCEPT ![q] = [runs[q] EXCEPT !.status = "lost"]]
        BY <3>4 DEF InsertRunFails, RunInv, TypeOK
      <4> QED
        BY <4>1, Zenon
    <3>5. CASE IngestFails(q)
      BY <3>5, Zenon DEF IngestFails
    <3> QED
      BY <1>5, <3>1, <3>2, <3>3, <3>4, <3>5
  <2>5. runs'[r] = runs[r]
    BY <2>3, <2>4 DEF RunInv, TypeOK
  <2> QED
    BY <2>1, <2>5 DEF advancerVars
<1>6. ASSUME NEW q \in Runs, IngestSubmits(q) \/ IngestSubmitFails(q)
      PROVE  UNCHANGED <<pc, todo>> /\ runs'[r] = runs[r]
  BY <1>6 DEF IngestSubmits, IngestSubmitFails, advancerVars
<1>7. ASSUME NEW t \in TaskIds,
             Settle(t) \/ ReportLate(t) \/ RetryTask(t) \/ LoseTask(t)
      PROVE  UNCHANGED <<pc, todo>> /\ runs'[r] = runs[r]
  BY <1>7 DEF Settle, ReportLate, RetryTask, LoseTask, Report, advancerVars
<1>8. ASSUME NEW w \in Flows,
             CreateWorkflow(w) \/ CreateFails(w) \/ DeleteWorkflow(w)
      PROVE  UNCHANGED <<pc, todo>> /\ runs'[r] = runs[r]
  BY <1>8 DEF CreateWorkflow, CreateFails, DeleteWorkflow, advancerVars
<1>9. ~Crash
  BY <1>1 DEF Crash
<1>10. ~ListRuns
  BY <1>1 DEF ListRuns
<1>11. ASSUME NEW q \in Runs,
              \/ NotSettled(q) \/ TaskFailed(q) \/ Blocked(q) \/ Panic(q)
              \/ BudgetSpent(q) \/ Rework(q) \/ ReworkBails(q)
              \/ FlowDeleted(q) \/ Finish(q) \/ NextStep(q) \/ StoreRun(q)
              \/ TurnFails(q)
       PROVE  FALSE
  <2>1. pc' \in {"scan", "store", "dead"}
    BY <1>11 DEF NotSettled, TaskFailed, Blocked, Panic, BudgetSpent, Rework,
                 ReworkBails, FlowDeleted, Finish, NextStep, StoreRun, TurnFails,
                 Submit, SubmitFails, TurnOver
  <2> QED
    BY <1>1, <2>1
<1>13. ~Hangs
  BY <1>1 DEF Hangs
<1>12. CASE UNCHANGED vars
  BY <1>3, <1>12 DEF vars, advancerVars
<1> QED
  BY <1>2, <1>3, <1>5, <1>6, <1>7, <1>8, <1>9, <1>10, <1>11, <1>12,
     <1>13 DEF Next, Advancer

\* A run that is done was so, or its last task has just been accepted.
LEMMA DoneRows ==
  ASSUME RunInv, [Next]_vars, NEW r \in Runs, runs'[r].status = "done"
  PROVE  \/ runs'[r] = runs[r]
         \/ /\ Turn(r, "read") /\ Verdict(r) \in {"none", "approved"}
            /\ runs'[r].outputs # << >>
            /\ runs'[r].outputs[Len(runs'[r].outputs)].task = runs[r].task
<1>1. CASE UNCHANGED runs
  BY <1>1
<1>2. CASE Crash
  <2>1. CASE runs[r].status # "draft"
    BY <1>2, <2>1 DEF Crash
  <2>2. CASE runs[r].status = "draft"
    <3>1. runs[r] \in Run
      BY DEF RunInv, TypeOK
    <3> PICK run \in Run : run = runs[r]
      BY <3>1
    <3>2. runs'[r] = [run EXCEPT !.status = "lost"]
      BY <1>2, <2>2 DEF Crash
    <3>3. run = [status |-> run.status, flow |-> run.flow, step |-> run.step,
                 task |-> run.task, outputs |-> run.outputs]
      BY RunParts
    <3> QED
      BY <3>2, <3>3
  <2> QED
    BY <2>1, <2>2
<1>3. ASSUME NEW q \in Runs, NEW row, RowBecomes(q, row)
      PROVE  \/ runs'[r] = runs[r]
             \/ /\ Turn(r, "read") /\ Verdict(r) \in {"none", "approved"}
                /\ runs'[r].outputs # << >>
                /\ runs'[r].outputs[Len(runs'[r].outputs)].task = runs[r].task
  <2>1. runs' = [runs EXCEPT ![q] = row] /\ RowStep(q, row)
    BY <1>3 DEF RowBecomes
  <2>2. runs \in [Runs -> Run] /\ runs[q] \in Run
    BY DEF RunInv, TypeOK
  <2>3. CASE q # r
    BY <2>1, <2>2, <2>3
  <2>4. CASE q = r
    <3>1. runs'[r] = row /\ row.status = "done" /\ RowStep(r, row)
      BY <2>1, <2>2, <2>4
    <3>2. PICK run \in Run : run = runs[r]
      BY <2>2, <2>4
    <3>3. run = [status |-> run.status, flow |-> run.flow, step |-> run.step,
                 task |-> run.task, outputs |-> run.outputs]
      BY RunParts
    <3>4. \A st, w, t : row = NewRun(st, w, t) => st = "done"
      BY <3>1 DEF NewRun
    <3>5. row # [run EXCEPT !.status = "running"] /\ row # [run EXCEPT !.status = "lost"]
      BY <3>1, <3>3
    <3>6. row # Failed(run)
      BY <3>1, <3>3 DEF Failed
    <3>7. row # Ended(run, Verdict(r), run.step, "failed")
      BY <3>1, EndedStatus
    <3>8. ASSUME Turn(r, "store")
          PROVE  row # hold
      <4>1. PICK v \in Verdicts, k \in 0..MaxSteps, t \in TaskIds :
              hold = Moved(runs[r], v, k, t)
        BY <3>8 DEF RunInv, HoldFits
      <4>2. hold = Moved(run, v, k, t) /\ run.status = "running"
        BY <3>2, <3>8, <4>1, TurnParts
      <4> QED
        BY <3>1, <4>2, MovedStatus
    <3>9. /\ Turn(r, "read") /\ Verdict(r) \in {"none", "approved"}
          /\ row = Ended(run, Verdict(r), run.step + 1, "done")
      BY <3>1, <3>2, <3>4, <3>5, <3>6, <3>7, <3>8 DEF RowStep
    <3>10. /\ run.task \in TaskIds /\ Verdict(r) \in Verdicts
           /\ run.step + 1 \in 0..MaxSteps
      BY <3>2, <3>9, TurnParts, WorkflowAssumption
    <3>11. /\ Len(row.outputs) = Len(run.outputs) + 1 /\ Len(run.outputs) \in Nat
           /\ row.outputs \in Seq(Output)
           /\ row.outputs[Len(row.outputs)]
                = [task |-> run.task, verdict |-> Verdict(r)]
      BY <3>9, <3>10, EndedOutputs
    <3>12. row.outputs # << >> /\ row.outputs[Len(row.outputs)].task = run.task
      BY <3>11
    <3> QED
      BY <3>1, <3>2, <3>9, <3>12
  <2> QED
    BY <2>3, <2>4
<1> QED
  BY <1>1, <1>2, <1>3, RowSteps

\* What is accepted was not refused.
LEMMA AcceptedReply ==
  ASSUME RunInv, VerdictInv, NEW r \in Runs, Turn(r, "read"),
         Verdict(r) \in {"none", "approved"}
  PROVE  text[runs[r].task] \cap Refusals = {}
<1>1. runs[r].task \in TaskIds
  BY TurnParts
<1>2. CASE made[runs[r].task].agent = "code-reviewer"
  <2>1. ParseVerdict(Reply(r)) \in {"none", "approved"}
    BY <1>2 DEF Verdict
  <2> QED
    BY <2>1 DEF ParseVerdict, Reply, Refusals
<1>3. CASE made[runs[r].task].agent # "code-reviewer"
  <2>1. text[runs[r].task] = {}
    BY <1>1, <1>3 DEF VerdictInv, Spoken
  <2> QED
    BY <2>1
<1> QED
  BY <1>2, <1>3

LEMMA VerdictInit == Init => VerdictInv
<1> SUFFICES ASSUME Init PROVE VerdictInv
  OBVIOUS
<1>1. /\ text = [t \in TaskIds |-> {}] /\ late = {} /\ pc = "scan"
      /\ runs = [r \in Runs |-> Nothing]
  BY DEF Init, Queue!Init
<1>2. Nothing.status = "none"
  BY DEF Nothing, NewRun
<1> QED
  BY <1>1, <1>2 DEF VerdictInv, Spoken, Reading, Accepted, Turn

LEMMA VerdictStep ==
  ASSUME RunInv, CountInv, VerdictInv, [Next]_vars
  PROVE  VerdictInv'
<1>1. QueueKeeps
  BY QueueStep
<1>2. Spoken' /\ (Quiet' => late' = {})
  BY <1>1 DEF QueueKeeps
<1>3. Reading'
  <2> SUFFICES ASSUME Quiet', NEW r \in Runs, Turn(r, "read")'
               PROVE  status'[runs'[r].task] # "pending"
    BY DEF Reading
  <2>1. /\ runs'[r] = runs[r]
        /\ \/ Turn(r, "read")
           \/ UNCHANGED status /\ status[runs[r].task] # "pending"
    BY ReadTurns
  <2>2. CASE Turn(r, "read")
    <3>1. runs[r].task \in TaskIds /\ runs[r].task \in used
      BY <2>2, TurnParts DEF CountInv, Judged
    <3>2. Lasting(runs[r].task)
      BY <1>1, <2>2, <3>1 DEF QueueKeeps, VerdictInv, Reading, Lasting
    <3>3. \A t \in TaskIds : Lasting(t) => status'[t] # "pending"
      BY <1>1 DEF QueueKeeps, Lasting
    <3> QED
      BY <2>1, <3>1, <3>2, <3>3
  <2> QED
    BY <2>1, <2>2
<1>4. Accepted'
  <2> SUFFICES ASSUME Quiet', NEW r \in Runs, runs'[r].status = "done",
                      NEW t, t = runs'[r].outputs[Len(runs'[r].outputs)].task
               PROVE  /\ runs'[r].outputs # << >>
                      /\ Lasting(t)' /\ text'[t] \cap Refusals = {}
    BY DEF Accepted, Lasting
  <2>1. /\ Quiet
        /\ \A u \in TaskIds : Lasting(u) => /\ u \in used' /\ status'[u] # "pending"
                                           /\ text'[u] \subseteq text[u]
    BY <1>1 DEF QueueKeeps, Lasting
  <2>2. CASE runs'[r] = runs[r]
    <3>1. /\ runs[r].outputs # << >> /\ Lasting(t) /\ text[t] \cap Refusals = {}
      BY <2>1, <2>2 DEF VerdictInv, Accepted
    <3>2. t \in TaskIds
      BY <3>1 DEF Lasting, RunInv, TypeOK
    <3> QED
      BY <2>1, <2>2, <3>1, <3>2 DEF Lasting
  <2>3. CASE /\ Turn(r, "read") /\ Verdict(r) \in {"none", "approved"}
             /\ runs'[r].outputs # << >> /\ t = runs[r].task
    <3>1. t \in TaskIds /\ t \in used
      BY <2>3, TurnParts DEF CountInv, Judged
    <3>2. Lasting(t)
      BY <2>1, <2>3, <3>1 DEF VerdictInv, Reading, Lasting
    <3>3. text[t] \cap Refusals = {}
      BY <2>3, AcceptedReply
    <3> QED
      BY <2>1, <2>3, <3>1, <3>2, <3>3 DEF Lasting
  <2> QED
    BY <2>2, <2>3, DoneRows
<1> QED
  BY <1>2, <1>3, <1>4 DEF VerdictInv

(* workflow_runner.rs:78 to 95: the tasks a run logged were made for it, and
   while no operator interferes and no task is dispatched twice, a run is
   done only when its last reply neither blocks nor asks for changes, crashes
   and lost rows included. *)
THEOREM DoneWasAccepted == Spec => []DoneIsNotRejected
<1>1. Init => RunInv /\ CountInv /\ VerdictInv
  BY RunInvInit, CountInit, VerdictInit
<1>2. /\ RunInv /\ CountInv /\ VerdictInv /\ [Next]_vars
      => (RunInv /\ CountInv /\ VerdictInv)'
  BY RunInvStep, CountStep, VerdictStep
<1>3. RunInv /\ VerdictInv => DoneIsNotRejected
  BY DEF RunInv, RunsFit, RunFits, VerdictInv, Accepted, Quiet, Refusals,
         DoneIsNotRejected
<1> QED
  BY <1>1, <1>2, <1>3, PTL DEF Spec

-----------------------------------------------------------------------------
(* What the runs rely on is what the queue provides: the tasks change only *)
(* in the ways TaskService allows and TaskQueue is proved to keep to.      *)

\* What the queue may hand out: a reviewer's reply, or nothing.
Heard == text \in [TaskIds -> Replies \cup {{}}]
KeepsProtocol == (Queue!Next \/ UNCHANGED Queue!serviceVars) /\ Heard'

LEMMA IdleProtocol ==
  ASSUME RunInv, Heard, UNCHANGED queueVars, crashes' = crashes,
         ops' \in {ops, ops + 1}
  PROVE  KeepsProtocol
<1>1. UNCHANGED <<status, text, late, used, crashes>>
  BY DEF queueVars
<1>2. Heard'
  BY <1>1 DEF Heard
<1>3. CASE ops' = ops + 1
  <2>1. /\ status = [t \in TaskIds |-> status[t]]
        /\ text = [t \in TaskIds |-> text[t]]
    BY DEF Heard, RunInv, TypeOK
  <2>2. /\ status' = [t \in TaskIds |-> IF t \in {} THEN "pending" ELSE status[t]]
        /\ text' = [t \in TaskIds |-> IF t \in {} THEN {} ELSE text[t]]
        /\ late' = late \ {}
    BY <1>1, <2>1
  <2>3. Queue!Retry({})
    BY <1>1, <1>3, <2>2 DEF Queue!Retry
  <2>4. Queue!Next
    BY <2>3 DEF Queue!Next
  <2> QED
    BY <1>2, <2>4 DEF KeepsProtocol
<1>4. CASE ops' = ops
  BY <1>1, <1>2, <1>4 DEF KeepsProtocol, Queue!serviceVars
<1> QED
  BY <1>3, <1>4

LEMMA SubmitProtocol ==
  ASSUME Heard, NEW t \in TaskIds, Queue!Submit(t)
  PROVE  KeepsProtocol
<1>1. Heard'
  BY DEF Queue!Submit, Heard
<1>2. Queue!Next
  BY DEF Queue!Next
<1> QED
  BY <1>1, <1>2 DEF KeepsProtocol

LEMMA ReportProtocol ==
  ASSUME RunInv, Heard, NEW t \in TaskIds, NEW st \in {"pending", "done", "failed"},
         NEW x \in Replies \cup {{}}, Queue!Report(t, st, x)
  PROVE  KeepsProtocol
<1>1. Heard'
  BY DEF Queue!Report, Heard
<1>2. text' = [text EXCEPT ![t] = x] /\ status' = [status EXCEPT ![t] = st]
  BY DEF Queue!Report
<1>3. status'[t] = st /\ text'[t] = x
  BY <1>2 DEF Heard, RunInv, TypeOK
<1>4. /\ status'[t] \in {"pending"} \cup Queue!Settled
      /\ text'[t] \in Replies \cup {{}}
      /\ Queue!Report(t, status'[t], text'[t])
  BY <1>3 DEF Queue!Settled
<1>5. Queue!Next
  BY <1>4, Zenon DEF Queue!Next
<1> QED
  BY <1>1, <1>5 DEF KeepsProtocol

LEMMA ProtocolStep ==
  ASSUME RunInv, Heard, [Next]_vars
  PROVE  KeepsProtocol
<1>1. ASSUME UNCHANGED <<queueVars, crashes>>, ops' \in {ops, ops + 1}
      PROVE  KeepsProtocol
  BY <1>1, IdleProtocol
<1>2. ASSUME NEW r \in Runs, Ingest(r) \/ InsertRun(r)
      PROVE  KeepsProtocol
  BY <1>1, <1>2 DEF Ingest, InsertRun, taskVars, boundVars
<1>3. ASSUME NEW r \in Runs, IngestSubmits(r)
      PROVE  KeepsProtocol
  <2>1. runs[r].task \in drafts /\ Queue!Submit(runs[r].task)
    BY <1>3 DEF IngestSubmits
  <2>2. runs[r].task \in TaskIds
    BY <2>1 DEF RunInv, TypeOK
  <2> QED
    BY <2>1, <2>2, SubmitProtocol
<1>4. ASSUME NEW r \in Runs, NEW w \in Flows, RunWorkflow(r, w)
      PROVE  KeepsProtocol
  <2>1. PICK t \in TaskIds : Queue!Submit(t)
    BY <1>4, Zenon DEF RunWorkflow
  <2> QED
    BY <2>1, SubmitProtocol
<1>5. ASSUME NEW t \in TaskIds, NEW st \in {"done", "failed"}, Report(t, st)
      PROVE  KeepsProtocol
  <2>1. PICK x \in {text[t]} \cup IF st = "done" /\ made[t].agent = "code-reviewer"
                                  THEN Replies ELSE {} :
           Queue!Report(t, st, x)
    BY <1>5 DEF Report
  <2>2. x \in Replies \cup {{}}
    BY <2>1 DEF Heard
  <2> QED
    BY <2>1, <2>2, ReportProtocol
<1>6. ASSUME NEW t \in TaskIds, Queue!Report(t, "pending", {})
      PROVE  KeepsProtocol
  BY <1>6, ReportProtocol
<1>7. ASSUME NEW t \in TaskIds, RetryTask(t)
      PROVE  KeepsProtocol
  <2>1. Queue!Retry({t})
    BY <1>7 DEF RetryTask
  <2>2. Heard'
    BY <2>1 DEF Queue!Retry, Heard
  <2>3. Queue!Next
    BY <2>1 DEF Queue!Next
  <2> QED
    BY <2>2, <2>3 DEF KeepsProtocol
<1>8. CASE Crash
  <2>1. PICK gone \in Losses : Queue!Outage(gone)
    BY <1>8 DEF Crash
  <2>2. gone \subseteq TaskIds
    BY <2>1 DEF Queue!Outage, Queue!Present
  <2>3. Heard'
    BY <2>1 DEF Queue!Outage, Heard
  <2>4. Queue!Next
    BY <2>1, <2>2 DEF Queue!Next
  <2> QED
    BY <2>3, <2>4 DEF KeepsProtocol
<1>9. ASSUME NEW w \in Flows,
             CreateWorkflow(w) \/ CreateFails(w) \/ DeleteWorkflow(w)
      PROVE  KeepsProtocol
  BY <1>1, <1>9 DEF CreateWorkflow, CreateFails, DeleteWorkflow, Fault, taskVars
<1>14. ASSUME NEW r \in Runs,
              \/ IngestFails(r) \/ IngestSubmitFails(r) \/ InsertRunFails(r)
              \/ TurnFails(r)
       PROVE  KeepsProtocol
  BY <1>1, <1>14 DEF IngestFails, IngestSubmitFails, InsertRunFails, TurnFails,
                     Fault, taskVars
<1>16. CASE Hangs
  BY <1>1, <1>16 DEF Hangs, Fault, taskVars
<1>15. ASSUME NEW t \in TaskIds, LoseTask(t)
       PROVE  KeepsProtocol
  <2>1. Queue!Lose(t)
    BY <1>15 DEF LoseTask
  <2>2. Heard'
    BY <2>1 DEF Queue!Lose, Heard
  <2>3. UNCHANGED crashes
    BY <1>15 DEF LoseTask, Fault
  <2>4. Queue!Next
    BY <2>1 DEF Queue!Next
  <2> QED
    BY <2>2, <2>4 DEF KeepsProtocol
<1>10. ASSUME NEW r \in Runs,
              \/ NotSettled(r) \/ TaskFailed(r) \/ TaskDone(r)
              \/ Blocked(r) \/ Panic(r) \/ BudgetSpent(r) \/ ReworkBails(r)
              \/ FlowDeleted(r) \/ Finish(r) \/ StoreRun(r)
              \/ \E k : SubmitFails(r, k)
       PROVE  KeepsProtocol
  <2>1. UNCHANGED <<taskVars, boundVars>>
    BY <1>10 DEF NotSettled, TaskFailed, TaskDone, Blocked, Panic, BudgetSpent,
                 ReworkBails, FlowDeleted, Finish, StoreRun, SubmitFails
  <2> QED
    BY <1>1, <2>1 DEF taskVars, boundVars
<1>11. ASSUME NEW r \in Runs, NEW k, Submit(r, k)
       PROVE  KeepsProtocol
  <2>1. PICK t \in TaskIds : Queue!Submit(t)
    BY <1>11, Zenon DEF Submit
  <2> QED
    BY <2>1, SubmitProtocol
<1>12. ASSUME NEW r \in Runs, Rework(r) \/ NextStep(r)
       PROVE  KeepsProtocol
  BY <1>10, <1>11, <1>12 DEF Rework, NextStep
<1>13. CASE ListRuns \/ UNCHANGED vars
  BY <1>1, <1>13 DEF ListRuns, vars, taskVars, boundVars
<1> QED
  BY <1>2, <1>3, <1>4, <1>5, <1>6, <1>7, <1>8, <1>9, <1>10, <1>12, <1>13,
     <1>14, <1>15, <1>16 DEF Next, Advancer, Settle, ReportLate

(* Handlers, callers, the advancer and its crashes use the queue only as
   TaskService describes it, so what is proved of the runs does not rest on
   behaviour of the queue that TaskQueue does not have (QueueIsService). *)
THEOREM RunsUseTaskService == Spec => Queue!Spec
<1>1. Init => Queue!Init /\ Heard
  <2> SUFFICES ASSUME Init
               PROVE  Queue!Init /\ Heard
    OBVIOUS
  <2>1. Queue!Init
    BY DEF Init
  <2>2. Heard
    BY <2>1 DEF Queue!Init, Heard
  <2> QED
    BY <2>1, <2>2
<1>2. RunInv /\ Heard /\ [Next]_vars => [Queue!Next]_(Queue!serviceVars) /\ Heard'
  BY ProtocolStep DEF KeepsProtocol
<1> QED
  BY <1>1, <1>2, RunInvHolds, PTL DEF Spec, Queue!Spec
=============================================================================
