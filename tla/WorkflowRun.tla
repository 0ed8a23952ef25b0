----------------------------- MODULE WorkflowRun -----------------------------
(***************************************************************************)
(* Workflow runs: the handlers that launch them (POST /ingest for coding   *)
(* agents, POST /api/workflows/:id/run), the advancer that polls every two *)
(* seconds and chains the steps, the coder -> reviewer fixup loop, and the *)
(* callers that redefine or delete a workflow or retry a task meanwhile.   *)
(*                                                                         *)
(* The advancer is the only writer of a run once it is inserted, so its    *)
(* snapshot of the runs is the table itself.  Its lake calls are one       *)
(* action where nobody can tell: get_task apart from get_response, and     *)
(* update_run apart from the submit before it, since a retry, a late       *)
(* dispatch or a crash can come between.  The queue is a TaskService, the  *)
(* specification that TaskQueue is checked and proved to implement.        *)
(***************************************************************************)
EXTENDS Naturals, Sequences, FiniteSets

CONSTANTS
  Runs,               \* run ids, numbered in the order of started_at
  UserFlows,          \* workflow ids created by callers
  Defs,               \* step lists callers may give: sequences of Steps
  MaxSteps,           \* bound: length of those lists
  TaskIds,            \* bound: tasks of a behaviour
  Replies,            \* what a reviewer may say: non-empty sets of Words
  MAX_FIXUP_ROUNDS,
  ListLimit,          \* runs the advancer looks at, 100 in the code
  MaxOps,             \* bound: redefinitions, deletions and retries
  MaxLate,            \* bound: settled tasks dispatched a second time
  MaxCrashes,         \* bound: crashes
  MaxFaults           \* bound: statements of the lake that fail

Agents == {"coder", "code-reviewer", "planner"}
\* A step whose u8 priority is above 127 does not fit the TINYINT column of
\* the queue: its submit fails.
Steps == [agent : Agents, fits : BOOLEAN]
\* What parse_reviewer_verdict looks for; "cut" is a reply whose byte 200
\* is inside a character.
Words == {"BLOCKED", "CHANGES_REQUESTED", "APPROVED", "cut"}

\* The workflow an ingest creates has the id of its run.
Flows == Runs \cup UserFlows

ASSUME WorkflowAssumption ==
  /\ Runs \subseteq Nat \ {0} /\ Runs # {} /\ IsFiniteSet(Runs)
  /\ TaskIds \subseteq Nat \ {0} /\ IsFiniteSet(TaskIds)
  /\ Defs \subseteq Seq(Steps) \ {<< >>}
  /\ MaxSteps \in Nat /\ MaxSteps >= 2
  /\ \A d \in Defs : Len(d) <= MaxSteps
  /\ Replies \subseteq (SUBSET Words) \ {{}}
  /\ MAX_FIXUP_ROUNDS \in Nat /\ ListLimit \in Nat
  /\ MaxOps \in Nat /\ MaxLate \in Nat
  /\ MaxCrashes \in Nat /\ MaxFaults \in Nat

VARIABLES
  flows,     \* the workflows table
  runs,      \* the workflow_runs table, and what handlers have yet to insert
  made,      \* what an envelope was built for (history)
  drafts,    \* envelopes a handler has built and not submitted yet
  status, text, late, used,  \* the queue, see TaskService
  pc, todo,  \* the advancer: where it is, the runs left in this tick
  hold,      \* the updated run it will store
  ops, redone, crashes, faults  \* bounds used up

queueVars == <<status, text, late, used>>
taskVars == <<made, drafts, queueVars>>
advancerVars == <<pc, todo, hold>>
boundVars == <<ops, redone, crashes, faults>>
vars == <<flows, runs, taskVars, advancerVars, boundVars>>

\* A task's reply is what its reviewer said; the empty one stands for no
\* response and for those of other agents, which nobody parses.
Queue == INSTANCE TaskService WITH
           Tasks <- TaskIds, Texts <- Replies, NoText <- {},
           calls <- ops, epoch <- crashes

-----------------------------------------------------------------------------
(* A run is a draft while its handler has built and not inserted it.       *)
Verdicts == {"none", "approved", "changes_requested", "blocked"}
Run == [status : {"none", "draft", "running", "done", "failed", "lost"},
        flow : Flows, step : 0..MaxSteps, task : TaskIds \cup {0},
        outputs : Seq([task : TaskIds, verdict : Verdicts])]
Made == [run : Runs \cup {0}, agent : Agents, step : 0..MaxSteps]

NoFlow == [steps |-> << >>, enabled |-> FALSE]
NewRun(st, w, t) == [status |-> st, flow |-> w, step |-> 0, task |-> t,
                     outputs |-> << >>]
MadeFor(r, agent, k) == [run |-> r, agent |-> agent, step |-> k]

Step(agent, fits) == [agent |-> agent, fits |-> fits]
\* What ingest wraps a coding task in: the review is one less urgent, by a
\* saturating addition on u8, so it may not fit where the first step does.
AutoSteps == {<<Step("coder", f), Step("code-reviewer", g)>> :
                f \in BOOLEAN, g \in BOOLEAN}
               \ {<<Step("coder", FALSE), Step("code-reviewer", TRUE)>>}

TypeOK ==
  /\ flows \in [Flows -> [steps : Defs \cup {<< >>} \cup AutoSteps,
                          enabled : BOOLEAN]]
  /\ runs \in [Runs -> Run]
  /\ made \in [TaskIds -> Made]
  /\ drafts \subseteq TaskIds
  /\ status \in [TaskIds -> {"absent", "pending", "done", "failed"}]
  /\ text \in [TaskIds -> SUBSET Words]
  /\ late \subseteq {t \in TaskIds : status[t] \in {"done", "failed"}}
  /\ used \subseteq {t \in TaskIds : made[t].run # 0} \ drafts
  /\ pc \in {"scan", "read", "store", "dead", "hung"}
  /\ todo \subseteq Runs
  /\ hold \in Run
  /\ ops \in 0..MaxOps /\ redone \in 0..MaxLate
  /\ crashes \in 0..MaxCrashes /\ faults \in 0..MaxFaults

AnyRun == CHOOSE r \in Runs : TRUE
Nothing == NewRun("none", AnyRun, 0)

\* A lake with the callers' workflows and no runs.
Init ==
  /\ \E d \in [UserFlows -> Defs] :
       flows = [w \in Flows |-> IF w \in UserFlows
                                THEN [steps |-> d[w], enabled |-> TRUE]
                                ELSE NoFlow]
  /\ runs = [r \in Runs |-> Nothing]
  /\ made = [t \in TaskIds |-> MadeFor(0, "coder", 0)] /\ drafts = {}
  /\ Queue!Init
  /\ pc = "scan" /\ todo = {} /\ hold = Nothing
  /\ ops = 0 /\ redone = 0 /\ crashes = 0 /\ faults = 0

Unused == {t \in TaskIds : made[t].run = 0}
IsFresh(t) == t \in Unused /\ \A u \in Unused : t <= u

\* A statement of the lake fails.
Fault == /\ faults < MaxFaults
         /\ faults' = faults + 1
         /\ UNCHANGED <<redone, crashes>>

-----------------------------------------------------------------------------
(* Launching a run.                                                        *)

IsNextRun(r) == /\ runs[r].status = "none"
                /\ \A q \in Runs : q < r => runs[q].status # "none"

\* POST /ingest for a coding agent: upsert_workflow, then insert_run.  If the
\* submit that follows is going to fail, nothing follows.
Ingest(r) ==
  /\ IsNextRun(r)
  /\ \E t \in TaskIds :
       /\ IsFresh(t)
       /\ made' = [made EXCEPT ![t] = MadeFor(r, "coder", 0)]
       /\ runs' = [runs EXCEPT ![r] = NewRun("running", r, t)]
       /\ \E steps \in AutoSteps :
            /\ flows' = [flows EXCEPT ![r] = [steps |-> steps, enabled |-> TRUE]]
            /\ drafts' = IF steps[1].fits THEN drafts \cup {t} ELSE drafts
  /\ UNCHANGED <<queueVars, advancerVars, boundVars>>

\* insert_run fails: a workflow without its run.
IngestFails(r) ==
  /\ IsNextRun(r)
  /\ Fault
  /\ runs' = [runs EXCEPT ![r] = NewRun("lost", r, 0)]
  /\ \E steps \in AutoSteps :
       flows' = [flows EXCEPT ![r] = [steps |-> steps, enabled |-> TRUE]]
  /\ UNCHANGED <<taskVars, advancerVars, ops>>

\* ... and then bus.submit.
IngestSubmits(r) ==
  /\ runs[r].task \in drafts
  /\ drafts' = drafts \ {runs[r].task}
  /\ Queue!Submit(runs[r].task)
  /\ UNCHANGED <<flows, runs, made, advancerVars, redone, faults>>

\* It fails, and the caller has its error: the run is there without a task.
IngestSubmitFails(r) ==
  /\ runs[r].task \in drafts
  /\ Fault
  /\ drafts' = drafts \ {runs[r].task}
  /\ UNCHANGED <<flows, runs, made, queueVars, advancerVars, ops>>

\* POST /api/workflows/:id/run submits step 0 first ...
RunWorkflow(r, w) ==
  /\ IsNextRun(r)
  /\ flows[w].enabled /\ flows[w].steps # << >> /\ flows[w].steps[1].fits
  /\ \E t \in TaskIds :
       /\ IsFresh(t)
       /\ made' = [made EXCEPT ![t] = MadeFor(r, flows[w].steps[1].agent, 0)]
       /\ Queue!Submit(t)
       /\ runs' = [runs EXCEPT ![r] = NewRun("draft", w, t)]
  /\ UNCHANGED <<flows, drafts, advancerVars, redone, faults>>

\* ... and inserts the run after that.
InsertRun(r) ==
  /\ runs[r].status = "draft"
  /\ runs' = [runs EXCEPT ![r].status = "running"]
  /\ UNCHANGED <<flows, taskVars, advancerVars, boundVars>>

\* It fails: a task that no run follows.
InsertRunFails(r) ==
  /\ runs[r].status = "draft"
  /\ Fault
  /\ runs' = [runs EXCEPT ![r].status = "lost"]
  /\ UNCHANGED <<flows, taskVars, advancerVars, ops>>

-----------------------------------------------------------------------------
(* The queue, its operators, and the callers.                              *)

\* A report without a reply leaves the one that is there.
Report(t, st) ==
  /\ \E x \in {text[t]} \cup IF st = "done" /\ made[t].agent = "code-reviewer"
                              THEN Replies ELSE {} :
       Queue!Report(t, st, x)
  /\ redone' = IF t \in late' THEN redone + 1 ELSE redone
  /\ redone' <= MaxLate
  /\ UNCHANGED <<flows, runs, made, drafts, advancerVars, faults>>

Settle(t) == status[t] = "pending" /\ \E st \in {"done", "failed"} : Report(t, st)

\* A second dispatch of a settled task reports: it settles the task again, or
\* its transient failure puts the task back, without its reply.
ReportLate(t) ==
  /\ t \in late
  /\ \/ \E st \in {"done", "failed"} : Report(t, st)
     \/ /\ Queue!Report(t, "pending", {})
        /\ UNCHANGED <<flows, runs, made, drafts, advancerVars, redone, faults>>

\* reset_to_pending deletes the row and inserts its core columns.
RetryTask(t) ==
  /\ ops < MaxOps
  /\ Queue!Retry({t})
  /\ UNCHANGED <<flows, runs, made, drafts, advancerVars, redone, faults>>

\* That INSERT fails, or the one of a dispatch that puts its task back.
LoseTask(t) ==
  /\ Fault
  /\ Queue!Lose(t) /\ ops' <= MaxOps
  /\ UNCHANGED <<flows, runs, made, drafts, advancerVars>>

\* POST /api/workflows replaces a workflow of the same id.
CreateWorkflow(w) ==
  /\ ops < MaxOps
  /\ \E d \in Defs, e \in BOOLEAN :
       flows' = [flows EXCEPT ![w] = [steps |-> d, enabled |-> e]]
  /\ ops' = ops + 1
  /\ UNCHANGED <<runs, taskVars, advancerVars, redone, crashes, faults>>

\* upsert_workflow deletes, and its INSERT fails.
CreateFails(w) ==
  /\ ops < MaxOps
  /\ flows[w].steps # << >>
  /\ Fault
  /\ flows' = [flows EXCEPT ![w] = NoFlow]
  /\ ops' = ops + 1
  /\ UNCHANGED <<runs, taskVars, advancerVars>>

DeleteWorkflow(w) ==
  /\ ops < MaxOps
  /\ flows[w].steps # << >>
  /\ flows' = [flows EXCEPT ![w] = NoFlow]
  /\ ops' = ops + 1
  /\ UNCHANGED <<runs, taskVars, advancerVars, redone, crashes, faults>>

\* Task rows a crash and the next start may lose: running ones (the purge),
\* one that was being replaced by a retry or by a dispatch that failed, all
\* of them (a crash inside the purge).
Pending == {t \in TaskIds : status[t] = "pending"}
Losses == {S \cup T : S \in SUBSET Pending,
                     T \in {{}} \cup {{t} : t \in IF ops < MaxOps
                                                THEN Queue!Present ELSE late}}
            \cup IF Pending = {} THEN {} ELSE {Queue!Present}

\* Crash and restart: drafts are gone, the advancer starts over.
Crash ==
  /\ crashes < MaxCrashes
  /\ crashes' = crashes + 1
  /\ \E gone \in Losses : Queue!Outage(gone)
  /\ drafts' = {}
  /\ runs' = [r \in Runs |-> IF runs[r].status = "draft"
                             THEN [runs[r] EXCEPT !.status = "lost"]
                             ELSE runs[r]]
  /\ pc' = "scan" /\ todo' = {} /\ hold' = Nothing
  /\ UNCHANGED <<flows, made, redone, faults>>

-----------------------------------------------------------------------------
(* The advancer's tick: list_runs, newest first, then run after run.       *)

Newest == {r \in Runs : /\ runs[r].status \in {"running", "done", "failed"}
                        /\ Cardinality({q \in Runs :
                             /\ runs[q].status \in {"running", "done", "failed"}
                             /\ q > r}) < ListLimit}
Waiting == {r \in Newest : runs[r].status = "running" /\ runs[r].task # 0}

ListRuns ==
  /\ pc = "scan" /\ todo = {}
  /\ Waiting # {}
  /\ todo' = Waiting
  /\ UNCHANGED <<flows, runs, taskVars, pc, hold, boundVars>>

Turn(r, at) == pc = at /\ r \in todo /\ \A q \in todo : q <= r
TurnOver(r) == pc' = "scan" /\ todo' = todo \ {r} /\ hold' = Nothing
Store(r, run) == runs' = [runs EXCEPT ![r] = run]

TaskStatus(r) == IF runs[r].task = 0 THEN "absent" ELSE status[runs[r].task]
Failed(run) == [run EXCEPT !.status = "failed", !.task = 0]

\* get_task: no such row, or not settled yet.
NotSettled(r) ==
  /\ Turn(r, "scan")
  /\ TaskStatus(r) \notin {"done", "failed"}
  /\ TurnOver(r)
  /\ UNCHANGED <<flows, runs, taskVars, boundVars>>

\* Faulty variants: every task that is not done fails the run; a failed
\* task is waited for like a pending one.
TaskFailed_Hasty(r) ==
  /\ Turn(r, "scan")
  /\ TaskStatus(r) # "done"
  /\ Store(r, Failed(runs[r]))
  /\ TurnOver(r)
  /\ UNCHANGED <<flows, taskVars, boundVars>>

TaskFailed_Waits(r) ==
  /\ Turn(r, "scan")
  /\ TaskStatus(r) = "failed"
  /\ TurnOver(r)
  /\ UNCHANGED <<flows, runs, taskVars, boundVars>>

TaskFailed(r) ==
  /\ Turn(r, "scan")
  /\ TaskStatus(r) = "failed"
  /\ Store(r, Failed(runs[r]))
  /\ TurnOver(r)
  /\ UNCHANGED <<flows, taskVars, boundVars>>

\* Faulty variant: a task that was only submitted counts as done.
TaskDone_Early(r) ==
  /\ Turn(r, "scan")
  /\ TaskStatus(r) \in {"done", "pending"}
  /\ pc' = "read"
  /\ UNCHANGED <<flows, runs, taskVars, todo, hold, boundVars>>

TaskDone(r) ==
  /\ Turn(r, "scan")
  /\ TaskStatus(r) = "done"
  /\ pc' = "read"
  /\ UNCHANGED <<flows, runs, taskVars, todo, hold, boundVars>>

-----------------------------------------------------------------------------
(* advance: get_response, the verdict, and what follows from it.  A reply  *)
(* deleted by a retry since get_task reads as the empty one.               *)

\* Faulty variant: approval is looked for first.
ParseVerdict_Lenient(reply) ==
  CASE "APPROVED" \in reply          -> "approved"
    [] "BLOCKED" \in reply           -> "blocked"
    [] "CHANGES_REQUESTED" \in reply -> "changes_requested"
    [] OTHER                         -> "approved"

\* No recognised signal counts as approved.
ParseVerdict(reply) ==
  IF "BLOCKED" \in reply THEN "blocked"
  ELSE IF "CHANGES_REQUESTED" \in reply THEN "changes_requested"
  ELSE "approved"

Reply(r) == text[runs[r].task]

Verdict(r) == IF made[runs[r].task].agent = "code-reviewer"
              THEN ParseVerdict(Reply(r)) ELSE "none"

Logged(r) == [runs[r] EXCEPT
                !.outputs = Append(@, [task |-> runs[r].task,
                                       verdict |-> Verdict(r)])]

\* The error message is cut at byte 200 of the reply.
Blocked(r) ==
  /\ Turn(r, "read")
  /\ Verdict(r) = "blocked" /\ "cut" \notin Reply(r)
  /\ Store(r, Failed(Logged(r)))
  /\ TurnOver(r)
  /\ UNCHANGED <<flows, taskVars, boundVars>>

\* Slicing inside a character panics, and the panic ends the advancer.
Panic(r) ==
  /\ Turn(r, "read")
  /\ Verdict(r) = "blocked" /\ "cut" \in Reply(r)
  /\ pc' = "dead" /\ todo' = {} /\ hold' = Nothing
  /\ UNCHANGED <<flows, runs, taskVars, boundVars>>

FixupRoundsUsed(r) == Cardinality({i \in DOMAIN runs[r].outputs :
                        runs[r].outputs[i].verdict = "changes_requested"})

\* Faulty variant: one round more.
BudgetLeft_OffByOne(r) == FixupRoundsUsed(r) <= MAX_FIXUP_ROUNDS

BudgetLeft(r) == FixupRoundsUsed(r) < MAX_FIXUP_ROUNDS

BudgetSpent(r) ==
  /\ Turn(r, "read")
  /\ Verdict(r) = "changes_requested" /\ ~BudgetLeft(r)
  /\ Store(r, Failed(Logged(r)))
  /\ TurnOver(r)
  /\ UNCHANGED <<flows, taskVars, boundVars>>

StepsOf(r) == flows[runs[r].flow].steps

\* bus.submit of step k (from 0), and the run that will be stored; an error
\* of the submit leaves everything as it was.
Submit(r, k) ==
  /\ StepsOf(r)[k + 1].fits
  /\ \E t \in TaskIds :
       /\ IsFresh(t)
       /\ made' = [made EXCEPT ![t] = MadeFor(r, StepsOf(r)[k + 1].agent, k)]
       /\ Queue!Submit(t)
       /\ hold' = [Logged(r) EXCEPT !.step = k, !.task = t]
  /\ pc' = "store"
  /\ UNCHANGED <<flows, runs, drafts, todo, redone, faults>>

SubmitFails(r, k) ==
  /\ ~StepsOf(r)[k + 1].fits
  /\ TurnOver(r)
  /\ UNCHANGED <<flows, runs, taskVars, boundVars>>

\* Step 0 again, taken for the coder's, with the feedback.
Rework(r) ==
  /\ Turn(r, "read")
  /\ Verdict(r) = "changes_requested" /\ BudgetLeft(r)
  /\ StepsOf(r) # << >>
  /\ Submit(r, 0) \/ SubmitFails(r, 0)

\* The workflow is gone: an error, and nothing is written.
ReworkBails(r) ==
  /\ Turn(r, "read")
  /\ Verdict(r) = "changes_requested" /\ BudgetLeft(r)
  /\ StepsOf(r) = << >>
  /\ TurnOver(r)
  /\ UNCHANGED <<flows, runs, taskVars, boundVars>>

Passed(r) == Turn(r, "read") /\ Verdict(r) \in {"none", "approved"}

FlowDeleted(r) ==
  /\ Passed(r) /\ StepsOf(r) = << >>
  /\ Store(r, Failed(Logged(r)))
  /\ TurnOver(r)
  /\ UNCHANGED <<flows, taskVars, boundVars>>

\* Faulty variant: the step counter runs past the chain.
Finish_Overshoots(r) ==
  /\ Passed(r) /\ StepsOf(r) # << >>
  /\ runs[r].step + 1 >= Len(StepsOf(r))
  /\ Store(r, [Logged(r) EXCEPT !.status = "done", !.task = 0,
                                !.step = runs[r].step + 2])
  /\ TurnOver(r)
  /\ UNCHANGED <<flows, taskVars, boundVars>>

Finish(r) ==
  /\ Passed(r) /\ StepsOf(r) # << >>
  /\ runs[r].step + 1 >= Len(StepsOf(r))
  /\ Store(r, [Logged(r) EXCEPT !.status = "done", !.task = 0,
                                !.step = runs[r].step + 1])
  /\ TurnOver(r)
  /\ UNCHANGED <<flows, taskVars, boundVars>>

NextStep(r) ==
  /\ Passed(r)
  /\ runs[r].step + 1 < Len(StepsOf(r))
  /\ \/ Submit(r, runs[r].step + 1)
     \/ SubmitFails(r, runs[r].step + 1)

\* Faulty variant: current_task_id is not updated.
StoreRun_KeepsTask(r) ==
  /\ Turn(r, "store")
  /\ Store(r, [hold EXCEPT !.task = runs[r].task])
  /\ TurnOver(r)
  /\ UNCHANGED <<flows, taskVars, boundVars>>

StoreRun(r) ==
  /\ Turn(r, "store")
  /\ Store(r, hold)
  /\ TurnOver(r)
  /\ UNCHANGED <<flows, taskVars, boundVars>>

\* A lake call of this turn fails, its error logged or discarded: nothing is
\* written, so the next tick finds the run as it was and does the same again,
\* although at "store" the task it submits then is already in the queue.
TurnFails(r) ==
  /\ \E at \in {"scan", "read", "store"} : Turn(r, at)
  /\ Fault
  /\ TurnOver(r)
  /\ UNCHANGED <<flows, runs, taskVars, ops>>

\* A lake call never returns: the reaper or a retry-pending has the mutex for
\* good.  (It then keeps all others waiting, too.)
Hangs ==
  /\ pc \in {"scan", "read", "store"}
  /\ Fault
  /\ pc' = "hung" /\ todo' = {} /\ hold' = Nothing
  /\ UNCHANGED <<flows, runs, taskVars, ops>>

-----------------------------------------------------------------------------
Advancer ==
  \/ ListRuns
  \/ \E r \in Runs : \/ NotSettled(r) \/ TaskFailed(r) \/ TaskDone(r)
                     \/ Blocked(r) \/ Panic(r) \/ BudgetSpent(r)
                     \/ Rework(r) \/ ReworkBails(r)
                     \/ FlowDeleted(r) \/ Finish(r) \/ NextStep(r)
                     \/ StoreRun(r)

Next ==
  \/ \E r \in Runs : \/ Ingest(r) \/ IngestSubmits(r) \/ InsertRun(r)
                     \/ \E w \in Flows : RunWorkflow(r, w)
                     \/ IngestFails(r) \/ IngestSubmitFails(r)
                     \/ InsertRunFails(r) \/ TurnFails(r)
  \/ \E t \in TaskIds : Settle(t) \/ ReportLate(t) \/ RetryTask(t) \/ LoseTask(t)
  \/ \E w \in Flows : CreateWorkflow(w) \/ CreateFails(w) \/ DeleteWorkflow(w)
  \/ Crash
  \/ Hangs
  \/ Advancer

Spec == Init /\ [][Next]_vars

\* Handlers run to their end, and the advancer ticks until it panics or hangs.
\* Callers, crashes and failing statements are not fair, and neither is the
\* queue, which does not settle every task.
Fairness == /\ \A r \in Runs : WF_vars(IngestSubmits(r)) /\ WF_vars(InsertRun(r))
            /\ WF_vars(Advancer)

FairSpec == Spec /\ Fairness

-----------------------------------------------------------------------------
(* Properties.                                                             *)

Unsettled(r) == {t \in TaskIds : made[t].run = r /\ status[t] = "pending"}

(* A run has one task in the queue at a time; each crash or failing statement
   between a submit and the update of the run adds at most one, each retry or
   late report one more. *)
OneStepAtATime ==
  \A r \in Runs : Cardinality(Unsettled(r)) <= 1 + crashes + faults + ops + redone

(* "re-dispatch the coder step ... up to MAX_FIXUP_ROUNDS"
   (workflow_runner.rs:9): however the reviewer answers, step 0 is
   submitted once and then once per round, and again only for a crash or a
   failing statement that kept the run from recording it. *)
FixupBudget ==
  \A r \in Runs :
    Cardinality({t \in TaskIds : made[t].run = r /\ made[t].step = 0})
      <= 1 + MAX_FIXUP_ROUNDS + crashes + faults

(* No finished task is consumed twice by its run, crashes included. *)
StepsConsumedOnce ==
  \A r \in Runs : \A i, j \in DOMAIN runs[r].outputs :
    runs[r].outputs[i].task = runs[r].outputs[j].task => i = j

(* The tasks of a run's outputs were all made for that run, and when no
   operator interfered and no task was dispatched twice, a run that is done
   does not end in a review that asked for changes or blocked. *)
DoneIsNotRejected ==
  \A r \in Runs :
    LET outputs == runs[r].outputs IN
    /\ \A i \in DOMAIN outputs : made[outputs[i].task].run = r
    /\ (ops = 0 /\ redone = 0 /\ runs[r].status = "done") =>
         text[outputs[Len(outputs)].task]
           \cap {"BLOCKED", "CHANGES_REQUESTED"} = {}

(* A run whose task is not left pending for ever ends, whatever callers,
   operators, second dispatches, crashes and failing statements do, but for
   five reasons: the advancer died or hangs; newer runs push the run out of
   the list; the row of its task is gone or never came to be; its step was
   finished and the next one cannot be submitted; a review wants changes and
   the workflow is gone. *)
TaskIsGone(r) == TaskStatus(r) = "absent" /\ runs[r].task \notin drafts
FollowUp(r) == IF Verdict(r) = "changes_requested" THEN 0 ELSE runs[r].step + 1
CannotFollow(r) ==
  /\ TaskStatus(r) = "done"
  /\ \/ Verdict(r) = "changes_requested" /\ StepsOf(r) = << >>
     \/ /\ FollowUp(r) < Len(StepsOf(r))
        /\ ~StepsOf(r)[FollowUp(r) + 1].fits

RunsEnd ==
  \A r \in Runs :
    []<>(TaskStatus(r) # "pending")
      => ((runs[r].status = "running")
            ~> \/ runs[r].status \in {"done", "failed"}
               \/ pc \in {"dead", "hung"} \/ r \notin Newest
               \/ TaskIsGone(r) \/ CannotFollow(r))

(* "BLOCKED -> fail the run permanently" (workflow_runner.rs:11). *)
BlockedRunFails ==
  \A r \in Runs :
    (/\ runs[r].status = "running" /\ runs[r].task # 0
     /\ TaskStatus(r) = "done" /\ made[runs[r].task].agent = "code-reviewer"
     /\ "BLOCKED" \in Reply(r))
      ~> (runs[r].status = "failed" \/ ops + redone + crashes + faults > 0)

(* A run fails only because its task failed, its reviewer refused, or its
   workflow was deleted when a step of it was done. *)
RunsFailForCause ==
  [][\A r \in Runs :
       runs[r].status = "running" /\ runs'[r].status = "failed" =>
         LET outputs == runs'[r].outputs IN
         \/ TaskStatus(r) = "failed"
         \/ outputs # runs[r].outputs /\ StepsOf(r) = << >>
         \/ /\ outputs # << >>
            /\ outputs[Len(outputs)].verdict
                 \in {"blocked", "changes_requested"}]_vars

(* The run table implements the review loop. *)
Loop == INSTANCE ReviewLoop WITH
  status <- [r \in Runs |-> IF runs[r].status \in {"draft", "lost"}
                            THEN "none" ELSE runs[r].status],
  step <- [r \in Runs |-> runs[r].step],
  log <- [r \in Runs |-> [i \in DOMAIN runs[r].outputs |->
                            runs[r].outputs[i].verdict]]
LoopSpec == Loop!Spec
=============================================================================
