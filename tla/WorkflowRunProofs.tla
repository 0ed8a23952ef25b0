-------------------------- MODULE WorkflowRunProofs --------------------------
(***************************************************************************)
(* Proofs about workflow runs, for every set of runs, workflows, tasks and *)
(* replies and every bound: the types, what becomes of the tasks of a run, *)
(* why runs fail, and that the run table implements the review loop.       *)
(***************************************************************************)
EXTENDS WorkflowRun, FiniteSetTheorems, SequenceTheorems, TLAPS

-----------------------------------------------------------------------------
(* The inductive invariant.                                                *)

\* A row of the run table, given what the tasks were made for: the tasks it
\* names are its own, and each is named once.
RunFits(m, r, run) ==
  /\ run.status \in {"running", "draft"} => run.step < MaxSteps
  /\ run.status \in {"none", "draft", "lost"} =>
       run.step = 0 /\ run.outputs = << >>
  /\ run.status = "none" => run.task = 0
  /\ run.task # 0 => m[run.task].run = r
  /\ \A i \in DOMAIN run.outputs : /\ m[run.outputs[i].task].run = r
                                   /\ run.outputs[i].task # run.task
  /\ \A i, j \in DOMAIN run.outputs :
       run.outputs[i].task = run.outputs[j].task => i = j

\* What a run becomes when its task is logged with verdict v and the task t
\* of step k takes its place.
Moved(run, v, k, t) ==
  [run EXCEPT !.outputs = Append(@, [task |-> run.task, verdict |-> v]),
              !.step = k, !.task = t]

RoundsOf(run) == Cardinality({i \in DOMAIN run.outputs :
                   run.outputs[i].verdict = "changes_requested"})

\* Another round, or one step further.
Follows(run, v, k) ==
  \/ v = "changes_requested" /\ RoundsOf(run) < MAX_FIXUP_ROUNDS /\ k = 0
  \/ v \in {"none", "approved"} /\ k = run.step + 1

\* Elements of the outputs.
Output == [task : TaskIds, verdict : Verdicts]

RunsFit == \A r \in Runs : RunFits(made, r, runs[r])
TodoFits == \A r \in todo : runs[r].status = "running" /\ runs[r].task # 0
HoldFits == \A r \in Runs : Turn(r, "store") =>
              /\ RunFits(made, r, hold)
              /\ \E v \in Verdicts, k \in 0..MaxSteps, t \in TaskIds :
                   Follows(runs[r], v, k) /\ hold = Moved(runs[r], v, k, t)
QueueFits == /\ \A t \in TaskIds \ used : status[t] = "absent"
             /\ \A t \in drafts : made[t].run # 0

RunInv == TypeOK /\ RunsFit /\ TodoFits /\ HoldFits /\ QueueFits

-----------------------------------------------------------------------------
(* Lemmas about rows of the run table.                                     *)

(* A workflow's step list is a bounded sequence of steps. *)
LEMMA StepLists ==
  ASSUME TypeOK, NEW w \in Flows
  PROVE  flows[w].steps \in Seq(Steps) /\ Len(flows[w].steps) <= MaxSteps
<1>1. flows[w] \in [steps : Defs \cup {<< >>} \cup AutoSteps, enabled : BOOLEAN]
  BY DEF TypeOK
<1>2. flows[w].steps \in Defs \cup {<< >>} \cup AutoSteps
  BY <1>1
<1>3. CASE flows[w].steps \in Defs
  BY <1>3, WorkflowAssumption
<1>4. CASE flows[w].steps = << >>
  BY <1>4, WorkflowAssumption
<1>5. CASE flows[w].steps \in AutoSteps
  <2> DEFINE pairs == {<<Step("coder", f), Step("code-reviewer", g)>> :
                         f \in BOOLEAN, g \in BOOLEAN}
             out == {<<Step("coder", FALSE), Step("code-reviewer", TRUE)>>}
  <2>0. AutoSteps = pairs \ out
    BY DEF AutoSteps
  <2> HIDE DEF pairs, out
  <2>6. flows[w].steps \in pairs
    BY <1>5, <2>0
  <2>1. PICK f \in BOOLEAN, g \in BOOLEAN :
          flows[w].steps = <<Step("coder", f), Step("code-reviewer", g)>>
    BY <2>6 DEF pairs
  <2>2. Step("coder", f) \in Steps /\ Step("code-reviewer", g) \in Steps
    BY Zenon DEF Step, Steps, Agents
  <2>3. PICK a \in Steps, b \in Steps : flows[w].steps = <<a, b>>
    BY <2>1, <2>2, Zenon
  <2> QED
    BY <2>3, WorkflowAssumption
<1> QED
  BY <1>2, <1>3, <1>4, <1>5, WorkflowAssumption

(* What a row consists of. *)
LEMMA RunParts ==
  ASSUME NEW run \in Run
  PROVE  /\ run = [status |-> run.status, flow |-> run.flow, step |-> run.step,
                   task |-> run.task, outputs |-> run.outputs]
         /\ run.status \in {"none", "draft", "running", "done", "failed", "lost"}
         /\ run.flow \in Flows /\ run.step \in 0..MaxSteps
         /\ run.task \in TaskIds \cup {0}
         /\ run.outputs \in Seq(Output)
         /\ Len(run.outputs) \in Nat
         /\ DOMAIN run.outputs = 1..Len(run.outputs)
         /\ \A i \in DOMAIN run.outputs : /\ run.outputs[i] \in Output
                                          /\ run.outputs[i].task \in TaskIds
                                          /\ run.outputs[i].verdict \in Verdicts
<1>1. run.outputs \in Seq(Output)
  BY DEF Run, Output
<1>2. \A i \in DOMAIN run.outputs : run.outputs[i] \in Output
  BY <1>1
<1> QED
  BY <1>1, <1>2 DEF Run, Output

LEMMA RunRow ==
  ASSUME NEW st \in {"none", "draft", "running", "done", "failed", "lost"},
         NEW w \in Flows, NEW k \in 0..MaxSteps, NEW t \in TaskIds \cup {0},
         NEW outs \in Seq(Output)
  PROVE  [status |-> st, flow |-> w, step |-> k, task |-> t,
          outputs |-> outs] \in Run
<1>1. Seq(Output) = Seq([task : TaskIds, verdict : Verdicts])
  BY DEF Output
<1> QED
  BY <1>1 DEF Run

(* Building an envelope for an unused id disturbs no row. *)
LEMMA FitsWhenMade ==
  ASSUME NEW m, NEW t \in TaskIds, NEW x, NEW r \in Runs, NEW run \in Run,
         m \in [TaskIds -> Made], m[t].run = 0, RunFits(m, r, run)
  PROVE  RunFits([m EXCEPT ![t] = x], r, run)
<1> DEFINE n == [m EXCEPT ![t] = x]
<1>1. r # 0
  BY WorkflowAssumption
<1>2. \A u \in TaskIds : m[u].run = r => n[u] = m[u]
  BY <1>1
<1>3. /\ run.task \in TaskIds \cup {0}
      /\ \A i \in DOMAIN run.outputs : run.outputs[i].task \in TaskIds
  BY RunParts
<1> HIDE DEF n
<1>4. RunFits(n, r, run)
  BY <1>2, <1>3 DEF RunFits
<1> QED
  BY <1>4 DEF n

(* A finished task is appended to the outputs. *)
LEMMA LoggedFits ==
  ASSUME NEW m, NEW r \in Runs, NEW run \in Run, NEW v \in Verdicts,
         NEW k \in 0..MaxSteps, NEW t \in TaskIds \cup {0},
         NEW st \in {"running", "done", "failed"},
         NEW new,
         new = [Moved(run, v, k, t) EXCEPT !.status = st],
         RunFits(m, r, run), run.task # 0,
         st = "running" => k < MaxSteps,
         t # 0 => m[t].run = r,
         t # 0 => /\ t # run.task
                  /\ \A i \in DOMAIN run.outputs : run.outputs[i].task # t
  PROVE  new \in Run /\ RunFits(m, r, new)
<1> DEFINE out == [task |-> run.task, verdict |-> v]
<1>1. run.task \in TaskIds /\ m[run.task].run = r
  BY RunParts DEF RunFits
<1>2. out \in Output /\ out.task = run.task
  BY <1>1 DEF Output
<1>3. /\ run.outputs \in Seq(Output)
      /\ DOMAIN run.outputs = 1..Len(run.outputs) /\ Len(run.outputs) \in Nat
      /\ \A i \in DOMAIN run.outputs : run.outputs[i].task \in TaskIds
  BY RunParts
<1> HIDE DEF out
<1>4. PICK outs : outs = Append(run.outputs, out)
  OBVIOUS
<1>5. outs \in Seq(Output)
  BY <1>2, <1>3, <1>4
<1>6. new = [[run EXCEPT !.outputs = outs, !.step = k, !.task = t]
               EXCEPT !.status = st]
  BY <1>4 DEF Moved, out
<1>7. new = [status |-> st, flow |-> run.flow, step |-> k, task |-> t,
             outputs |-> outs]
  BY <1>6, RunParts
<1>8. new \in Run
  <2>1. run.flow \in Flows
    BY RunParts
  <2>2. st \in {"none", "draft", "running", "done", "failed", "lost"}
    OBVIOUS
  <2>3. [status |-> st, flow |-> run.flow, step |-> k, task |-> t,
         outputs |-> outs] \in Run
    BY <1>5, <2>1, <2>2, RunRow
  <2> QED
    BY <1>7, <2>3, Zenon
<1>9. /\ DOMAIN outs = 1..(Len(run.outputs) + 1)
      /\ \A i \in 1..Len(run.outputs) : outs[i] = run.outputs[i]
      /\ outs[Len(run.outputs) + 1] = out
  BY <1>2, <1>3, <1>4
<1>10. \A i \in DOMAIN outs : m[outs[i].task].run = r /\ outs[i].task # t
  <2> SUFFICES ASSUME NEW i \in DOMAIN outs
               PROVE  m[outs[i].task].run = r /\ outs[i].task # t
    OBVIOUS
  <2>1. CASE i \in 1..Len(run.outputs)
    <3>1. outs[i].task \in TaskIds /\ m[outs[i].task].run = r
      BY <2>1, <1>3, <1>9 DEF RunFits
    <3>2. t # 0 => outs[i].task # t
      BY <2>1, <1>3, <1>9
    <3>3. outs[i].task # 0
      BY <3>1, WorkflowAssumption
    <3> QED
      BY <3>1, <3>2, <3>3
  <2>2. CASE i = Len(run.outputs) + 1
    BY <2>2, <1>1, <1>2, <1>9
  <2> QED
    BY <2>1, <2>2, <1>3, <1>9
<1>11. \A i, j \in DOMAIN outs : outs[i].task = outs[j].task => i = j
  <2> SUFFICES ASSUME NEW i \in DOMAIN outs, NEW j \in DOMAIN outs,
                      outs[i].task = outs[j].task
               PROVE  i = j
    OBVIOUS
  <2>1. \A l \in 1..Len(run.outputs) : outs[l].task # run.task
    BY <1>3, <1>9 DEF RunFits
  <2>2. CASE i \in 1..Len(run.outputs) /\ j \in 1..Len(run.outputs)
    BY <2>2, <1>3, <1>9 DEF RunFits
  <2>3. outs[Len(run.outputs) + 1].task = run.task
    BY <1>2, <1>9
  <2>4. \A l \in DOMAIN outs : l \in 1..Len(run.outputs) \/ l = Len(run.outputs) + 1
    BY <1>3, <1>9
  <2> QED
    BY <2>1, <2>2, <2>3, <2>4
<1>12. /\ new.status = st /\ new.step = k /\ new.task = t
       /\ new.outputs = outs
  BY <1>7
<1> QED
  BY <1>8, <1>10, <1>11, <1>12 DEF RunFits

-----------------------------------------------------------------------------
(* Each kind of step preserves the invariant.                              *)

(* The run whose turn it is, and what is stored of it. *)
LEMMA TurnParts ==
  ASSUME RunInv, NEW r \in Runs, NEW at \in {"scan", "read", "store"}, Turn(r, at)
  PROVE  /\ runs[r] \in Run /\ RunFits(made, r, runs[r])
         /\ runs[r].status = "running" /\ runs[r].task \in TaskIds
         /\ runs[r].step \in Nat /\ runs[r].step < MaxSteps
         /\ Verdict(r) \in Verdicts
<1>1. runs[r] \in Run /\ RunFits(made, r, runs[r])
  BY DEF RunInv, TypeOK, RunsFit
<1>2. runs[r].status = "running" /\ runs[r].task # 0
  BY DEF RunInv, TodoFits, Turn
<1>3. runs[r].task \in TaskIds \cup {0} /\ runs[r].step \in 0..MaxSteps
  BY <1>1, RunParts
<1>4. Verdict(r) \in Verdicts
  BY DEF Verdict, ParseVerdict, Verdicts
<1> QED
  BY <1>1, <1>2, <1>3, <1>4, WorkflowAssumption DEF RunFits

LEMMA MovedStatus ==
  ASSUME NEW run \in Run, NEW v, NEW k, NEW t
  PROVE  /\ [Moved(run, v, k, t) EXCEPT !.status = run.status] = Moved(run, v, k, t)
         /\ Moved(run, v, k, t).status = run.status
<1> DEFINE outs == Append(run.outputs, [task |-> run.task, verdict |-> v])
<1>1. Moved(run, v, k, t) = [run EXCEPT !.outputs = outs, !.step = k, !.task = t]
  BY DEF Moved
<1> HIDE DEF outs
<1>2. run = [status |-> run.status, flow |-> run.flow, step |-> run.step,
             task |-> run.task, outputs |-> run.outputs]
  BY RunParts
<1>3. Moved(run, v, k, t) = [status |-> run.status, flow |-> run.flow,
                             step |-> k, task |-> t, outputs |-> outs]
  BY <1>1, <1>2
<1> QED
  BY <1>3

LEMMA NothingIsRow == Nothing \in Run
<1>1. AnyRun \in Flows
  BY WorkflowAssumption DEF AnyRun, Flows
<1>2. << >> \in Seq(Output) /\ 0 \in 0..MaxSteps /\ 0 \in TaskIds \cup {0}
      /\ "none" \in {"none", "draft", "running", "done", "failed", "lost"}
  BY WorkflowAssumption
<1>3. [status |-> "none", flow |-> AnyRun, step |-> 0, task |-> 0,
       outputs |-> << >>] \in Run
  BY <1>1, <1>2, RunRow
<1> QED
  BY <1>3, Zenon DEF Nothing, NewRun

\* The bounds, in one piece.
Bounded == /\ ops \in 0..MaxOps /\ redone \in 0..MaxLate
           /\ crashes \in 0..MaxCrashes /\ faults \in 0..MaxFaults

LEMMA BoundsKept ==
  ASSUME RunInv, ops' = ops \/ (ops' = ops + 1 /\ ops' <= MaxOps),
         UNCHANGED <<redone, crashes, faults>> \/ Fault
  PROVE  Bounded'
<1>1. ops \in 0..MaxOps /\ redone \in 0..MaxLate
      /\ crashes \in 0..MaxCrashes /\ faults \in 0..MaxFaults
  BY DEF RunInv, TypeOK
<1>2. ops' \in 0..MaxOps
  BY <1>1, WorkflowAssumption
<1>3. UNCHANGED <<redone, crashes>> /\ faults' \in 0..MaxFaults
  BY <1>1, WorkflowAssumption DEF Fault
<1> QED
  BY <1>1, <1>2, <1>3 DEF Bounded

\* Another writer's row is set while the advancer waits for others.
LEMMA RowIsSet ==
  ASSUME RunInv, NEW r \in Runs, runs[r].status # "running",
         NEW run \in Run, RunFits(made, r, run),
         runs' = [runs EXCEPT ![r] = run], UNCHANGED <<made, advancerVars>>
  PROVE  runs' \in [Runs -> Run] /\ RunsFit' /\ TodoFits' /\ HoldFits'
<1>1. runs \in [Runs -> Run]
  BY DEF RunInv, TypeOK
<1>2. r \notin todo
  BY DEF RunInv, TodoFits
<1>3. runs' \in [Runs -> Run] /\ \A q \in Runs : q # r => runs'[q] = runs[q]
  BY <1>1
<1>4. RunsFit'
  BY <1>1, <1>3 DEF RunInv, RunsFit
<1>5. TodoFits'
  BY <1>2, <1>3 DEF RunInv, TypeOK, TodoFits, advancerVars
<1>6. HoldFits'
  <2>1. \A q \in Runs : Turn(q, "store")' => Turn(q, "store") /\ q # r
    BY <1>2 DEF Turn, advancerVars
  <2> QED
    BY <1>3, <2>1 DEF RunInv, HoldFits, advancerVars
<1> QED
  BY <1>3, <1>4, <1>5, <1>6

\* The advancer drops what it was at.
LEMMA DropStep ==
  ASSUME RunInv, UNCHANGED <<flows, runs, taskVars>>, Bounded',
         pc' \in {"scan", "dead", "hung"}, todo' \subseteq todo, hold' = Nothing
  PROVE  RunInv'
<1>1. TypeOK' /\ QueueFits'
  BY NothingIsRow
     DEF RunInv, TypeOK, Bounded, QueueFits, taskVars, queueVars
<1>2. RunsFit' /\ TodoFits' /\ HoldFits'
  BY DEF RunInv, RunsFit, TodoFits, HoldFits, Turn, taskVars
<1> QED
  BY <1>1, <1>2 DEF RunInv

\* A turn that ends writes one row, or none.
LEMMA TurnOverStep ==
  ASSUME RunInv, NEW r \in Runs, NEW at \in {"scan", "read", "store"}, Turn(r, at),
         TurnOver(r), NEW run \in Run, RunFits(made, r, run),
         runs' = [runs EXCEPT ![r] = run],
         UNCHANGED <<flows, taskVars, boundVars>>
  PROVE  RunInv'
<1>1. runs \in [Runs -> Run]
  BY DEF RunInv, TypeOK
<1>2. runs' \in [Runs -> Run]
  BY <1>1
<1>3. Nothing \in Run
  BY NothingIsRow
<1>4. TypeOK'
  BY <1>2, <1>3 DEF RunInv, TypeOK, TurnOver, taskVars, queueVars, boundVars
<1>5. RunsFit'
  BY <1>1 DEF RunInv, RunsFit, taskVars
<1>6. TodoFits'
  BY <1>1 DEF RunInv, TypeOK, TodoFits, TurnOver
<1>7. HoldFits'
  BY DEF HoldFits, Turn, TurnOver
<1>8. QueueFits'
  BY DEF RunInv, QueueFits, taskVars, queueVars
<1> QED
  BY <1>4, <1>5, <1>6, <1>7, <1>8 DEF RunInv

LEMMA TurnOverIdle ==
  ASSUME RunInv, NEW r \in Runs, NEW at \in {"scan", "read", "store"}, Turn(r, at),
         TurnOver(r), UNCHANGED <<flows, runs, taskVars, boundVars>>
  PROVE  RunInv'
<1>1. runs[r] \in Run /\ RunFits(made, r, runs[r])
  BY TurnParts
<1>2. runs' = [runs EXCEPT ![r] = runs[r]]
  BY DEF RunInv, TypeOK
<1> QED
  BY <1>1, <1>2, TurnOverStep

\* The rows a turn that read a reply makes.
Held(row, k, t) == [row EXCEPT !.step = k, !.task = t]
Finished(row, k) == [row EXCEPT !.status = "done", !.task = 0, !.step = k]
Ended(run, v, k, st) == [Moved(run, v, k, 0) EXCEPT !.status = st]

LEMMA LoggedIsMoved ==
  ASSUME NEW r \in Runs, runs[r] \in Run, NEW k, NEW t
  PROVE  /\ Held(Logged(r), k, t) = Moved(runs[r], Verdict(r), k, t)
         /\ Failed(Logged(r)) = Ended(runs[r], Verdict(r), runs[r].step, "failed")
         /\ Finished(Logged(r), k) = Ended(runs[r], Verdict(r), k, "done")
<1> PICK run \in Run : run = runs[r]
  OBVIOUS
<1> DEFINE outs == Append(run.outputs, [task |-> run.task, verdict |-> Verdict(r)])
<1>1. Logged(r) = [run EXCEPT !.outputs = outs]
  BY DEF Logged
<1>2. ASSUME NEW j, NEW u
      PROVE  Moved(run, Verdict(r), j, u)
               = [run EXCEPT !.outputs = outs, !.step = j, !.task = u]
  BY DEF Moved
<1> HIDE DEF outs
<1>3. run = [status |-> run.status, flow |-> run.flow, step |-> run.step,
             task |-> run.task, outputs |-> run.outputs]
  BY RunParts
<1>4. Logged(r) = [status |-> run.status, flow |-> run.flow, step |-> run.step,
                   task |-> run.task, outputs |-> outs]
  BY <1>1, <1>3
<1>5. ASSUME NEW j, NEW u
      PROVE  Moved(run, Verdict(r), j, u)
               = [status |-> run.status, flow |-> run.flow, step |-> j,
                  task |-> u, outputs |-> outs]
  <2>1. Moved(run, Verdict(r), j, u)
          = [run EXCEPT !.outputs = outs, !.step = j, !.task = u]
    BY <1>2
  <2> QED
    BY <2>1, <1>3
<1>6. /\ Moved(runs[r], Verdict(r), k, t)
           = [status |-> run.status, flow |-> run.flow, step |-> k,
              task |-> t, outputs |-> outs]
      /\ Moved(runs[r], Verdict(r), k, 0)
           = [status |-> run.status, flow |-> run.flow, step |-> k,
              task |-> 0, outputs |-> outs]
      /\ Moved(runs[r], Verdict(r), runs[r].step, 0)
           = [status |-> run.status, flow |-> run.flow, step |-> run.step,
              task |-> 0, outputs |-> outs]
  BY <1>5
<1>7. /\ [Logged(r) EXCEPT !.step = k, !.task = t]
           = [status |-> run.status, flow |-> run.flow, step |-> k, task |-> t,
              outputs |-> outs]
      /\ Failed(Logged(r))
           = [status |-> "failed", flow |-> run.flow, step |-> run.step,
              task |-> 0, outputs |-> outs]
      /\ [Logged(r) EXCEPT !.status = "done", !.task = 0, !.step = k]
           = [status |-> "done", flow |-> run.flow, step |-> k, task |-> 0,
              outputs |-> outs]
  <2>0. PICK row : row = Logged(r)
    OBVIOUS
  <2>7. row = [status |-> run.status, flow |-> run.flow, step |-> run.step,
               task |-> run.task, outputs |-> outs]
    BY <1>4, <2>0, Zenon
  <2>1. PICK a : a = [row EXCEPT !.step = k, !.task = t]
    OBVIOUS
  <2>2. PICK b : b = [row EXCEPT !.status = "failed", !.task = 0]
    OBVIOUS
  <2>3. PICK c : c = [row EXCEPT !.status = "done", !.task = 0, !.step = k]
    OBVIOUS
  <2>4. a = [status |-> run.status, flow |-> run.flow, step |-> k, task |-> t,
             outputs |-> outs]
    BY <2>7, <2>1
  <2>5. b = [status |-> "failed", flow |-> run.flow, step |-> run.step,
             task |-> 0, outputs |-> outs]
    BY <2>7, <2>2
  <2>6. c = [status |-> "done", flow |-> run.flow, step |-> k, task |-> 0,
             outputs |-> outs]
    BY <2>7, <2>3
  <2> QED
    BY <2>0, <2>1, <2>2, <2>3, <2>4, <2>5, <2>6, Zenon DEF Failed
<1>8. /\ [Moved(runs[r], Verdict(r), runs[r].step, 0) EXCEPT !.status = "failed"]
           = [status |-> "failed", flow |-> run.flow, step |-> run.step,
              task |-> 0, outputs |-> outs]
      /\ [Moved(runs[r], Verdict(r), k, 0) EXCEPT !.status = "done"]
           = [status |-> "done", flow |-> run.flow, step |-> k, task |-> 0,
              outputs |-> outs]
  <2>1. PICK a : a = [Moved(runs[r], Verdict(r), runs[r].step, 0)
                        EXCEPT !.status = "failed"]
    OBVIOUS
  <2>2. PICK b : b = [Moved(runs[r], Verdict(r), k, 0) EXCEPT !.status = "done"]
    OBVIOUS
  <2>3. a = [status |-> "failed", flow |-> run.flow, step |-> run.step,
             task |-> 0, outputs |-> outs]
    BY <1>6, <2>1
  <2>4. b = [status |-> "done", flow |-> run.flow, step |-> k, task |-> 0,
             outputs |-> outs]
    BY <1>6, <2>2
  <2> QED
    BY <2>1, <2>2, <2>3, <2>4, Zenon
<1> QED
  BY <1>6, <1>7, <1>8, Zenon DEF Held, Finished, Ended

\* What a turn that reads a reply may store.
LEMMA TurnOverStores ==
  ASSUME RunInv, NEW r \in Runs, Turn(r, "read"), TurnOver(r),
         NEW st \in {"done", "failed"}, NEW k \in 0..MaxSteps,
         runs' = [runs EXCEPT ![r] = Ended(runs[r], Verdict(r), k, st)],
         UNCHANGED <<flows, taskVars, boundVars>>
  PROVE  RunInv'
<1> PICK run : run = Ended(runs[r], Verdict(r), k, st)
  OBVIOUS
<1>1. /\ runs[r] \in Run /\ RunFits(made, r, runs[r]) /\ runs[r].task \in TaskIds
      /\ Verdict(r) \in Verdicts
  BY TurnParts
<1>2. runs[r].task # 0
  BY <1>1, WorkflowAssumption
<1>3. st \in {"running", "done", "failed"} /\ st # "running"
      /\ 0 \in TaskIds \cup {0}
  OBVIOUS
<1>4. run = [Moved(runs[r], Verdict(r), k, 0) EXCEPT !.status = st]
  BY Zenon DEF Ended
<1>5. run \in Run /\ RunFits(made, r, run)
  BY <1>1, <1>2, <1>3, <1>4, LoggedFits
<1> QED
  BY <1>5, TurnOverStep

LEMMA StaysTheSame ==
  ASSUME RunInv, UNCHANGED <<runs, made, advancerVars>>
  PROVE  RunsFit' /\ TodoFits' /\ HoldFits'
BY DEF RunInv, RunsFit, TodoFits, HoldFits, Turn, advancerVars

LEMMA UnusedMade ==
  ASSUME RunInv, NEW t \in TaskIds, IsFresh(t), NEW x,
         made' = [made EXCEPT ![t] = x]
  PROVE  /\ \A q \in Runs, run \in Run :
              RunFits(made, q, run) => RunFits(made', q, run)
         /\ t \notin used /\ t \notin drafts
         /\ \A q \in Runs : /\ runs[q].task # t
                            /\ \A i \in DOMAIN runs[q].outputs :
                                 runs[q].outputs[i].task # t
<1>1. made \in [TaskIds -> Made] /\ made[t].run = 0
  BY DEF RunInv, TypeOK, IsFresh, Unused
<1>2. \A q \in Runs, run \in Run : RunFits(made, q, run) => RunFits(made', q, run)
  BY <1>1, FitsWhenMade
<1>3. t \notin used /\ t \notin drafts
  BY <1>1 DEF RunInv, TypeOK, QueueFits
<1>4. ASSUME NEW q \in Runs
      PROVE  /\ runs[q].task # t
             /\ \A i \in DOMAIN runs[q].outputs : runs[q].outputs[i].task # t
  <2>1. RunFits(made, q, runs[q])
    BY DEF RunInv, RunsFit
  <2>2. q # 0 /\ t # 0
    BY WorkflowAssumption
  <2> QED
    BY <1>1, <2>1, <2>2 DEF RunFits
<1> QED
  BY <1>2, <1>3, <1>4

\* Launching a run writes its row, and an envelope is built for it.
LEMMA LaunchStep ==
  ASSUME RunInv, NEW r \in Runs, runs[r].status = "none",
         NEW t \in TaskIds, IsFresh(t), NEW agent \in Agents,
         made' = [made EXCEPT ![t] = MadeFor(r, agent, 0)],
         NEW st \in {"draft", "running"}, NEW w \in Flows,
         runs' = [runs EXCEPT ![r] = NewRun(st, w, t)],
         UNCHANGED advancerVars
  PROVE  /\ runs' \in [Runs -> Run] /\ made' \in [TaskIds -> Made]
         /\ \A u \in TaskIds : made[u].run # 0 => made'[u].run # 0
         /\ made'[t].run # 0
         /\ RunsFit' /\ TodoFits' /\ HoldFits'
<1>1. runs \in [Runs -> Run] /\ made \in [TaskIds -> Made] /\ hold \in Run
      /\ todo \subseteq Runs
  BY DEF RunInv, TypeOK
<1> PICK run : run = NewRun(st, w, t)
  OBVIOUS
<1>2. run = [status |-> st, flow |-> w, step |-> 0, task |-> t, outputs |-> << >>]
  BY DEF NewRun
<1>3. run \in Run
  <2>1. << >> \in Seq(Output) /\ 0 \in 0..MaxSteps
        /\ st \in {"none", "draft", "running", "done", "failed", "lost"}
    BY WorkflowAssumption
  <2>2. [status |-> st, flow |-> w, step |-> 0, task |-> t,
         outputs |-> << >>] \in Run
    BY <2>1, RunRow
  <2> QED
    BY <1>2, <2>2
<1>4. MadeFor(r, agent, 0) \in Made /\ MadeFor(r, agent, 0).run = r
  BY WorkflowAssumption DEF Made, MadeFor
<1>5. made' \in [TaskIds -> Made] /\ made'[t].run = r
  BY <1>1, <1>4
<1>6. RunFits(made', r, run)
  BY <1>2, <1>5, WorkflowAssumption DEF RunFits
<1>7. \A q \in Runs, row \in Run : RunFits(made, q, row) => RunFits(made', q, row)
  BY UnusedMade
<1>8. runs' \in [Runs -> Run] /\ \A q \in Runs : q # r => runs'[q] = runs[q]
  BY <1>1, <1>3
<1>9. RunsFit'
  BY <1>1, <1>6, <1>7, <1>8 DEF RunInv, RunsFit
<1>10. r \notin todo
  BY DEF RunInv, TodoFits
<1>11. TodoFits'
  BY <1>1, <1>8, <1>10 DEF RunInv, TodoFits, advancerVars
<1>12. HoldFits'
  <2> SUFFICES ASSUME NEW q \in Runs, Turn(q, "store")'
               PROVE  /\ RunFits(made', q, hold')
                      /\ \E v \in Verdicts, k \in 0..MaxSteps, u \in TaskIds :
                           /\ Follows(runs'[q], v, k)
                           /\ hold' = Moved(runs'[q], v, k, u)
    BY DEF HoldFits
  <2>1. Turn(q, "store") /\ hold' = hold
    BY DEF Turn, advancerVars
  <2>2. q # r
    BY <2>1, <1>10 DEF Turn
  <2>3. RunFits(made', q, hold')
    BY <1>1, <1>7, <2>1 DEF RunInv, HoldFits
  <2> QED
    BY <1>8, <2>1, <2>2, <2>3 DEF RunInv, HoldFits
<1>13. /\ \A u \in TaskIds : made[u].run # 0 => made'[u].run # 0
       /\ made'[t].run # 0
  BY <1>1, <1>5, WorkflowAssumption
<1> QED
  BY <1>5, <1>8, <1>9, <1>11, <1>12, <1>13

\* A step of the queue: rows of the run table stay as they are.
LEMMA QueueReports ==
  ASSUME RunInv, NEW t \in TaskIds, NEW st \in {"pending", "done", "failed"},
         NEW x \in SUBSET Words, Queue!Report(t, st, x)
  PROVE  /\ status' \in [TaskIds -> {"absent", "pending", "done", "failed"}]
         /\ text' \in [TaskIds -> SUBSET Words]
         /\ late' \subseteq {u \in TaskIds : status'[u] \in {"done", "failed"}}
         /\ used' = used
         /\ \A u \in TaskIds \ used : status'[u] = "absent"
<1>1. /\ status \in [TaskIds -> {"absent", "pending", "done", "failed"}]
      /\ text \in [TaskIds -> SUBSET Words]
      /\ late \subseteq {u \in TaskIds : status[u] \in {"done", "failed"}}
  BY DEF RunInv, TypeOK
<1>2. /\ status[t] = "pending" \/ t \in late
      /\ status' = [status EXCEPT ![t] = st]
      /\ text' = [text EXCEPT ![t] = x]
      /\ IF st = "pending" THEN late' = late \ {t}
                           ELSE late' \in {late \cup {t}, late \ {t}}
      /\ used' = used
  BY DEF Queue!Report
<1>3. t \in used
  BY <1>1, <1>2 DEF RunInv, QueueFits
<1>4. late' \subseteq {u \in TaskIds : status'[u] \in {"done", "failed"}}
  BY <1>1, <1>2
<1>5. \A u \in TaskIds \ used : status'[u] = "absent"
  BY <1>1, <1>2, <1>3 DEF RunInv, QueueFits
<1> QED
  BY <1>1, <1>2, <1>4, <1>5

LEMMA QueueSubmits ==
  ASSUME RunInv, NEW t \in TaskIds, Queue!Submit(t)
  PROVE  /\ status' \in [TaskIds -> {"absent", "pending", "done", "failed"}]
         /\ UNCHANGED <<text, late, ops, crashes>>
         /\ late' \subseteq {u \in TaskIds : status'[u] \in {"done", "failed"}}
         /\ used' = used \cup {t}
         /\ \A u \in TaskIds \ used' : status'[u] = "absent"
<1>1. /\ status \in [TaskIds -> {"absent", "pending", "done", "failed"}]
      /\ late \subseteq {u \in TaskIds : status[u] \in {"done", "failed"}}
  BY DEF RunInv, TypeOK
<1>2. /\ t \notin used
      /\ used' = used \cup {t}
      /\ status' = [status EXCEPT ![t] = "pending"]
      /\ UNCHANGED <<text, late, ops, crashes>>
  BY DEF Queue!Submit
<1>3. status[t] = "absent"
  BY <1>2 DEF RunInv, QueueFits
<1>4. t \notin late
  BY <1>1, <1>3
<1> QED
  BY <1>1, <1>2, <1>4 DEF RunInv, QueueFits

LEMMA ReportStep ==
  ASSUME RunInv, NEW t \in TaskIds, NEW st \in {"done", "failed"}, Report(t, st)
  PROVE  RunInv'
<1>1. PICK x \in {text[t]} \cup IF st = "done" /\ made[t].agent = "code-reviewer"
                                  THEN Replies ELSE {} :
           Queue!Report(t, st, x)
  BY DEF Report
<1>2. x \in SUBSET Words
  BY WorkflowAssumption DEF RunInv, TypeOK
<1>3. /\ status' \in [TaskIds -> {"absent", "pending", "done", "failed"}]
      /\ text' \in [TaskIds -> SUBSET Words]
      /\ late' \subseteq {u \in TaskIds : status'[u] \in {"done", "failed"}}
      /\ used' = used
      /\ \A u \in TaskIds \ used : status'[u] = "absent"
  BY <1>1, <1>2, QueueReports
<1>4. /\ UNCHANGED <<ops, crashes>>
      /\ UNCHANGED <<flows, runs, made, drafts, advancerVars, faults>>
      /\ redone' \in {redone, redone + 1} /\ redone' <= MaxLate
  BY <1>1 DEF Report, Queue!Report
<1>5. redone' \in 0..MaxLate
  BY <1>4, WorkflowAssumption DEF RunInv, TypeOK
<1>6. TypeOK'
  BY <1>3, <1>4, <1>5 DEF RunInv, TypeOK, advancerVars
<1>7. QueueFits'
  BY <1>3, <1>4 DEF RunInv, QueueFits
<1> QED
  BY <1>4, <1>6, <1>7, StaysTheSame DEF RunInv

LEMMA ReportLateStep ==
  ASSUME RunInv, NEW t \in TaskIds, ReportLate(t)
  PROVE  RunInv'
<1>1. CASE \E st \in {"done", "failed"} : Report(t, st)
  BY <1>1, ReportStep
<1>2. CASE /\ Queue!Report(t, "pending", {})
           /\ UNCHANGED <<flows, runs, made, drafts, advancerVars, redone, faults>>
  <2>1. /\ status' \in [TaskIds -> {"absent", "pending", "done", "failed"}]
        /\ text' \in [TaskIds -> SUBSET Words]
        /\ late' \subseteq {u \in TaskIds : status'[u] \in {"done", "failed"}}
        /\ used' = used
        /\ \A u \in TaskIds \ used : status'[u] = "absent"
    BY <1>2, QueueReports
  <2>2. UNCHANGED <<ops, crashes>>
    BY <1>2 DEF Queue!Report
  <2>3. TypeOK'
    BY <1>2, <2>1, <2>2 DEF RunInv, TypeOK, advancerVars
  <2>4. QueueFits'
    BY <1>2, <2>1 DEF RunInv, QueueFits
  <2> QED
    BY <1>2, <2>3, <2>4, StaysTheSame DEF RunInv
<1> QED
  BY <1>1, <1>2 DEF ReportLate

LEMMA RetryStep ==
  ASSUME RunInv, NEW t \in TaskIds, RetryTask(t)
  PROVE  RunInv'
<1>1. /\ t \in TaskIds /\ status[t] # "absent"
      /\ status' = [u \in TaskIds |-> IF u \in {t} THEN "pending" ELSE status[u]]
      /\ text' = [u \in TaskIds |-> IF u \in {t} THEN {} ELSE text[u]]
      /\ late' = late \ {t}
      /\ ops' = ops + 1
      /\ UNCHANGED <<used, crashes>>
  BY DEF RetryTask, Queue!Retry, Queue!Present
<1>2. UNCHANGED <<flows, runs, made, drafts, advancerVars, redone, faults>> /\ ops < MaxOps
  BY DEF RetryTask
<1>3. ops' \in 0..MaxOps
  BY <1>1, <1>2, WorkflowAssumption DEF RunInv, TypeOK
<1>4. /\ status \in [TaskIds -> {"absent", "pending", "done", "failed"}]
      /\ text \in [TaskIds -> SUBSET Words]
      /\ late \subseteq {u \in TaskIds : status[u] \in {"done", "failed"}}
  BY DEF RunInv, TypeOK
<1>5. /\ status' \in [TaskIds -> {"absent", "pending", "done", "failed"}]
      /\ text' \in [TaskIds -> SUBSET Words]
      /\ late' \subseteq {u \in TaskIds : status'[u] \in {"done", "failed"}}
  BY <1>1, <1>4
<1>6. TypeOK'
  BY <1>1, <1>2, <1>3, <1>5 DEF RunInv, TypeOK, advancerVars
<1>7. QueueFits'
  BY <1>1, <1>2 DEF RunInv, QueueFits
<1> QED
  BY <1>2, <1>6, <1>7, StaysTheSame DEF RunInv

LEMMA LoseStep ==
  ASSUME RunInv, NEW t \in TaskIds, LoseTask(t)
  PROVE  RunInv'
<1>1. /\ status' = [status EXCEPT ![t] = "absent"]
      /\ text' = [text EXCEPT ![t] = {}]
      /\ late' = late \ {t}
      /\ ops' = ops \/ (ops' = ops + 1 /\ ops' <= MaxOps)
      /\ UNCHANGED used
  BY DEF LoseTask, Queue!Lose
<1>2. UNCHANGED <<flows, runs, made, drafts, advancerVars>> /\ Fault
  BY DEF LoseTask
<1>3. Bounded'
  BY <1>1, <1>2, BoundsKept
<1>4. /\ status \in [TaskIds -> {"absent", "pending", "done", "failed"}]
      /\ text \in [TaskIds -> SUBSET Words]
      /\ late \subseteq {u \in TaskIds : status[u] \in {"done", "failed"}}
  BY DEF RunInv, TypeOK
<1>5. /\ status' \in [TaskIds -> {"absent", "pending", "done", "failed"}]
      /\ text' \in [TaskIds -> SUBSET Words]
      /\ late' \subseteq {u \in TaskIds : status'[u] \in {"done", "failed"}}
  BY <1>1, <1>4
<1>6. TypeOK'
  BY <1>1, <1>2, <1>3, <1>5 DEF RunInv, TypeOK, Bounded, advancerVars
<1>7. QueueFits'
  BY <1>1, <1>2, <1>4 DEF RunInv, QueueFits
<1> QED
  BY <1>2, <1>6, <1>7, StaysTheSame DEF RunInv

LEMMA RedefineStep ==
  ASSUME RunInv, NEW w \in Flows,
         CreateWorkflow(w) \/ CreateFails(w) \/ DeleteWorkflow(w)
  PROVE  RunInv'
<1> DEFINE Defined == [steps : Defs \cup {<< >>} \cup AutoSteps, enabled : BOOLEAN]
<1>1. UNCHANGED <<runs, taskVars, advancerVars>>
  BY DEF CreateWorkflow, CreateFails, DeleteWorkflow
<1>2. Bounded'
  <2>1. ops' = ops + 1 /\ ops < MaxOps
    BY DEF CreateWorkflow, CreateFails, DeleteWorkflow
  <2>2. UNCHANGED <<redone, crashes, faults>> \/ Fault
    BY DEF CreateWorkflow, CreateFails, DeleteWorkflow
  <2>3. ops' <= MaxOps
    BY <2>1, WorkflowAssumption DEF RunInv, TypeOK
  <2> QED
    BY <2>1, <2>2, <2>3, BoundsKept
<1>3. PICK x \in Defined : flows' = [flows EXCEPT ![w] = x]
  <2>1. CASE CreateWorkflow(w)
    <3>1. PICK d \in Defs, e \in BOOLEAN :
            flows' = [flows EXCEPT ![w] = [steps |-> d, enabled |-> e]]
      BY <2>1, Zenon DEF CreateWorkflow
    <3>2. [steps |-> d, enabled |-> e] \in Defined
      BY Zenon
    <3> QED
      BY <3>1, <3>2, Zenon
  <2>2. CASE CreateFails(w) \/ DeleteWorkflow(w)
    <3>1. NoFlow \in Defined
      BY DEF NoFlow
    <3> QED
      BY <2>2, <3>1 DEF CreateFails, DeleteWorkflow
  <2> QED
    BY <2>1, <2>2
<1>4. flows \in [Flows -> Defined]
  BY DEF RunInv, TypeOK
<1> HIDE DEF Defined
<1>5. flows' \in [Flows -> Defined]
  BY <1>3, <1>4
<1>6. TypeOK'
  BY <1>1, <1>2, <1>5
     DEF RunInv, TypeOK, Bounded, advancerVars, taskVars, queueVars, Defined
<1>7. QueueFits'
  BY <1>1 DEF RunInv, QueueFits, taskVars, queueVars
<1> QED
  BY <1>1, <1>6, <1>7, StaysTheSame DEF RunInv, taskVars

LEMMA CrashStep ==
  ASSUME RunInv, Crash
  PROVE  RunInv'
<1>1. PICK gone : Queue!Outage(gone)
  BY DEF Crash
<1>2. /\ status' = [t \in TaskIds |-> IF t \in gone THEN "absent" ELSE status[t]]
      /\ text' = [t \in TaskIds |-> IF t \in gone THEN {} ELSE text[t]]
      /\ late' = {}
      /\ UNCHANGED <<used, ops>>
  BY <1>1 DEF Queue!Outage
<1>3. /\ crashes < MaxCrashes /\ crashes' = crashes + 1 /\ drafts' = {}
      /\ runs' = [r \in Runs |-> IF runs[r].status = "draft"
                                 THEN [runs[r] EXCEPT !.status = "lost"]
                                 ELSE runs[r]]
      /\ pc' = "scan" /\ todo' = {} /\ hold' = Nothing
      /\ UNCHANGED <<flows, made, redone, faults>>
  BY DEF Crash
<1>4. /\ status' \in [TaskIds -> {"absent", "pending", "done", "failed"}]
      /\ text' \in [TaskIds -> SUBSET Words]
  BY <1>2 DEF RunInv, TypeOK
<1>5. crashes' \in 0..MaxCrashes
  BY <1>3, WorkflowAssumption DEF RunInv, TypeOK
<1>6. ASSUME NEW r \in Runs
      PROVE  runs'[r] \in Run /\ RunFits(made, r, runs'[r])
  <2>1. runs[r] \in Run /\ RunFits(made, r, runs[r])
    BY DEF RunInv, TypeOK, RunsFit
  <2>2. CASE runs[r].status # "draft"
    BY <1>3, <2>1, <2>2
  <2>3. CASE runs[r].status = "draft"
    <3> PICK run : run = [runs[r] EXCEPT !.status = "lost"]
      OBVIOUS
    <3>1. runs'[r] = run
      BY <1>3, <2>3
    <3>2. run = [status |-> "lost", flow |-> runs[r].flow, step |-> runs[r].step,
                 task |-> runs[r].task, outputs |-> runs[r].outputs]
      BY <2>1, RunParts
    <3>3. run \in Run
      <4>1. /\ runs[r].flow \in Flows /\ runs[r].step \in 0..MaxSteps
            /\ runs[r].task \in TaskIds \cup {0} /\ runs[r].outputs \in Seq(Output)
            /\ "lost" \in {"none", "draft", "running", "done", "failed", "lost"}
        BY <2>1, RunParts
      <4>2. [status |-> "lost", flow |-> runs[r].flow, step |-> runs[r].step,
             task |-> runs[r].task, outputs |-> runs[r].outputs] \in Run
        BY <4>1, RunRow
      <4> QED
        BY <3>2, <4>2, Zenon
    <3>4. RunFits(made, r, run)
      BY <2>1, <2>3, <3>2 DEF RunFits
    <3> QED
      BY <3>1, <3>3, <3>4
  <2> QED
    BY <2>2, <2>3
<1>7. Nothing \in Run
  BY NothingIsRow
<1>8. runs' \in [Runs -> Run]
  BY <1>3, <1>6
<1>9. TypeOK'
  BY <1>2, <1>3, <1>4, <1>5, <1>7, <1>8 DEF RunInv, TypeOK
<1>10. RunsFit' /\ TodoFits' /\ HoldFits'
  BY <1>3, <1>6 DEF RunsFit, TodoFits, HoldFits, Turn
<1>11. QueueFits'
  BY <1>2, <1>3 DEF RunInv, TypeOK, QueueFits
<1> QED
  BY <1>9, <1>10, <1>11 DEF RunInv

LEMMA IngestStep ==
  ASSUME RunInv, NEW r \in Runs, Ingest(r)
  PROVE  RunInv'
<1> DEFINE Defined == [steps : Defs \cup {<< >>} \cup AutoSteps, enabled : BOOLEAN]
<1>1. PICK t \in TaskIds, steps \in AutoSteps :
        /\ IsFresh(t)
        /\ made' = [made EXCEPT ![t] = MadeFor(r, "coder", 0)]
        /\ runs' = [runs EXCEPT ![r] = NewRun("running", r, t)]
        /\ flows' = [flows EXCEPT ![r] = [steps |-> steps, enabled |-> TRUE]]
        /\ drafts' = IF steps[1].fits THEN drafts \cup {t} ELSE drafts
  BY Zenon DEF Ingest
<1>2. UNCHANGED <<queueVars, advancerVars, boundVars>> /\ runs[r].status = "none"
  BY DEF Ingest, IsNextRun
<1>3. r \in Flows /\ "coder" \in Agents
  BY DEF Flows, Agents
<1>4. /\ runs' \in [Runs -> Run] /\ made' \in [TaskIds -> Made]
      /\ \A u \in TaskIds : made[u].run # 0 => made'[u].run # 0
      /\ made'[t].run # 0
      /\ RunsFit' /\ TodoFits' /\ HoldFits'
  BY <1>1, <1>2, <1>3, LaunchStep
<1>5. t \notin used
  BY <1>1, UnusedMade
<1>6. flows' \in [Flows -> Defined]
  <2>1. [steps |-> steps, enabled |-> TRUE] \in Defined
    BY Zenon
  <2>2. flows \in [Flows -> Defined]
    BY DEF RunInv, TypeOK
  <2> HIDE DEF Defined
  <2> QED
    BY <1>1, <2>1, <2>2
<1>7. drafts' \subseteq drafts \cup {t}
  BY <1>1
<1> HIDE DEF Defined
<1>8. TypeOK'
  BY <1>2, <1>4, <1>5, <1>6, <1>7
     DEF RunInv, TypeOK, queueVars, advancerVars, boundVars, Defined
<1>9. QueueFits'
  BY <1>2, <1>4, <1>7 DEF RunInv, TypeOK, QueueFits, queueVars
<1> QED
  BY <1>4, <1>8, <1>9 DEF RunInv

LEMMA IngestSubmitsStep ==
  ASSUME RunInv, NEW r \in Runs, IngestSubmits(r)
  PROVE  RunInv'
<1> PICK t : t = runs[r].task
  OBVIOUS
<1>1. /\ t \in drafts /\ drafts' = drafts \ {t} /\ Queue!Submit(t)
      /\ UNCHANGED <<flows, runs, made, advancerVars, redone, faults>>
  BY DEF IngestSubmits
<1>2. t \in TaskIds /\ made[t].run # 0
  BY <1>1 DEF RunInv, TypeOK, QueueFits
<1>3. /\ status' \in [TaskIds -> {"absent", "pending", "done", "failed"}]
      /\ UNCHANGED <<text, late, ops, crashes>>
      /\ late' \subseteq {u \in TaskIds : status'[u] \in {"done", "failed"}}
      /\ used' = used \cup {t}
      /\ \A u \in TaskIds \ used' : status'[u] = "absent"
  BY <1>1, <1>2, QueueSubmits
<1>4. TypeOK'
  BY <1>1, <1>2, <1>3 DEF RunInv, TypeOK, advancerVars
<1>5. QueueFits'
  BY <1>1, <1>2, <1>3 DEF RunInv, QueueFits
<1> QED
  BY <1>1, <1>4, <1>5, StaysTheSame DEF RunInv

LEMMA RunWorkflowStep ==
  ASSUME RunInv, NEW r \in Runs, NEW w \in Flows, RunWorkflow(r, w)
  PROVE  RunInv'
<1> PICK agent : agent = flows[w].steps[1].agent
  OBVIOUS
<1>1. PICK t \in TaskIds :
        /\ IsFresh(t)
        /\ made' = [made EXCEPT ![t] = MadeFor(r, agent, 0)]
        /\ Queue!Submit(t)
        /\ runs' = [runs EXCEPT ![r] = NewRun("draft", w, t)]
  BY Zenon DEF RunWorkflow
<1>2. /\ UNCHANGED <<flows, drafts, advancerVars, redone, faults>>
      /\ runs[r].status = "none" /\ flows[w].steps # << >>
  BY DEF RunWorkflow, IsNextRun
<1>3. agent \in Agents
  <2>1. flows[w].steps \in Seq(Steps)
    BY StepLists DEF RunInv
  <2>2. flows[w].steps[1] \in Steps
    BY <1>2, <2>1
  <2> QED
    BY <2>2 DEF Steps
<1>4. /\ runs' \in [Runs -> Run] /\ made' \in [TaskIds -> Made]
      /\ \A u \in TaskIds : made[u].run # 0 => made'[u].run # 0
      /\ made'[t].run # 0
      /\ RunsFit' /\ TodoFits' /\ HoldFits'
  BY <1>1, <1>2, <1>3, LaunchStep
<1>5. /\ status' \in [TaskIds -> {"absent", "pending", "done", "failed"}]
      /\ UNCHANGED <<text, late, ops, crashes>>
      /\ late' \subseteq {u \in TaskIds : status'[u] \in {"done", "failed"}}
      /\ used' = used \cup {t}
      /\ \A u \in TaskIds \ used' : status'[u] = "absent"
  BY <1>1, QueueSubmits
<1>6. t \notin drafts
  BY <1>1, UnusedMade
<1>7. TypeOK'
  BY <1>2, <1>4, <1>5, <1>6 DEF RunInv, TypeOK, advancerVars
<1>8. QueueFits'
  BY <1>2, <1>4, <1>5 DEF RunInv, TypeOK, QueueFits
<1> QED
  BY <1>4, <1>7, <1>8 DEF RunInv

LEMMA InsertRunStep ==
  ASSUME RunInv, NEW r \in Runs, InsertRun(r) \/ InsertRunFails(r)
  PROVE  RunInv'
<1>1. PICK st \in {"running", "lost"} : runs' = [runs EXCEPT ![r].status = st]
  BY DEF InsertRun, InsertRunFails
<1>2. runs[r].status = "draft" /\ UNCHANGED <<flows, taskVars, advancerVars>>
  BY DEF InsertRun, InsertRunFails
<1>3. Bounded'
  <2>1. UNCHANGED ops /\ (UNCHANGED <<redone, crashes, faults>> \/ Fault)
    BY DEF InsertRun, InsertRunFails, boundVars
  <2> QED
    BY <2>1, BoundsKept
<1>4. runs \in [Runs -> Run] /\ RunFits(made, r, runs[r]) /\ runs[r] \in Run
  BY DEF RunInv, TypeOK, RunsFit
<1> PICK run : run = [runs[r] EXCEPT !.status = st]
  OBVIOUS
<1>5. run = [status |-> st, flow |-> runs[r].flow, step |-> runs[r].step,
             task |-> runs[r].task, outputs |-> runs[r].outputs]
  BY <1>4, RunParts
<1>6. run \in Run
  <2>1. /\ runs[r].flow \in Flows /\ runs[r].step \in 0..MaxSteps
        /\ runs[r].task \in TaskIds \cup {0} /\ runs[r].outputs \in Seq(Output)
        /\ st \in {"none", "draft", "running", "done", "failed", "lost"}
    BY <1>4, RunParts
  <2>2. [status |-> st, flow |-> runs[r].flow, step |-> runs[r].step,
         task |-> runs[r].task, outputs |-> runs[r].outputs] \in Run
    BY <2>1, RunRow
  <2> QED
    BY <1>5, <2>2, Zenon
<1>7. RunFits(made, r, run)
  BY <1>2, <1>4, <1>5 DEF RunFits
<1>8. runs' = [runs EXCEPT ![r] = run]
  BY <1>1, <1>4
<1>9. runs' \in [Runs -> Run] /\ RunsFit' /\ TodoFits' /\ HoldFits'
  BY <1>2, <1>6, <1>7, <1>8, RowIsSet DEF taskVars
<1>10. TypeOK' /\ QueueFits'
  BY <1>2, <1>3, <1>9
     DEF RunInv, TypeOK, Bounded, QueueFits, taskVars, queueVars, advancerVars
<1> QED
  BY <1>9, <1>10 DEF RunInv

LEMMA IngestFailsStep ==
  ASSUME RunInv, NEW r \in Runs, IngestFails(r)
  PROVE  RunInv'
<1> DEFINE Defined == [steps : Defs \cup {<< >>} \cup AutoSteps, enabled : BOOLEAN]
<1>1. PICK steps \in AutoSteps :
        flows' = [flows EXCEPT ![r] = [steps |-> steps, enabled |-> TRUE]]
  BY Zenon DEF IngestFails
<1> PICK run : run = NewRun("lost", r, 0)
  OBVIOUS
<1>2. /\ runs[r].status = "none" /\ runs' = [runs EXCEPT ![r] = run]
      /\ UNCHANGED <<taskVars, advancerVars, ops>> /\ Fault
  BY DEF IngestFails, IsNextRun
<1>3. Bounded'
  BY <1>2, BoundsKept
<1>4. flows' \in [Flows -> Defined]
  <2>1. [steps |-> steps, enabled |-> TRUE] \in Defined
    BY Zenon
  <2>2. flows \in [Flows -> Defined]
    BY DEF RunInv, TypeOK
  <2> HIDE DEF Defined
  <2> QED
    BY <1>1, <2>1, <2>2
<1>5. run = [status |-> "lost", flow |-> r, step |-> 0, task |-> 0, outputs |-> << >>]
  BY DEF NewRun
<1>6. run \in Run
  <2>1. << >> \in Seq(Output) /\ 0 \in 0..MaxSteps /\ r \in Flows
        /\ 0 \in TaskIds \cup {0}
        /\ "lost" \in {"none", "draft", "running", "done", "failed", "lost"}
    BY WorkflowAssumption DEF Flows
  <2>2. [status |-> "lost", flow |-> r, step |-> 0, task |-> 0,
         outputs |-> << >>] \in Run
    BY <2>1, RunRow
  <2> QED
    BY <1>5, <2>2
<1>7. RunFits(made, r, run)
  BY <1>5 DEF RunFits
<1>8. runs' \in [Runs -> Run] /\ RunsFit' /\ TodoFits' /\ HoldFits'
  BY <1>2, <1>6, <1>7, RowIsSet DEF taskVars
<1> HIDE DEF Defined
<1>9. TypeOK' /\ QueueFits'
  BY <1>2, <1>3, <1>4, <1>8
     DEF RunInv, TypeOK, Bounded, QueueFits, taskVars, queueVars, advancerVars, Defined
<1> QED
  BY <1>8, <1>9 DEF RunInv

LEMMA IngestSubmitFailsStep ==
  ASSUME RunInv, NEW r \in Runs, IngestSubmitFails(r)
  PROVE  RunInv'
<1>1. /\ drafts' \subseteq drafts /\ Fault
      /\ UNCHANGED <<flows, runs, made, queueVars, advancerVars, ops>>
  BY DEF IngestSubmitFails
<1>2. Bounded'
  BY <1>1, BoundsKept
<1>3. TypeOK' /\ QueueFits'
  BY <1>1, <1>2 DEF RunInv, TypeOK, Bounded, QueueFits, queueVars, advancerVars
<1> QED
  BY <1>1, <1>3, StaysTheSame DEF RunInv

\* The follow-up is submitted, and the updated run is held.
LEMMA SubmitStep ==
  ASSUME RunInv, NEW r \in Runs, Turn(r, "read"), NEW k \in Nat,
         k < Len(StepsOf(r)), Follows(runs[r], Verdict(r), k), Submit(r, k)
  PROVE  RunInv'
<1> PICK agent : agent = StepsOf(r)[k + 1].agent
  OBVIOUS
<1>1. PICK t \in TaskIds :
        /\ IsFresh(t)
        /\ made' = [made EXCEPT ![t] = MadeFor(r, agent, k)]
        /\ Queue!Submit(t)
        /\ hold' = [Logged(r) EXCEPT !.step = k, !.task = t]
  BY Zenon DEF Submit
<1>2. pc' = "store" /\ UNCHANGED <<flows, runs, drafts, todo, redone, faults>>
  BY DEF Submit
<1>3. /\ runs[r] \in Run /\ RunFits(made, r, runs[r])
      /\ runs[r].status = "running" /\ runs[r].task \in TaskIds
      /\ Verdict(r) \in Verdicts
  BY TurnParts
<1>4. agent \in Agents /\ k < MaxSteps /\ k \in 0..MaxSteps
  <2>1. runs[r].flow \in Flows
    BY <1>3, RunParts
  <2>2. StepsOf(r) \in Seq(Steps) /\ Len(StepsOf(r)) <= MaxSteps
    BY <2>1, StepLists DEF RunInv, StepsOf
  <2>3. StepsOf(r)[k + 1] \in Steps
    BY <2>2
  <2> QED
    BY <2>2, <2>3, WorkflowAssumption DEF Steps
<1>5. MadeFor(r, agent, k) \in Made /\ MadeFor(r, agent, k).run = r /\ r # 0
  BY <1>4, WorkflowAssumption DEF Made, MadeFor
<1>6. /\ made' \in [TaskIds -> Made] /\ made'[t].run = r
      /\ \A u \in TaskIds : made[u].run # 0 => made'[u].run # 0
  BY <1>1, <1>5 DEF RunInv, TypeOK
<1>7. /\ \A q \in Runs, run \in Run :
           RunFits(made, q, run) => RunFits(made', q, run)
      /\ t \notin drafts
      /\ \A q \in Runs : /\ runs[q].task # t
                         /\ \A i \in DOMAIN runs[q].outputs :
                              runs[q].outputs[i].task # t
  BY <1>1, UnusedMade
<1>8. hold' = Moved(runs[r], Verdict(r), k, t)
  <2>1. hold' = Held(Logged(r), k, t)
    BY <1>1, Zenon DEF Held
  <2> QED
    BY <1>3, <2>1, LoggedIsMoved
<1>9. hold' \in Run /\ RunFits(made', r, hold')
  <2> PICK new : new = hold'
    OBVIOUS
  <2> PICK m : m = made'
    OBVIOUS
  <2> PICK v : v = Verdict(r)
    OBVIOUS
  <2> PICK run \in Run : run = runs[r]
    BY <1>3
  <2>1. new = Moved(run, v, k, t)
    BY <1>8
  <2>2. [Moved(run, v, k, t) EXCEPT !.status = run.status] = Moved(run, v, k, t)
    BY MovedStatus
  <2>3. new = [Moved(run, v, k, t) EXCEPT !.status = "running"]
    BY <1>3, <2>1, <2>2
  <2>4. RunFits(m, r, run) /\ run.task # 0
    BY <1>3, <1>7, WorkflowAssumption
  <2>5. /\ m[t].run = r /\ t # run.task
        /\ \A i \in DOMAIN run.outputs : run.outputs[i].task # t
    BY <1>6, <1>7
  <2>6. /\ v \in Verdicts /\ t \in TaskIds \cup {0}
        /\ "running" \in {"running", "done", "failed"}
    BY <1>3
  <2>7. new \in Run /\ RunFits(m, r, new)
    BY <1>4, <2>3, <2>4, <2>5, <2>6, LoggedFits
  <2> QED
    BY <2>7
<1>10. /\ status' \in [TaskIds -> {"absent", "pending", "done", "failed"}]
       /\ UNCHANGED <<text, late, ops, crashes>>
       /\ late' \subseteq {u \in TaskIds : status'[u] \in {"done", "failed"}}
       /\ used' = used \cup {t}
       /\ \A u \in TaskIds \ used' : status'[u] = "absent"
  BY <1>1, QueueSubmits
<1>11. TypeOK'
  BY <1>2, <1>5, <1>6, <1>7, <1>9, <1>10 DEF RunInv, TypeOK
<1>12. RunsFit'
  BY <1>2, <1>7 DEF RunInv, TypeOK, RunsFit
<1>13. TodoFits'
  BY <1>2 DEF RunInv, TodoFits
<1>14. HoldFits'
  <2> SUFFICES ASSUME NEW q \in Runs, Turn(q, "store")'
               PROVE  /\ RunFits(made', q, hold')
                      /\ \E v \in Verdicts, j \in 0..MaxSteps, u \in TaskIds :
                           /\ Follows(runs'[q], v, j)
                           /\ hold' = Moved(runs'[q], v, j, u)
    BY DEF HoldFits
  <2>1. q = r
    <3>1. q \in todo /\ r \in todo /\ q <= r /\ r <= q
      BY <1>2 DEF Turn
    <3> QED
      BY <3>1, WorkflowAssumption
  <2> QED
    BY <1>2, <1>3, <1>4, <1>8, <1>9, <2>1
<1>15. QueueFits'
  BY <1>2, <1>6, <1>10 DEF RunInv, TypeOK, QueueFits
<1> QED
  BY <1>11, <1>12, <1>13, <1>14, <1>15 DEF RunInv

\* The advancer's turns.
LEMMA TurnStep ==
  ASSUME RunInv, NEW r \in Runs,
         \/ NotSettled(r) \/ TaskFailed(r) \/ TaskDone(r)
         \/ Blocked(r) \/ Panic(r) \/ BudgetSpent(r)
         \/ Rework(r) \/ ReworkBails(r)
         \/ FlowDeleted(r) \/ Finish(r) \/ NextStep(r) \/ StoreRun(r)
         \/ TurnFails(r)
  PROVE  RunInv'
<1>1. CASE NotSettled(r)
  BY <1>1, TurnOverIdle DEF NotSettled
<1>2. CASE TaskFailed(r)
  <2> PICK run : run = Failed(runs[r])
    OBVIOUS
  <2>1. /\ Turn(r, "scan") /\ TurnOver(r) /\ runs' = [runs EXCEPT ![r] = run]
        /\ UNCHANGED <<flows, taskVars, boundVars>>
    BY <1>2, Zenon DEF TaskFailed, Store
  <2>2. runs[r] \in Run /\ RunFits(made, r, runs[r])
    BY <2>1, TurnParts
  <2>3. run = [status |-> "failed", flow |-> runs[r].flow, step |-> runs[r].step,
               task |-> 0, outputs |-> runs[r].outputs]
    <3>1. run = [runs[r] EXCEPT !.status = "failed", !.task = 0]
      BY Zenon DEF Failed
    <3>2. runs[r] = [status |-> runs[r].status, flow |-> runs[r].flow,
                     step |-> runs[r].step, task |-> runs[r].task,
                     outputs |-> runs[r].outputs]
      BY <2>2, RunParts
    <3> QED
      BY <3>1, <3>2
  <2>4. run \in Run
    <3>1. /\ runs[r].flow \in Flows /\ runs[r].step \in 0..MaxSteps
          /\ 0 \in TaskIds \cup {0} /\ runs[r].outputs \in Seq(Output)
          /\ "failed" \in {"none", "draft", "running", "done", "failed", "lost"}
      BY <2>2, RunParts
    <3>2. [status |-> "failed", flow |-> runs[r].flow, step |-> runs[r].step,
           task |-> 0, outputs |-> runs[r].outputs] \in Run
      BY <3>1, RunRow
    <3> QED
      BY <2>3, <3>2, Zenon
  <2>5. \A i \in DOMAIN runs[r].outputs : runs[r].outputs[i].task # 0
    BY <2>2, RunParts, WorkflowAssumption
  <2>6. RunFits(made, r, run)
    BY <2>2, <2>3, <2>5 DEF RunFits
  <2> QED
    BY <2>1, <2>4, <2>6, TurnOverStep
<1>3. CASE TaskDone(r)
  <2>1. /\ pc' = "read"
        /\ UNCHANGED <<flows, runs, taskVars, todo, hold, boundVars>>
    BY <1>3 DEF TaskDone
  <2>2. TypeOK' /\ QueueFits'
    BY <2>1 DEF RunInv, TypeOK, QueueFits, taskVars, queueVars, boundVars
  <2>3. RunsFit' /\ TodoFits' /\ HoldFits'
    BY <2>1 DEF RunInv, RunsFit, TodoFits, HoldFits, Turn, taskVars
  <2> QED
    BY <2>2, <2>3 DEF RunInv
<1>4. ASSUME Turn(r, "read"), TurnOver(r), Store(r, Failed(Logged(r))),
             UNCHANGED <<flows, taskVars, boundVars>>
      PROVE  RunInv'
  <2>1. runs[r] \in Run
    BY <1>4, TurnParts
  <2>2. runs[r].step \in 0..MaxSteps
    BY <2>1, RunParts
  <2>3. runs' = [runs EXCEPT ![r] =
                   Ended(runs[r], Verdict(r), runs[r].step, "failed")]
    BY <1>4, <2>1, LoggedIsMoved DEF Store
  <2> QED
    BY <1>4, <2>2, <2>3, TurnOverStores
<1>5. CASE Blocked(r)
  BY <1>4, <1>5 DEF Blocked
<1>6. CASE Panic(r)
  <2>1. /\ pc' = "dead" /\ todo' = {} /\ hold' = Nothing
        /\ UNCHANGED <<flows, runs, taskVars, boundVars>>
    BY <1>6 DEF Panic
  <2>2. Bounded'
    BY <2>1, BoundsKept DEF boundVars
  <2> QED
    BY <2>1, <2>2, DropStep
<1>7. CASE BudgetSpent(r)
  BY <1>4, <1>7 DEF BudgetSpent
<1>8. ASSUME NEW k, Turn(r, "read"), SubmitFails(r, k)
      PROVE  RunInv'
  BY <1>8, TurnOverIdle DEF SubmitFails
<1>9. CASE Rework(r)
  <2>1. /\ Turn(r, "read") /\ Verdict(r) = "changes_requested"
        /\ RoundsOf(runs[r]) < MAX_FIXUP_ROUNDS
        /\ StepsOf(r) # << >>
        /\ Submit(r, 0) \/ SubmitFails(r, 0)
    BY <1>9 DEF Rework, BudgetLeft, FixupRoundsUsed, RoundsOf
  <2>2. Follows(runs[r], Verdict(r), 0)
    BY <2>1 DEF Follows
  <2>3. 0 < Len(StepsOf(r))
    <3>1. runs[r].flow \in Flows
      BY <2>1, TurnParts, RunParts
    <3>2. StepsOf(r) \in Seq(Steps)
      BY <3>1, StepLists DEF RunInv, StepsOf
    <3> QED
      BY <2>1, <3>2
  <2> QED
    BY <1>8, <2>1, <2>2, <2>3, SubmitStep
<1>10. CASE ReworkBails(r)
  BY <1>10, TurnOverIdle DEF ReworkBails
<1>11. CASE FlowDeleted(r)
  BY <1>4, <1>11 DEF FlowDeleted, Passed
<1>12. CASE Finish(r)
  <2>1. /\ Turn(r, "read") /\ TurnOver(r)
        /\ runs' = [runs EXCEPT ![r] = Finished(Logged(r), runs[r].step + 1)]
        /\ UNCHANGED <<flows, taskVars, boundVars>>
    BY <1>12, Zenon DEF Finish, Passed, Store, Finished
  <2>2. runs[r] \in Run /\ runs[r].step + 1 \in 0..MaxSteps
    BY <2>1, TurnParts, WorkflowAssumption
  <2>3. runs' = [runs EXCEPT ![r] =
                   Ended(runs[r], Verdict(r), runs[r].step + 1, "done")]
    BY <2>1, <2>2, LoggedIsMoved
  <2> QED
    BY <2>1, <2>2, <2>3, TurnOverStores
<1>13. CASE NextStep(r)
  <2>1. /\ Turn(r, "read") /\ Verdict(r) \in {"none", "approved"}
        /\ runs[r].step + 1 < Len(StepsOf(r))
        /\ Submit(r, runs[r].step + 1) \/ SubmitFails(r, runs[r].step + 1)
    BY <1>13 DEF NextStep, Passed
  <2>2. Follows(runs[r], Verdict(r), runs[r].step + 1)
    BY <2>1 DEF Follows
  <2>3. runs[r].step + 1 \in Nat
    BY <2>1, TurnParts
  <2> QED
    BY <1>8, <2>1, <2>2, <2>3, SubmitStep
<1>14. CASE StoreRun(r)
  <2>1. /\ Turn(r, "store") /\ TurnOver(r) /\ runs' = [runs EXCEPT ![r] = hold]
        /\ UNCHANGED <<flows, taskVars, boundVars>>
    BY <1>14 DEF StoreRun, Store
  <2>2. hold \in Run /\ RunFits(made, r, hold)
    BY <2>1 DEF RunInv, TypeOK, HoldFits
  <2> QED
    BY <2>1, <2>2, TurnOverStep
<1>15. CASE TurnFails(r)
  <2>1. /\ pc' = "scan" /\ todo' \subseteq todo /\ hold' = Nothing
        /\ UNCHANGED <<flows, runs, taskVars, ops>> /\ Fault
    BY <1>15 DEF TurnFails, TurnOver
  <2>2. Bounded'
    BY <2>1, BoundsKept
  <2> QED
    BY <2>1, <2>2, DropStep
<1> QED
  BY <1>1, <1>2, <1>3, <1>5, <1>6, <1>7, <1>9, <1>10, <1>11, <1>12, <1>13, <1>14,
     <1>15

(* The invariant holds initially and is kept by every step. *)
LEMMA RunInvInit == Init => RunInv
<1> SUFFICES ASSUME Init PROVE RunInv
  OBVIOUS
<1>1. Nothing \in Run /\ Nothing.status = "none" /\ Nothing.task = 0
      /\ Nothing.step = 0 /\ Nothing.outputs = << >>
  BY NothingIsRow DEF Nothing, NewRun
<1>2. MadeFor(0, "coder", 0) \in Made
  BY WorkflowAssumption DEF MadeFor, Made, Agents
<1>3. flows \in [Flows -> [steps : Defs \cup {<< >>} \cup AutoSteps,
                           enabled : BOOLEAN]]
  <2> DEFINE Defined == [steps : Defs \cup {<< >>} \cup AutoSteps,
                         enabled : BOOLEAN]
  <2>1. PICK d \in [UserFlows -> Defs] :
          flows = [w \in Flows |-> IF w \in UserFlows
                                   THEN [steps |-> d[w], enabled |-> TRUE]
                                   ELSE NoFlow]
    BY Zenon DEF Init
  <2>2. NoFlow \in Defined
    BY Zenon DEF NoFlow
  <2>3. ASSUME NEW w \in UserFlows
        PROVE  [steps |-> d[w], enabled |-> TRUE] \in Defined
    BY Zenon
  <2> HIDE DEF Defined
  <2>4. flows \in [Flows -> Defined]
    BY <2>1, <2>2, <2>3
  <2> QED
    BY <2>4 DEF Defined
<1>4. /\ status = [t \in TaskIds |-> "absent"] /\ text = [t \in TaskIds |-> {}]
      /\ late = {} /\ used = {}
  BY DEF Init, Queue!Init
<1>5. /\ runs = [r \in Runs |-> Nothing]
      /\ made = [t \in TaskIds |-> MadeFor(0, "coder", 0)] /\ drafts = {}
      /\ pc = "scan" /\ todo = {} /\ hold = Nothing
      /\ ops = 0 /\ redone = 0 /\ crashes = 0 /\ faults = 0
  BY DEF Init
<1>6. TypeOK
  BY <1>1, <1>2, <1>3, <1>4, <1>5, WorkflowAssumption DEF TypeOK
<1>7. \A r \in Runs : RunFits(made, r, Nothing)
  BY <1>1 DEF RunFits
<1>8. RunsFit /\ TodoFits /\ HoldFits /\ QueueFits
  BY <1>4, <1>5, <1>7 DEF RunsFit, TodoFits, HoldFits, QueueFits, Turn
<1> QED
  BY <1>6, <1>8 DEF RunInv

LEMMA RunInvStep == RunInv /\ [Next]_vars => RunInv'
<1> SUFFICES ASSUME RunInv, [Next]_vars PROVE RunInv'
  OBVIOUS
<1>1. ASSUME NEW r \in Runs,
             \/ Ingest(r) \/ IngestSubmits(r) \/ InsertRun(r)
             \/ \E w \in Flows : RunWorkflow(r, w)
             \/ IngestFails(r) \/ IngestSubmitFails(r) \/ InsertRunFails(r)
      PROVE  RunInv'
  BY <1>1, IngestStep, IngestSubmitsStep, InsertRunStep, RunWorkflowStep,
     IngestFailsStep, IngestSubmitFailsStep
<1>2. ASSUME NEW t \in TaskIds,
             Settle(t) \/ ReportLate(t) \/ RetryTask(t) \/ LoseTask(t)
      PROVE  RunInv'
  BY <1>2, ReportStep, ReportLateStep, RetryStep, LoseStep DEF Settle
<1>3. ASSUME NEW w \in Flows,
             CreateWorkflow(w) \/ CreateFails(w) \/ DeleteWorkflow(w)
      PROVE  RunInv'
  BY <1>3, RedefineStep
<1>4. CASE Crash
  BY <1>4, CrashStep
<1>5. CASE ListRuns
  <2>1. /\ todo' = Waiting
        /\ UNCHANGED <<flows, runs, taskVars, pc, hold, boundVars>> /\ pc = "scan"
    BY <1>5 DEF ListRuns
  <2>2. \A r \in Waiting : /\ r \in Runs
                           /\ runs[r].status = "running" /\ runs[r].task # 0
    BY DEF Waiting, Newest
  <2>3. TypeOK' /\ QueueFits'
    BY <2>1, <2>2 DEF RunInv, TypeOK, QueueFits, taskVars, queueVars, boundVars
  <2>4. RunsFit' /\ TodoFits' /\ HoldFits'
    BY <2>1, <2>2 DEF RunInv, RunsFit, TodoFits, HoldFits, Turn, taskVars
  <2> QED
    BY <2>3, <2>4 DEF RunInv
<1>6. ASSUME NEW r \in Runs,
             \/ NotSettled(r) \/ TaskFailed(r) \/ TaskDone(r)
             \/ Blocked(r) \/ Panic(r) \/ BudgetSpent(r)
             \/ Rework(r) \/ ReworkBails(r)
             \/ FlowDeleted(r) \/ Finish(r) \/ NextStep(r) \/ StoreRun(r)
             \/ TurnFails(r)
      PROVE  RunInv'
  BY <1>6, TurnStep
<1>8. CASE Hangs
  <2>1. /\ pc' = "hung" /\ todo' = {} /\ hold' = Nothing
        /\ UNCHANGED <<flows, runs, taskVars, ops>> /\ Fault
    BY <1>8 DEF Hangs
  <2>2. Bounded'
    BY <2>1, BoundsKept
  <2> QED
    BY <2>1, <2>2, DropStep
<1>7. CASE UNCHANGED vars
  <2>1. TypeOK' /\ QueueFits'
    BY <1>7 DEF RunInv, TypeOK, QueueFits,
                vars, taskVars, queueVars, advancerVars, boundVars
  <2> QED
    BY <1>7, <2>1, StaysTheSame DEF RunInv, vars, taskVars
<1> QED
  BY <1>1, <1>2, <1>3, <1>4, <1>5, <1>6, <1>7, <1>8 DEF Next, Advancer

LEMMA RunInvHolds == Spec => []RunInv
BY RunInvInit, RunInvStep, PTL DEF Spec

(* The types. *)
THEOREM RunTypeCorrect == Spec => []TypeOK
<1>1. RunInv => TypeOK
  BY DEF RunInv
<1> QED
  BY <1>1, RunInvHolds, PTL

(* workflow_runner.rs: no finished task is consumed twice by its run, in
   whatever order crashes, retries and late reports come. *)
THEOREM TasksConsumedOnce == Spec => []StepsConsumedOnce
<1>1. RunInv => StepsConsumedOnce
  BY DEF RunInv, RunsFit, RunFits, StepsConsumedOnce
<1> QED
  BY <1>1, RunInvHolds, PTL

-----------------------------------------------------------------------------
(* What a step may make of a row.                                          *)

Refused(r) == \/ Verdict(r) = "blocked"
              \/ Verdict(r) = "changes_requested" /\ ~BudgetLeft(r)
              \/ Verdict(r) \in {"none", "approved"} /\ StepsOf(r) = << >>

RowStep(r, row) ==
  \/ /\ runs[r].status = "none"
     /\ \E st \in {"draft", "running"}, w \in Flows, t \in TaskIds :
          row = NewRun(st, w, t)
  \/ /\ runs[r].status = "none"
     /\ \E w \in Flows : row = NewRun("lost", w, 0)
  \/ runs[r].status = "draft" /\ row = [runs[r] EXCEPT !.status = "running"]
  \/ runs[r].status = "draft" /\ row = [runs[r] EXCEPT !.status = "lost"]
  \/ Turn(r, "scan") /\ TaskStatus(r) = "failed" /\ row = Failed(runs[r])
  \/ /\ Turn(r, "read") /\ Refused(r)
     /\ row = Ended(runs[r], Verdict(r), runs[r].step, "failed")
  \/ /\ Turn(r, "read") /\ Verdict(r) \in {"none", "approved"}
     /\ row = Ended(runs[r], Verdict(r), runs[r].step + 1, "done")
  \/ Turn(r, "store") /\ row = hold

RowBecomes(r, row) == RowStep(r, row) /\ runs' = [runs EXCEPT ![r] = row]

LEMMA TurnRows ==
  ASSUME RunInv, NEW r \in Runs,
         \/ NotSettled(r) \/ TaskFailed(r) \/ TaskDone(r)
         \/ Blocked(r) \/ Panic(r) \/ BudgetSpent(r)
         \/ Rework(r) \/ ReworkBails(r)
         \/ FlowDeleted(r) \/ Finish(r) \/ NextStep(r) \/ StoreRun(r)
  PROVE  UNCHANGED runs \/ \E row : RowBecomes(r, row)
<1>1. CASE TaskFailed(r)
  BY <1>1, Zenon DEF TaskFailed, Store, RowBecomes, RowStep
<1>2. ASSUME Turn(r, "read"), Refused(r), Store(r, Failed(Logged(r)))
      PROVE  \E row : RowBecomes(r, row)
  <2>1. Failed(Logged(r)) = Ended(runs[r], Verdict(r), runs[r].step, "failed")
    BY <1>2, TurnParts, LoggedIsMoved
  <2> QED
    BY <1>2, <2>1, Zenon DEF Store, RowBecomes, RowStep
<1>3. CASE Blocked(r)
  BY <1>2, <1>3 DEF Blocked, Refused
<1>4. CASE BudgetSpent(r)
  BY <1>2, <1>4 DEF BudgetSpent, Refused
<1>5. CASE FlowDeleted(r)
  BY <1>2, <1>5 DEF FlowDeleted, Passed, Refused
<1>6. CASE Finish(r)
  <2>1. /\ Turn(r, "read") /\ Verdict(r) \in {"none", "approved"}
        /\ runs' = [runs EXCEPT ![r] = Finished(Logged(r), runs[r].step + 1)]
    BY <1>6, Zenon DEF Finish, Passed, Store, Finished
  <2>2. Finished(Logged(r), runs[r].step + 1)
          = Ended(runs[r], Verdict(r), runs[r].step + 1, "done")
    BY <2>1, TurnParts, LoggedIsMoved
  <2> QED
    BY <2>1, <2>2, Zenon DEF RowBecomes, RowStep
<1>7. CASE StoreRun(r)
  BY <1>7, Zenon DEF StoreRun, Store, RowBecomes, RowStep
<1>8. CASE \/ NotSettled(r) \/ TaskDone(r) \/ Panic(r) \/ Rework(r)
           \/ ReworkBails(r) \/ NextStep(r)
  BY <1>8 DEF NotSettled, TaskDone, Panic, Rework, ReworkBails, NextStep,
              Submit, SubmitFails
<1> QED
  BY <1>1, <1>3, <1>4, <1>5, <1>6, <1>7, <1>8

LEMMA RowSteps ==
  ASSUME RunInv, [Next]_vars
  PROVE  UNCHANGED runs \/ Crash \/ \E r \in Runs : \E row : RowBecomes(r, row)
<1>1. ASSUME NEW r \in Runs, Ingest(r)
      PROVE  \E row : RowBecomes(r, row)
  <2>1. PICK t \in TaskIds : runs' = [runs EXCEPT ![r] = NewRun("running", r, t)]
    BY <1>1, Zenon DEF Ingest
  <2>2. runs[r].status = "none" /\ r \in Flows
    BY <1>1 DEF Ingest, IsNextRun, Flows
  <2>3. RowStep(r, NewRun("running", r, t))
    BY <2>2, Zenon DEF RowStep
  <2> QED
    BY <2>1, <2>3, Zenon DEF RowBecomes
<1>2. ASSUME NEW r \in Runs, NEW w \in Flows, RunWorkflow(r, w)
      PROVE  \E row : RowBecomes(r, row)
  <2>1. PICK t \in TaskIds : runs' = [runs EXCEPT ![r] = NewRun("draft", w, t)]
    BY <1>2, Zenon DEF RunWorkflow
  <2>2. runs[r].status = "none"
    BY <1>2 DEF RunWorkflow, IsNextRun
  <2>3. RowStep(r, NewRun("draft", w, t))
    BY <2>2, Zenon DEF RowStep
  <2> QED
    BY <2>1, <2>3, Zenon DEF RowBecomes
<1>3. ASSUME NEW r \in Runs, InsertRun(r) \/ InsertRunFails(r)
      PROVE  \E row : RowBecomes(r, row)
  <2>1. PICK st \in {"running", "lost"} : runs' = [runs EXCEPT ![r].status = st]
    BY <1>3 DEF InsertRun, InsertRunFails
  <2>2. runs[r].status = "draft"
    BY <1>3 DEF InsertRun, InsertRunFails
  <2>3. runs' = [runs EXCEPT ![r] = [runs[r] EXCEPT !.status = st]]
    BY <2>1 DEF RunInv, TypeOK
  <2> QED
    BY <2>2, <2>3, Zenon DEF RowBecomes, RowStep
<1>10. ASSUME NEW r \in Runs, IngestFails(r)
       PROVE  \E row : RowBecomes(r, row)
  <2>1. /\ runs' = [runs EXCEPT ![r] = NewRun("lost", r, 0)]
        /\ runs[r].status = "none" /\ r \in Flows
    BY <1>10, Zenon DEF IngestFails, IsNextRun, Flows
  <2>2. RowStep(r, NewRun("lost", r, 0))
    BY <2>1, Zenon DEF RowStep
  <2> QED
    BY <2>1, <2>2, Zenon DEF RowBecomes
<1>4. ASSUME NEW r \in Runs,
             IngestSubmits(r) \/ IngestSubmitFails(r) \/ TurnFails(r)
      PROVE  UNCHANGED runs
  BY <1>4 DEF IngestSubmits, IngestSubmitFails, TurnFails
<1>5. ASSUME NEW t \in TaskIds,
             Settle(t) \/ ReportLate(t) \/ RetryTask(t) \/ LoseTask(t)
      PROVE  UNCHANGED runs
  BY <1>5 DEF Settle, ReportLate, RetryTask, LoseTask, Report
<1>6. ASSUME NEW w \in Flows,
             CreateWorkflow(w) \/ CreateFails(w) \/ DeleteWorkflow(w)
      PROVE  UNCHANGED runs
  BY <1>6 DEF CreateWorkflow, CreateFails, DeleteWorkflow
<1>7. CASE ListRuns \/ Hangs
  BY <1>7 DEF ListRuns, Hangs
<1>8. ASSUME NEW r \in Runs,
             \/ NotSettled(r) \/ TaskFailed(r) \/ TaskDone(r)
             \/ Blocked(r) \/ Panic(r) \/ BudgetSpent(r)
             \/ Rework(r) \/ ReworkBails(r)
             \/ FlowDeleted(r) \/ Finish(r) \/ NextStep(r) \/ StoreRun(r)
      PROVE  UNCHANGED runs \/ \E row : RowBecomes(r, row)
  BY <1>8, TurnRows
<1>9. CASE UNCHANGED vars
  BY <1>9 DEF vars
<1> QED
  BY <1>1, <1>2, <1>3, <1>4, <1>5, <1>6, <1>7, <1>8, <1>9, <1>10 DEF Next, Advancer

\* What Ended and Moved leave in a row.
LEMMA EndedOutputs ==
  ASSUME NEW run \in Run, run.task \in TaskIds, NEW v \in Verdicts,
         NEW k \in 0..MaxSteps, NEW st \in {"done", "failed"}
  PROVE  /\ Ended(run, v, k, st).status = st
         /\ Ended(run, v, k, st).step = k
         /\ Ended(run, v, k, st).task = 0
         /\ Ended(run, v, k, st).outputs \in Seq(Output)
         /\ Len(Ended(run, v, k, st).outputs) = Len(run.outputs) + 1
         /\ Len(run.outputs) \in Nat
         /\ \A i \in 1..Len(run.outputs) :
              Ended(run, v, k, st).outputs[i] = run.outputs[i]
         /\ Ended(run, v, k, st).outputs[Len(Ended(run, v, k, st).outputs)]
              = [task |-> run.task, verdict |-> v]
<1> PICK new : new = Ended(run, v, k, st)
  OBVIOUS
<1> DEFINE out == [task |-> run.task, verdict |-> v]
<1>1. out \in Output
  BY DEF Output
<1> HIDE DEF out
<1> PICK outs : outs = Append(run.outputs, out)
  OBVIOUS
<1>2. new = [[run EXCEPT !.outputs = outs, !.step = k, !.task = 0]
               EXCEPT !.status = st]
  BY DEF Ended, Moved, out
<1>3. run = [status |-> run.status, flow |-> run.flow, step |-> run.step,
             task |-> run.task, outputs |-> run.outputs]
  BY RunParts
<1>4. new.outputs = outs /\ new.status = st /\ new.step = k /\ new.task = 0
  BY <1>2, <1>3
<1>5. run.outputs \in Seq(Output) /\ Len(run.outputs) \in Nat
  BY RunParts
<1>6. /\ outs \in Seq(Output) /\ Len(outs) = Len(run.outputs) + 1
      /\ \A i \in 1..Len(run.outputs) : outs[i] = run.outputs[i]
      /\ outs[Len(run.outputs) + 1] = out
  BY <1>1, <1>5
<1> QED
  BY <1>4, <1>5, <1>6 DEF out

LEMMA EndedStatus ==
  ASSUME NEW run \in Run, NEW v, NEW k, NEW st
  PROVE  Ended(run, v, k, st).status = st
<1> DEFINE outs == Append(run.outputs, [task |-> run.task, verdict |-> v])
<1>1. Ended(run, v, k, st)
        = [[run EXCEPT !.outputs = outs, !.step = k, !.task = 0]
             EXCEPT !.status = st]
  BY DEF Ended, Moved
<1> HIDE DEF outs
<1>2. run = [status |-> run.status, flow |-> run.flow, step |-> run.step,
             task |-> run.task, outputs |-> run.outputs]
  BY RunParts
<1> QED
  BY <1>1, <1>2

LEMMA MovedOutputs ==
  ASSUME NEW run \in Run, run.task \in TaskIds, NEW v \in Verdicts,
         NEW k \in 0..MaxSteps, NEW t \in TaskIds
  PROVE  /\ Moved(run, v, k, t).status = run.status
         /\ Moved(run, v, k, t).step = k
         /\ Moved(run, v, k, t).task = t
         /\ Moved(run, v, k, t).outputs \in Seq(Output)
         /\ Len(Moved(run, v, k, t).outputs) = Len(run.outputs) + 1
         /\ Len(run.outputs) \in Nat
         /\ \A i \in 1..Len(run.outputs) :
              Moved(run, v, k, t).outputs[i] = run.outputs[i]
         /\ Moved(run, v, k, t).outputs[Len(Moved(run, v, k, t).outputs)]
              = [task |-> run.task, verdict |-> v]
<1> PICK new : new = Moved(run, v, k, t)
  OBVIOUS
<1> DEFINE out == [task |-> run.task, verdict |-> v]
<1>1. out \in Output
  BY DEF Output
<1> HIDE DEF out
<1> PICK outs : outs = Append(run.outputs, out)
  OBVIOUS
<1>2. new = [run EXCEPT !.outputs = outs, !.step = k, !.task = t]
  BY DEF Moved, out
<1>3. run = [status |-> run.status, flow |-> run.flow, step |-> run.step,
             task |-> run.task, outputs |-> run.outputs]
  BY RunParts
<1>4. new.outputs = outs /\ new.status = run.status /\ new.step = k /\ new.task = t
  BY <1>2, <1>3
<1>5. run.outputs \in Seq(Output) /\ Len(run.outputs) \in Nat
  BY RunParts
<1>6. /\ outs \in Seq(Output) /\ Len(outs) = Len(run.outputs) + 1
      /\ \A i \in 1..Len(run.outputs) : outs[i] = run.outputs[i]
      /\ outs[Len(run.outputs) + 1] = out
  BY <1>1, <1>5
<1> QED
  BY <1>4, <1>5, <1>6 DEF out

-----------------------------------------------------------------------------
(* Why runs fail.                                                          *)

\* The cause, for a row that became failed in a step.
FailedForCause(r) ==
  runs[r].status = "running" /\ runs'[r].status = "failed" =>
    LET outputs == runs'[r].outputs IN
    \/ TaskStatus(r) = "failed"
    \/ outputs # runs[r].outputs /\ StepsOf(r) = << >>
    \/ /\ outputs # << >>
       /\ outputs[Len(outputs)].verdict \in {"blocked", "changes_requested"}

LEMMA FailureCauses ==
  ASSUME RunInv, [Next]_vars, NEW r \in Runs
  PROVE  FailedForCause(r)
<1> SUFFICES ASSUME runs[r].status = "running", runs'[r].status = "failed"
             PROVE  FailedForCause(r)
  BY DEF FailedForCause
<1>1. runs \in [Runs -> Run]
  BY DEF RunInv, TypeOK
<1>2. ~Crash
  <2>1. Crash => runs'[r] = runs[r]
    BY DEF Crash
  <2> QED
    BY <2>1
<1>10. PICK q \in Runs : \E row : RowBecomes(q, row)
  BY <1>2, RowSteps
<1>3. PICK row : RowBecomes(q, row)
  BY <1>10
<1>4. q = r /\ runs'[r] = row
  BY <1>1, <1>3 DEF RowBecomes
<1>5. RowStep(r, row) /\ row.status = "failed"
  BY <1>3, <1>4 DEF RowBecomes
<1>6. CASE TaskStatus(r) = "failed"
  BY <1>6 DEF FailedForCause
<1>7. CASE /\ Turn(r, "read") /\ Refused(r)
           /\ row = Ended(runs[r], Verdict(r), runs[r].step, "failed")
  <2>1. /\ runs[r] \in Run /\ runs[r].task \in TaskIds /\ Verdict(r) \in Verdicts
    BY <1>7, TurnParts
  <2>5. runs[r].step \in 0..MaxSteps
    BY <2>1, RunParts
  <2>2. /\ row.outputs \in Seq(Output)
        /\ Len(row.outputs) = Len(runs[r].outputs) + 1
        /\ Len(runs[r].outputs) \in Nat
        /\ row.outputs[Len(row.outputs)]
             = [task |-> runs[r].task, verdict |-> Verdict(r)]
    BY <1>7, <2>1, <2>5, EndedOutputs
  <2>3. row.outputs # runs[r].outputs /\ row.outputs # << >>
    BY <2>2
  <2>4. row.outputs[Len(row.outputs)].verdict = Verdict(r)
    BY <2>2
  <2> QED
    BY <1>4, <1>7, <2>3, <2>4 DEF FailedForCause, Refused
<1>8. CASE /\ Turn(r, "read") /\ Verdict(r) \in {"none", "approved"}
           /\ row = Ended(runs[r], Verdict(r), runs[r].step + 1, "done")
  <2>1. /\ runs[r] \in Run /\ runs[r].task \in TaskIds /\ Verdict(r) \in Verdicts
        /\ runs[r].step + 1 \in 0..MaxSteps
    BY <1>8, TurnParts, WorkflowAssumption
  <2>2. row.status = "done"
    BY <1>8, <2>1, EndedStatus
  <2> QED
    BY <1>5, <2>2
<1>9. CASE Turn(r, "store") /\ row = hold
  <2>1. PICK v \in Verdicts, k \in 0..MaxSteps, t \in TaskIds :
               hold = Moved(runs[r], v, k, t)
    BY <1>9 DEF RunInv, HoldFits
  <2>2. row.status = runs[r].status
    BY <1>1, <1>9, <2>1, MovedStatus
  <2> QED
    BY <1>5, <2>2
<1> QED
  BY <1>5, <1>6, <1>7, <1>8, <1>9 DEF RowStep

(* A run fails only because its task failed, its reviewer refused, or its
   workflow was deleted when a step of it was done: every write of "failed"
   in advance, and never the stored follow-up. *)
THEOREM FailuresHaveCause == Spec => RunsFailForCause
<1>1. RunInv /\ [Next]_vars =>
        \A r \in Runs : FailedForCause(r)
  BY FailureCauses
<1>2. (\A r \in Runs : FailedForCause(r)) =>
        \A r \in Runs :
          runs[r].status = "running" /\ runs'[r].status = "failed" =>
            LET outputs == runs'[r].outputs IN
            \/ TaskStatus(r) = "failed"
            \/ outputs # runs[r].outputs /\ StepsOf(r) = << >>
            \/ /\ outputs # << >>
               /\ outputs[Len(outputs)].verdict
                    \in {"blocked", "changes_requested"}
  BY DEF FailedForCause
<1> QED
  BY <1>1, <1>2, RunInvHolds, PTL DEF Spec, RunsFailForCause

-----------------------------------------------------------------------------
(* The run table implements the review loop.                               *)

\* How the review loop sees a row, and the table.
LoopStatus(run) == IF run.status \in {"draft", "lost"} THEN "none" ELSE run.status
LoopLog(run) == [i \in DOMAIN run.outputs |-> run.outputs[i].verdict]

SeenStatus == [r \in Runs |-> LoopStatus(runs[r])]
SeenStep == [r \in Runs |-> runs[r].step]
SeenLog == [r \in Runs |-> LoopLog(runs[r])]

LEMMA UpdatedAt ==
  ASSUME NEW f, NEW g, NEW r \in Runs, NEW x,
         f = [q \in Runs |-> f[q]], g = [q \in Runs |-> g[q]], g[r] = x,
         \A q \in Runs : q # r => g[q] = f[q]
  PROVE  g = [f EXCEPT ![r] = x]
OBVIOUS

LEMMA SeenRow ==
  ASSUME RunInv, NEW r \in Runs, NEW row, runs' = [runs EXCEPT ![r] = row]
  PROVE  /\ SeenStatus' = [SeenStatus EXCEPT ![r] = LoopStatus(row)]
         /\ SeenStep' = [SeenStep EXCEPT ![r] = row.step]
         /\ SeenLog' = [SeenLog EXCEPT ![r] = LoopLog(row)]
         /\ SeenStatus[r] = LoopStatus(runs[r]) /\ SeenStep[r] = runs[r].step
         /\ SeenLog[r] = LoopLog(runs[r])
         /\ SeenStatus = [SeenStatus EXCEPT ![r] = LoopStatus(runs[r])]
         /\ SeenStep = [SeenStep EXCEPT ![r] = runs[r].step]
         /\ SeenLog = [SeenLog EXCEPT ![r] = LoopLog(runs[r])]
<1>1. runs \in [Runs -> Run]
  BY DEF RunInv, TypeOK
<1>2. runs'[r] = row /\ \A q \in Runs : q # r => runs'[q] = runs[q]
  BY <1>1
<1>3. SeenStatus' = [SeenStatus EXCEPT ![r] = LoopStatus(row)]
  <2>1. /\ SeenStatus = [q \in Runs |-> SeenStatus[q]]
        /\ SeenStatus' = [q \in Runs |-> SeenStatus'[q]]
    BY DEF SeenStatus
  <2>2. \A q \in Runs : /\ SeenStatus'[q] = LoopStatus(runs'[q])
                        /\ SeenStatus[q] = LoopStatus(runs[q])
    BY DEF SeenStatus
  <2> QED
    BY <1>2, <2>1, <2>2, UpdatedAt
<1>4. SeenStep' = [SeenStep EXCEPT ![r] = row.step]
  <2>1. /\ SeenStep = [q \in Runs |-> SeenStep[q]]
        /\ SeenStep' = [q \in Runs |-> SeenStep'[q]]
    BY DEF SeenStep
  <2>2. \A q \in Runs : SeenStep'[q] = runs'[q].step /\ SeenStep[q] = runs[q].step
    BY DEF SeenStep
  <2> QED
    BY <1>2, <2>1, <2>2, UpdatedAt
<1>5. SeenLog' = [SeenLog EXCEPT ![r] = LoopLog(row)]
  <2>1. /\ SeenLog = [q \in Runs |-> SeenLog[q]]
        /\ SeenLog' = [q \in Runs |-> SeenLog'[q]]
    BY DEF SeenLog
  <2>2. \A q \in Runs : /\ SeenLog'[q] = LoopLog(runs'[q])
                        /\ SeenLog[q] = LoopLog(runs[q])
    BY DEF SeenLog
  <2> QED
    BY <1>2, <2>1, <2>2, UpdatedAt
<1>6. /\ SeenStatus[r] = LoopStatus(runs[r])
      /\ SeenStatus = [SeenStatus EXCEPT ![r] = LoopStatus(runs[r])]
  BY DEF SeenStatus
<1>7. /\ SeenStep[r] = runs[r].step
      /\ SeenStep = [SeenStep EXCEPT ![r] = runs[r].step]
  BY DEF SeenStep
<1>8. /\ SeenLog[r] = LoopLog(runs[r])
      /\ SeenLog = [SeenLog EXCEPT ![r] = LoopLog(runs[r])]
  BY DEF SeenLog
<1> QED
  BY <1>3, <1>4, <1>5, <1>6, <1>7, <1>8

LEMMA LogGrows ==
  ASSUME NEW run \in Run, NEW new, NEW v \in Verdicts,
         new.outputs \in Seq(Output),
         Len(new.outputs) = Len(run.outputs) + 1,
         \A i \in 1..Len(run.outputs) : new.outputs[i] = run.outputs[i],
         new.outputs[Len(new.outputs)].verdict = v
  PROVE  LoopLog(new) = Append(LoopLog(run), v)
<1>1. /\ run.outputs \in Seq(Output) /\ Len(run.outputs) \in Nat
      /\ \A i \in DOMAIN run.outputs : run.outputs[i].verdict \in Verdicts
      /\ DOMAIN run.outputs = 1..Len(run.outputs)
  BY RunParts
<1>2. LoopLog(run) = [i \in 1..Len(run.outputs) |-> run.outputs[i].verdict]
  BY <1>1 DEF LoopLog
<1>3. LoopLog(run) \in Seq(Verdicts) /\ Len(LoopLog(run)) = Len(run.outputs)
  BY <1>1, <1>2
<1>4. LoopLog(new) = [i \in 1..(Len(run.outputs) + 1) |-> new.outputs[i].verdict]
  BY DEF LoopLog
<1>5. \A i \in 1..(Len(run.outputs) + 1) : new.outputs[i].verdict \in Verdicts
  <2>1. \A i \in 1..Len(run.outputs) : new.outputs[i].verdict \in Verdicts
    BY <1>1
  <2> QED
    BY <1>1, <2>1
<1>6. /\ LoopLog(new) \in Seq(Verdicts)
      /\ Len(LoopLog(new)) = Len(run.outputs) + 1
      /\ \A i \in 1..(Len(run.outputs) + 1) :
           LoopLog(new)[i] = new.outputs[i].verdict
  BY <1>1, <1>4, <1>5
<1>7. /\ Append(LoopLog(run), v) \in Seq(Verdicts)
      /\ Len(Append(LoopLog(run), v)) = Len(run.outputs) + 1
      /\ Append(LoopLog(run), v)[Len(run.outputs) + 1] = v
      /\ \A i \in 1..Len(run.outputs) :
           Append(LoopLog(run), v)[i] = run.outputs[i].verdict
  BY <1>2, <1>3
<1>8. \A i \in 1..(Len(run.outputs) + 1) :
        LoopLog(new)[i] = Append(LoopLog(run), v)[i]
  BY <1>1, <1>6, <1>7
<1> QED
  BY <1>6, <1>7, <1>8, SeqEqual

LEMMA SameCardinality ==
  ASSUME NEW S
  PROVE  Loop!Cardinality(S) = Cardinality(S)
BY DEF Cardinality, Loop!Cardinality

LEMMA SeenRounds ==
  ASSUME NEW r \in Runs
  PROVE  Loop!Rounds(r) = RoundsOf(runs[r])
<1>1. SeenLog[r] = LoopLog(runs[r])
  BY DEF SeenLog
<1>2. {i \in DOMAIN SeenLog[r] : SeenLog[r][i] = "changes_requested"}
        = {i \in DOMAIN runs[r].outputs :
             runs[r].outputs[i].verdict = "changes_requested"}
  BY <1>1 DEF LoopLog
<1>3. Loop!Rounds(r) = Cardinality({i \in DOMAIN SeenLog[r] :
                                      SeenLog[r][i] = "changes_requested"})
  <2>1. SeenLog = [q \in Runs |-> [j \in DOMAIN runs[q].outputs |->
                                    runs[q].outputs[j].verdict]]
    BY DEF SeenLog, LoopLog
  <2>2. Loop!Rounds(r)
          = Cardinality({i \in DOMAIN
                           [q \in Runs |-> [j \in DOMAIN runs[q].outputs |->
                                              runs[q].outputs[j].verdict]][r] :
                         [q \in Runs |-> [j \in DOMAIN runs[q].outputs |->
                                            runs[q].outputs[j].verdict]][r][i]
                           = "changes_requested"})
    BY SameCardinality DEF Loop!Rounds
  <2> QED
    BY <2>1, <2>2, Zenon
<1> QED
  BY <1>2, <1>3 DEF RoundsOf

\* The actions of the review loop, in terms of what it sees of the table.
LEMMA SeesStart ==
  ASSUME NEW r \in Runs, SeenStatus[r] = "none",
         SeenStatus' = [SeenStatus EXCEPT ![r] = "running"],
         SeenStep' = [SeenStep EXCEPT ![r] = 0], SeenLog' = SeenLog
  PROVE  Loop!Start(r)
BY DEF Loop!Start, Loop!Become, SeenStatus, SeenStep, SeenLog, LoopStatus, LoopLog

LEMMA SeesAbort ==
  ASSUME NEW r \in Runs, SeenStatus[r] = "running",
         SeenStatus' = [SeenStatus EXCEPT ![r] = "failed"],
         SeenStep' = [SeenStep EXCEPT ![r] = SeenStep[r]], SeenLog' = SeenLog
  PROVE  Loop!Abort(r)
BY DEF Loop!Abort, Loop!Become, SeenStatus, SeenStep, SeenLog, LoopStatus, LoopLog

LEMMA SeesBlock ==
  ASSUME NEW r \in Runs, SeenStatus[r] = "running",
         SeenStatus' = [SeenStatus EXCEPT ![r] = "failed"],
         SeenStep' = [SeenStep EXCEPT ![r] = SeenStep[r]],
         SeenLog' = [SeenLog EXCEPT ![r] = Append(SeenLog[r], "blocked")]
  PROVE  Loop!Block(r)
BY DEF Loop!Block, Loop!Become, Loop!Logs, SeenStatus, SeenStep, SeenLog,
       LoopStatus, LoopLog

LEMMA SeesRework ==
  ASSUME NEW r \in Runs, SeenStatus[r] = "running",
         \/ /\ RoundsOf(runs[r]) < MAX_FIXUP_ROUNDS
            /\ SeenStatus' = [SeenStatus EXCEPT ![r] = "running"]
            /\ SeenStep' = [SeenStep EXCEPT ![r] = 0]
         \/ /\ ~(RoundsOf(runs[r]) < MAX_FIXUP_ROUNDS)
            /\ SeenStatus' = [SeenStatus EXCEPT ![r] = "failed"]
            /\ SeenStep' = [SeenStep EXCEPT ![r] = SeenStep[r]],
         SeenLog' = [SeenLog EXCEPT ![r] = Append(SeenLog[r], "changes_requested")]
  PROVE  Loop!Rework(r)
<1>1. Loop!Rounds(r) = RoundsOf(runs[r])
  BY SeenRounds
<1>2. Loop!Logs(r, "changes_requested")
  BY DEF Loop!Logs, SeenLog, LoopLog
<1>3. SeenStatus[r] = "running" => [q \in Runs |->
          IF runs[q].status \in {"draft", "lost"} THEN "none"
                                                  ELSE runs[q].status][r] = "running"
  BY DEF SeenStatus, LoopStatus
<1>4. CASE RoundsOf(runs[r]) < MAX_FIXUP_ROUNDS
  <2>1. Loop!Become(r, "running", 0)
    BY <1>4 DEF Loop!Become, SeenStatus, SeenStep, LoopStatus
  <2> QED
    BY <1>1, <1>2, <1>3, <1>4, <2>1 DEF Loop!Rework
<1>5. CASE ~(RoundsOf(runs[r]) < MAX_FIXUP_ROUNDS)
  <2>1. /\ SeenStatus' = [SeenStatus EXCEPT ![r] = "failed"]
        /\ SeenStep' = [SeenStep EXCEPT ![r] = SeenStep[r]]
    BY <1>5
  <2> QED
    BY <1>1, <1>2, <1>3, <1>5, <2>1
       DEF Loop!Rework, Loop!Become, SeenStatus, SeenStep, LoopStatus
<1> QED
  BY <1>4, <1>5

LEMMA SeesAccept ==
  ASSUME NEW r \in Runs, SeenStatus[r] = "running",
         NEW v \in {"none", "approved"},
         \/ \E st \in {"running", "done"} :
              /\ SeenStatus' = [SeenStatus EXCEPT ![r] = st]
              /\ SeenStep' = [SeenStep EXCEPT ![r] = SeenStep[r] + 1]
         \/ /\ SeenStatus' = [SeenStatus EXCEPT ![r] = "failed"]
            /\ SeenStep' = [SeenStep EXCEPT ![r] = SeenStep[r]],
         SeenLog' = [SeenLog EXCEPT ![r] = Append(SeenLog[r], v)]
  PROVE  Loop!Accept(r)
BY DEF Loop!Accept, Loop!Become, Loop!Logs, SeenStatus, SeenStep, SeenLog,
       LoopStatus, LoopLog

LEMMA LoopInit == Init => Loop!Init
<1> SUFFICES ASSUME Init PROVE Loop!Init
  OBVIOUS
<1>1. runs = [r \in Runs |-> Nothing]
  BY DEF Init
<1>2. /\ Nothing.status = "none" /\ Nothing.step = 0 /\ Nothing.outputs = << >>
  BY DEF Nothing, NewRun
<1>3. [i \in DOMAIN Nothing.outputs |-> Nothing.outputs[i].verdict] = << >>
  BY <1>2
<1> QED
  BY <1>1, <1>2, <1>3 DEF Loop!Init

LEMMA LoopStutters ==
  ASSUME SeenStatus' = SeenStatus, SeenStep' = SeenStep, SeenLog' = SeenLog
  PROVE  UNCHANGED Loop!loopVars
BY DEF Loop!loopVars, SeenStatus, SeenStep, SeenLog, LoopStatus, LoopLog

LEMMA LoopStep ==
  ASSUME RunInv, [Next]_vars
  PROVE  [Loop!Next]_Loop!loopVars
<1>1. CASE UNCHANGED runs
  <2>1. SeenStatus' = SeenStatus /\ SeenStep' = SeenStep /\ SeenLog' = SeenLog
    BY <1>1 DEF SeenStatus, SeenStep, SeenLog
  <2> QED
    BY <2>1, LoopStutters
<1>2. CASE Crash
  <2>1. \A r \in Runs : runs[r] \in Run
    BY DEF RunInv, TypeOK
  <2>2. ASSUME NEW r \in Runs
        PROVE  /\ LoopStatus(runs'[r]) = LoopStatus(runs[r])
               /\ runs'[r].step = runs[r].step
               /\ LoopLog(runs'[r]) = LoopLog(runs[r])
    <3>1. CASE runs[r].status # "draft"
      BY <1>2, <3>1 DEF Crash
    <3>2. CASE runs[r].status = "draft"
      <4> PICK row : row = [runs[r] EXCEPT !.status = "lost"]
        OBVIOUS
      <4>1. runs'[r] = row
        BY <1>2, <3>2 DEF Crash
      <4>2. row = [status |-> "lost", flow |-> runs[r].flow, step |-> runs[r].step,
                   task |-> runs[r].task, outputs |-> runs[r].outputs]
        BY <2>1, RunParts
      <4> QED
        BY <3>2, <4>1, <4>2 DEF LoopStatus, LoopLog
    <3> QED
      BY <3>1, <3>2
  <2>3. SeenStatus' = SeenStatus /\ SeenStep' = SeenStep /\ SeenLog' = SeenLog
    BY <2>2 DEF SeenStatus, SeenStep, SeenLog
  <2> QED
    BY <2>3, LoopStutters
<1>3. ASSUME NEW r \in Runs, NEW row, RowBecomes(r, row)
      PROVE  [Loop!Next]_Loop!loopVars
  <2>1. runs' = [runs EXCEPT ![r] = row] /\ RowStep(r, row)
    BY <1>3 DEF RowBecomes
  <2>2. runs[r] \in Run /\ RunFits(made, r, runs[r])
    BY DEF RunInv, TypeOK, RunsFit
  <2>3. /\ SeenStatus' = [SeenStatus EXCEPT ![r] = LoopStatus(row)]
        /\ SeenStep' = [SeenStep EXCEPT ![r] = row.step]
        /\ SeenLog' = [SeenLog EXCEPT ![r] = LoopLog(row)]
        /\ SeenStatus[r] = LoopStatus(runs[r]) /\ SeenStep[r] = runs[r].step
        /\ SeenLog[r] = LoopLog(runs[r])
        /\ SeenStatus = [SeenStatus EXCEPT ![r] = LoopStatus(runs[r])]
        /\ SeenStep = [SeenStep EXCEPT ![r] = runs[r].step]
        /\ SeenLog = [SeenLog EXCEPT ![r] = LoopLog(runs[r])]
    BY <2>1, SeenRow
  <2>11. \A st : st \notin {"draft", "lost"} =>
           (row.status = st => LoopStatus(row) = st)
           /\ (runs[r].status = st => LoopStatus(runs[r]) = st)
    BY DEF LoopStatus
  <2>4. CASE /\ runs[r].status = "none"
             /\ \E st \in {"draft", "running"}, w \in Flows, t \in TaskIds :
                  row = NewRun(st, w, t)
    <3>1. PICK st \in {"draft", "running"}, w \in Flows, t \in TaskIds :
            row = NewRun(st, w, t)
      BY <2>4
    <3>2. row.status = st /\ row.step = 0 /\ row.outputs = << >>
      BY <3>1 DEF NewRun
    <3>3. runs[r].step = 0 /\ runs[r].outputs = << >>
      BY <2>2, <2>4 DEF RunFits
    <3>4. LoopLog(row) = LoopLog(runs[r])
      BY <3>2, <3>3 DEF LoopLog
    <3>5. CASE st = "draft"
      <4>1. LoopStatus(row) = LoopStatus(runs[r]) /\ row.step = runs[r].step
        BY <2>4, <3>2, <3>3, <3>5 DEF LoopStatus
      <4>2. SeenStatus' = SeenStatus /\ SeenStep' = SeenStep /\ SeenLog' = SeenLog
        BY <2>3, <3>4, <4>1, Zenon
      <4> QED
        BY <4>2, LoopStutters
    <3>6. CASE st = "running"
      <4>1. SeenStatus[r] = "none" /\ LoopStatus(row) = "running"
        BY <2>3, <2>4, <2>11, <3>2, <3>6
      <4>2. SeenLog' = SeenLog
        BY <2>3, <3>4, Zenon
      <4>3. Loop!Start(r)
        BY <2>3, <3>2, <4>1, <4>2, SeesStart
      <4> QED
        BY <4>3 DEF Loop!Next
    <3> QED
      BY <3>5, <3>6
  <2>5. CASE runs[r].status = "draft" /\ row = [runs[r] EXCEPT !.status = "running"]
    <3>1. row = [status |-> "running", flow |-> runs[r].flow, step |-> runs[r].step,
                 task |-> runs[r].task, outputs |-> runs[r].outputs]
      BY <2>2, <2>5, RunParts
    <3>2. row.status = "running" /\ row.step = 0 /\ row.outputs = runs[r].outputs
      BY <2>2, <2>5, <3>1 DEF RunFits
    <3>3. LoopLog(row) = LoopLog(runs[r])
      BY <3>2 DEF LoopLog
    <3>4. SeenStatus[r] = "none" /\ LoopStatus(row) = "running"
      BY <2>3, <2>5, <3>2 DEF LoopStatus
    <3>5. SeenLog' = SeenLog
      BY <2>3, <3>3, Zenon
    <3>6. Loop!Start(r)
      BY <2>3, <3>2, <3>4, <3>5, SeesStart
    <3> QED
      BY <3>6 DEF Loop!Next
  <2>6. CASE /\ runs[r].status \in {"none", "draft"}
            /\ row.status = "lost" /\ row.step = 0 /\ row.outputs = << >>
    <3>1. runs[r].step = 0 /\ runs[r].outputs = << >>
      BY <2>2, <2>6 DEF RunFits
    <3>2. row.status = "lost" /\ row.step = 0 /\ row.outputs = << >>
      BY <2>6
    <3>3. /\ LoopLog(row) = LoopLog(runs[r]) /\ row.step = runs[r].step
          /\ LoopStatus(row) = LoopStatus(runs[r])
      BY <2>6, <3>1, <3>2 DEF LoopLog, LoopStatus
    <3>4. SeenStatus' = SeenStatus /\ SeenStep' = SeenStep /\ SeenLog' = SeenLog
      BY <2>3, <3>3, Zenon
    <3> QED
      BY <3>4, LoopStutters
  <2>7. CASE /\ Turn(r, "scan") /\ TaskStatus(r) = "failed"
             /\ row = Failed(runs[r])
    <3>1. runs[r].status = "running"
      BY <2>7, TurnParts
    <3>2. row = [runs[r] EXCEPT !.status = "failed", !.task = 0]
      BY <2>7 DEF Failed
    <3>9. runs[r] = [status |-> runs[r].status, flow |-> runs[r].flow,
                     step |-> runs[r].step, task |-> runs[r].task,
                     outputs |-> runs[r].outputs]
      BY <2>2, RunParts
    <3>3. row = [status |-> "failed", flow |-> runs[r].flow, step |-> runs[r].step,
                 task |-> 0, outputs |-> runs[r].outputs]
      BY <3>2, <3>9
    <3>4. /\ row.status = "failed" /\ row.step = runs[r].step
          /\ LoopLog(row) = LoopLog(runs[r])
      BY <3>3 DEF LoopLog
    <3>5. SeenStatus[r] = "running" /\ LoopStatus(row) = "failed"
      BY <2>3, <2>11, <3>1, <3>4
    <3>6. SeenStep' = [SeenStep EXCEPT ![r] = SeenStep[r]]
      BY <2>3, <3>4, Zenon
    <3>7. SeenLog' = SeenLog
      BY <2>3, <3>4, Zenon
    <3>8. Loop!Abort(r)
      BY <2>3, <3>5, <3>6, <3>7, SeesAbort
    <3> QED
      BY <3>8 DEF Loop!Next
  <2>8. CASE /\ Turn(r, "read") /\ Refused(r)
             /\ row = Ended(runs[r], Verdict(r), runs[r].step, "failed")
    <3>1. /\ runs[r].status = "running" /\ runs[r].task \in TaskIds
          /\ Verdict(r) \in Verdicts /\ runs[r].step \in 0..MaxSteps
      BY <2>2, <2>8, TurnParts, RunParts
    <3>2. /\ row.status = "failed" /\ row.step = runs[r].step
          /\ row.outputs \in Seq(Output)
          /\ Len(row.outputs) = Len(runs[r].outputs) + 1
          /\ \A i \in 1..Len(runs[r].outputs) : row.outputs[i] = runs[r].outputs[i]
          /\ row.outputs[Len(row.outputs)]
               = [task |-> runs[r].task, verdict |-> Verdict(r)]
      BY <2>2, <2>8, <3>1, EndedOutputs
    <3>3. row.outputs[Len(row.outputs)].verdict = Verdict(r)
      BY <3>2
    <3>4. LoopLog(row) = Append(LoopLog(runs[r]), Verdict(r))
      BY <2>2, <3>1, <3>2, <3>3, LogGrows
    <3>5. SeenLog' = [SeenLog EXCEPT ![r] = Append(SeenLog[r], Verdict(r))]
      BY <2>3, <3>4, Zenon
    <3>6. /\ SeenStatus[r] = "running"
          /\ SeenStatus' = [SeenStatus EXCEPT ![r] = "failed"]
          /\ SeenStep' = [SeenStep EXCEPT ![r] = SeenStep[r]]
      <4>1. LoopStatus(runs[r]) = "running" /\ LoopStatus(row) = "failed"
        BY <2>11, <3>1, <3>2
      <4> QED
        BY <2>3, <3>2, <4>1, Zenon
    <3>7. CASE Verdict(r) = "blocked"
      <4>1. Loop!Block(r)
        BY <3>5, <3>6, <3>7, SeesBlock
      <4> QED
        BY <4>1 DEF Loop!Next
    <3>8. CASE Verdict(r) = "changes_requested" /\ ~BudgetLeft(r)
      <4>1. ~(RoundsOf(runs[r]) < MAX_FIXUP_ROUNDS)
        BY <3>8 DEF BudgetLeft, FixupRoundsUsed, RoundsOf
      <4>2. Loop!Rework(r)
        BY <3>5, <3>6, <3>8, <4>1, SeesRework
      <4> QED
        BY <4>2 DEF Loop!Next
    <3>9. CASE Verdict(r) \in {"none", "approved"}
      <4>1. Loop!Accept(r)
        BY <3>5, <3>6, <3>9, SeesAccept
      <4> QED
        BY <4>1 DEF Loop!Next
    <3> QED
      BY <2>8, <3>7, <3>8, <3>9 DEF Refused
  <2>9. CASE /\ Turn(r, "read") /\ Verdict(r) \in {"none", "approved"}
             /\ row = Ended(runs[r], Verdict(r), runs[r].step + 1, "done")
    <3>1. /\ runs[r].status = "running" /\ runs[r].task \in TaskIds
          /\ Verdict(r) \in Verdicts
      BY <2>9, TurnParts
    <3>2. PICK k \in 0..MaxSteps : k = runs[r].step + 1
      BY <2>9, TurnParts, WorkflowAssumption
    <3>3. row = Ended(runs[r], Verdict(r), k, "done")
      BY <2>9, <3>2
    <3>4. /\ row.status = "done" /\ row.step = k
          /\ row.outputs \in Seq(Output)
          /\ Len(row.outputs) = Len(runs[r].outputs) + 1
          /\ \A i \in 1..Len(runs[r].outputs) : row.outputs[i] = runs[r].outputs[i]
          /\ row.outputs[Len(row.outputs)]
               = [task |-> runs[r].task, verdict |-> Verdict(r)]
      BY <2>2, <3>1, <3>3, EndedOutputs
    <3>5. row.outputs[Len(row.outputs)].verdict = Verdict(r)
      BY <3>4
    <3>6. LoopLog(row) = Append(LoopLog(runs[r]), Verdict(r))
      BY <2>2, <3>1, <3>4, <3>5, LogGrows
    <3>7. /\ SeenStatus[r] = "running"
          /\ SeenStatus' = [SeenStatus EXCEPT ![r] = "done"]
          /\ SeenStep' = [SeenStep EXCEPT ![r] = SeenStep[r] + 1]
          /\ SeenLog' = [SeenLog EXCEPT ![r] = Append(SeenLog[r], Verdict(r))]
      <4>1. LoopStatus(runs[r]) = "running" /\ LoopStatus(row) = "done"
        BY <2>11, <3>1, <3>4
      <4>2. row.step = SeenStep[r] + 1
        BY <2>3, <3>2, <3>4
      <4> QED
        BY <2>3, <3>6, <4>1, <4>2, Zenon
    <3>8. Loop!Accept(r)
      BY <2>9, <3>7, SeesAccept
    <3> QED
      BY <3>8 DEF Loop!Next
  <2>10. CASE Turn(r, "store") /\ row = hold
    <3>1. /\ runs[r].status = "running" /\ runs[r].task \in TaskIds
      BY <2>10, TurnParts
    <3>2. PICK v \in Verdicts, k \in 0..MaxSteps, t \in TaskIds :
               Follows(runs[r], v, k) /\ hold = Moved(runs[r], v, k, t)
      BY <2>10 DEF RunInv, HoldFits
    <3>3. row = Moved(runs[r], v, k, t)
      BY <2>10, <3>2
    <3>4. /\ row.status = runs[r].status /\ row.step = k
          /\ row.outputs \in Seq(Output)
          /\ Len(row.outputs) = Len(runs[r].outputs) + 1
          /\ \A i \in 1..Len(runs[r].outputs) : row.outputs[i] = runs[r].outputs[i]
          /\ row.outputs[Len(row.outputs)] = [task |-> runs[r].task, verdict |-> v]
      BY <2>2, <3>1, <3>3, MovedOutputs
    <3>5. row.outputs[Len(row.outputs)].verdict = v
      BY <3>4
    <3>6. LoopLog(row) = Append(LoopLog(runs[r]), v)
      BY <2>2, <3>4, <3>5, LogGrows
    <3>7. /\ SeenStatus[r] = "running"
          /\ SeenStatus' = [SeenStatus EXCEPT ![r] = "running"]
          /\ SeenStep' = [SeenStep EXCEPT ![r] = k]
          /\ SeenLog' = [SeenLog EXCEPT ![r] = Append(SeenLog[r], v)]
      <4>1. LoopStatus(runs[r]) = "running" /\ LoopStatus(row) = "running"
        BY <2>11, <3>1, <3>4
      <4> QED
        BY <2>3, <3>4, <3>6, <4>1, Zenon
    <3>8. CASE /\ v = "changes_requested" /\ k = 0
               /\ RoundsOf(runs[r]) < MAX_FIXUP_ROUNDS
      <4>1. Loop!Rework(r)
        BY <3>7, <3>8, SeesRework
      <4> QED
        BY <4>1 DEF Loop!Next
    <3>9. CASE v \in {"none", "approved"} /\ k = runs[r].step + 1
      <4>1. Loop!Accept(r)
        BY <2>3, <3>7, <3>9, SeesAccept
      <4> QED
        BY <4>1 DEF Loop!Next
    <3> QED
      BY <3>2, <3>8, <3>9 DEF Follows
  <2>12. CASE runs[r].status = "none" /\ \E w \in Flows : row = NewRun("lost", w, 0)
    <3>1. runs[r].status = "none"
      BY <2>12
    <3>2. row.status = "lost" /\ row.step = 0 /\ row.outputs = << >>
      BY <2>12 DEF NewRun
    <3> QED
      BY <2>6, <3>1, <3>2
  <2>13. CASE runs[r].status = "draft" /\ row = [runs[r] EXCEPT !.status = "lost"]
    <3>1. runs[r].step = 0 /\ runs[r].outputs = << >>
      BY <2>2, <2>13 DEF RunFits
    <3>2. row = [status |-> "lost", flow |-> runs[r].flow,
                 step |-> runs[r].step, task |-> runs[r].task,
                 outputs |-> runs[r].outputs]
      BY <2>2, <2>13, RunParts
    <3> QED
      BY <2>6, <2>13, <3>1, <3>2
  <2>14. \/ /\ runs[r].status = "none"
            /\ \E st \in {"draft", "running"}, w \in Flows, t \in TaskIds :
                 row = NewRun(st, w, t)
         \/ runs[r].status = "none" /\ \E w \in Flows : row = NewRun("lost", w, 0)
         \/ runs[r].status = "draft" /\ row = [runs[r] EXCEPT !.status = "running"]
         \/ runs[r].status = "draft" /\ row = [runs[r] EXCEPT !.status = "lost"]
         \/ /\ Turn(r, "scan") /\ TaskStatus(r) = "failed"
            /\ row = Failed(runs[r])
         \/ /\ Turn(r, "read") /\ Refused(r)
            /\ row = Ended(runs[r], Verdict(r), runs[r].step, "failed")
         \/ /\ Turn(r, "read") /\ Verdict(r) \in {"none", "approved"}
            /\ row = Ended(runs[r], Verdict(r), runs[r].step + 1, "done")
         \/ Turn(r, "store") /\ row = hold
    BY <2>1, Zenon DEF RowStep
  <2> QED
    BY <2>14, <2>4, <2>12, <2>5, <2>13, <2>7, <2>8, <2>9, <2>10, Zenon
<1> QED
  BY <1>1, <1>2, <1>3, RowSteps

(* The table of runs implements ReviewLoop: each update_run of advance is
   one step of the loop, whatever callers, retries and crashes do. *)
THEOREM RunsAreReviewLoop == Spec => LoopSpec
<1>1. Init => Loop!Init
  BY LoopInit
<1>2. RunInv /\ [Next]_vars => [Loop!Next]_Loop!loopVars
  BY LoopStep
<1> QED
  BY <1>1, <1>2, RunInvHolds, PTL DEF Spec, LoopSpec, Loop!Spec

=============================================================================
