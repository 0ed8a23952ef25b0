------------------------- MODULE WorkflowBudgetProofs -------------------------
(***************************************************************************)
(* How many tasks a run may have, and how often its coder starts: theorems *)
(* about WorkflowRun that count, for every value of its constants.         *)
(***************************************************************************)
EXTENDS WorkflowRunProofs

\* The row as the advancer knows it: the one it is about to store, if any.
Known(r) == IF Turn(r, "store") THEN hold ELSE runs[r]

\* The task that keeps the run's place in the queue: none while its reply is
\* being judged.
Current(r) == IF Turn(r, "read") THEN 0 ELSE Known(r).task
Place(r) == IF Current(r) # 0 /\ status[Current(r)] = "pending" THEN 1 ELSE 0

\* Tasks of step 0, and tasks that are pending or may be again.
Starts(r) == {t \in TaskIds : made[t].run = r /\ made[t].step = 0}
Owed(r) == {t \in TaskIds : /\ made[t].run = r
                            /\ status[t] = "pending" \/ t \in late}

\* What may have kept a run from recording what was submitted for it.
Troubles == crashes + faults

\* A run is launched with nothing made for it, starts once and once per round
\* that was logged, and owes what keeps its place and what faults added.
Launches == \A r \in Runs : runs[r].status = "none" =>
              \A t \in TaskIds : made[t].run # r
Rounds == \A r \in Runs :
  /\ Cardinality(Starts(r)) <= 1 + Troubles + RoundsOf(Known(r))
  /\ Cardinality(Starts(r)) <= 1 + Troubles + MAX_FIXUP_ROUNDS
Places == \A r \in Runs :
  Cardinality(Owed(r)) <= Troubles + ops + redone + Place(r)
\* A task that is judged was submitted.
Judged == \A r \in Runs : Turn(r, "read") \/ Turn(r, "store") =>
            runs[r].task \in used

CountInv == Launches /\ Rounds /\ Places /\ Judged

-----------------------------------------------------------------------------
(* Sets of tasks and rounds of a row. *)
LEMMA TaskSets ==
  ASSUME NEW S \in SUBSET TaskIds
  PROVE  IsFiniteSet(S) /\ Cardinality(S) \in Nat
<1>1. IsFiniteSet(S)
  BY WorkflowAssumption, FS_Subset
<1> QED
  BY <1>1, FS_CardinalityType

LEMMA FewerTasks ==
  ASSUME NEW S \in SUBSET TaskIds, NEW T \in SUBSET TaskIds
  PROVE  /\ S \subseteq T => Cardinality(S) <= Cardinality(T)
         /\ \A t \in TaskIds :
              S \subseteq T \cup {t} => Cardinality(S) <= Cardinality(T) + 1
         /\ \A t \in T : S \subseteq T \ {t} => Cardinality(S) <= Cardinality(T) - 1
         /\ Cardinality(S) \in Nat /\ Cardinality(T) \in Nat
<1>1. /\ IsFiniteSet(S) /\ IsFiniteSet(T)
      /\ Cardinality(S) \in Nat /\ Cardinality(T) \in Nat
  BY TaskSets
<1>2. ASSUME NEW U \in SUBSET TaskIds, S \subseteq U
      PROVE  Cardinality(S) <= Cardinality(U)
  <2>1. IsFiniteSet(U)
    BY TaskSets
  <2> QED
    BY <1>2, <2>1, FS_Subset
<1>3. ASSUME NEW t \in TaskIds, S \subseteq T \cup {t}
      PROVE  Cardinality(S) <= Cardinality(T) + 1
  <2>1. Cardinality(S) <= Cardinality(T \cup {t})
    BY <1>2, <1>3
  <2>2. Cardinality(T \cup {t}) \in {Cardinality(T), Cardinality(T) + 1}
    BY <1>1, FS_AddElement, Zenon
  <2>3. Cardinality(T \cup {t}) \in Nat
    BY TaskSets
  <2> QED
    BY <1>1, <2>1, <2>2, <2>3
<1>4. ASSUME NEW t \in T, S \subseteq T \ {t}
      PROVE  Cardinality(S) <= Cardinality(T) - 1
  <2>1. Cardinality(S) <= Cardinality(T \ {t})
    BY <1>2, <1>4
  <2>2. Cardinality(T \ {t}) = Cardinality(T) - 1
    BY <1>1, FS_RemoveElement
  <2> QED
    BY <2>1, <2>2
<1> QED
  BY <1>1, <1>2, <1>3, <1>4

LEMMA RoundsType ==
  ASSUME NEW run \in Run
  PROVE  RoundsOf(run) \in Nat
<1> DEFINE C == {i \in DOMAIN run.outputs :
                   run.outputs[i].verdict = "changes_requested"}
<1>1. DOMAIN run.outputs = 1..Len(run.outputs) /\ Len(run.outputs) \in Nat
  BY RunParts
<1>2. IsFiniteSet(1..Len(run.outputs))
  BY <1>1, FS_Interval
<1>3. IsFiniteSet(C)
  BY <1>1, <1>2, FS_Subset
<1> QED
  BY <1>3, FS_CardinalityType DEF RoundsOf

LEMMA RoundsGrow ==
  ASSUME NEW run \in Run, NEW new, NEW v \in Verdicts,
         new.outputs \in Seq(Output),
         Len(new.outputs) = Len(run.outputs) + 1,
         \A i \in 1..Len(run.outputs) : new.outputs[i] = run.outputs[i],
         new.outputs[Len(new.outputs)].verdict = v
  PROVE  RoundsOf(new) = RoundsOf(run) + IF v = "changes_requested" THEN 1 ELSE 0
<1> DEFINE C == {i \in DOMAIN run.outputs :
                   run.outputs[i].verdict = "changes_requested"}
           D == {i \in DOMAIN new.outputs :
                   new.outputs[i].verdict = "changes_requested"}
           n == Len(run.outputs)
<1>6. RoundsOf(run) = Cardinality(C) /\ RoundsOf(new) = Cardinality(D)
  BY DEF RoundsOf
<1>1. DOMAIN run.outputs = 1..n /\ n \in Nat /\ DOMAIN new.outputs = 1..(n + 1)
  BY RunParts
<1>2. IsFiniteSet(C) /\ Cardinality(C) \in Nat
  <2>1. IsFiniteSet(1..n)
    BY <1>1, FS_Interval
  <2>2. IsFiniteSet(C)
    BY <1>1, <2>1, FS_Subset
  <2> QED
    BY <2>2, FS_CardinalityType
<1>3. n + 1 \notin C
  BY <1>1
<1>4. D = IF v = "changes_requested" THEN C \cup {n + 1} ELSE C
  <2>1. CASE v = "changes_requested"
    BY <1>1, <2>1
  <2>2. CASE v # "changes_requested"
    BY <1>1, <2>2
  <2> QED
    BY <2>1, <2>2
<1> HIDE DEF C, D
<1>5. Cardinality(C \cup {n + 1}) = Cardinality(C) + 1
  BY <1>2, <1>3, FS_AddElement
<1> QED
  BY <1>2, <1>4, <1>5, <1>6

(* The parts of the invariant, typed. *)
LEMMA CountTypes ==
  ASSUME RunInv
  PROVE  /\ Troubles \in Nat /\ ops \in Nat /\ redone \in Nat
         /\ MAX_FIXUP_ROUNDS \in Nat
         /\ \A r \in Runs : /\ Starts(r) \in SUBSET TaskIds
                            /\ Cardinality(Starts(r)) \in Nat
                            /\ Owed(r) \in SUBSET TaskIds
                            /\ Cardinality(Owed(r)) \in Nat
                            /\ Place(r) \in {0, 1}
<1>1. Troubles \in Nat /\ ops \in Nat /\ redone \in Nat /\ MAX_FIXUP_ROUNDS \in Nat
  BY WorkflowAssumption DEF RunInv, TypeOK, Troubles
<1>2. \A r \in Runs : /\ Starts(r) \in SUBSET TaskIds
                     /\ Owed(r) \in SUBSET TaskIds
                     /\ Place(r) \in {0, 1}
  BY DEF Starts, Owed, Place
<1> QED
  BY <1>1, <1>2, TaskSets

LEMMA KnownParts ==
  ASSUME RunInv, NEW r \in Runs
  PROVE  /\ Known(r) \in Run /\ RunFits(made, r, Known(r))
         /\ RoundsOf(Known(r)) \in Nat
         /\ Current(r) \in TaskIds \cup {0}
         /\ Current(r) # 0 => made[Current(r)].run = r
<1>1. Known(r) \in Run /\ RunFits(made, r, Known(r))
  BY DEF Known, RunInv, TypeOK, RunsFit, HoldFits
<1>2. Known(r).task \in TaskIds \cup {0}
  BY <1>1, RunParts
<1> QED
  BY <1>1, <1>2, RoundsType DEF Current, RunFits

LEMMA OneTurn ==
  ASSUME RunInv, NEW r \in Runs, NEW q \in Runs, NEW at, NEW over,
         Turn(r, at), Turn(q, over)
  PROVE  q = r
<1>1. q <= r /\ r <= q
  BY DEF Turn
<1> QED
  BY <1>1, WorkflowAssumption

-----------------------------------------------------------------------------
(* Steps that make no task and leave the queue alone.                      *)

LEMMA QuietCounts ==
  ASSUME RunInv, RunInv', CountInv, UNCHANGED <<made, status, late, used>>,
         Troubles' >= Troubles, ops' >= ops, redone' >= redone,
         \A r \in Runs :
           /\ runs'[r].status = "none" => runs[r].status = "none"
           /\ RoundsOf(Known(r)') >= RoundsOf(Known(r))
           /\ Place(r)' >= Place(r)
           /\ Turn(r, "read")' \/ Turn(r, "store")' => runs'[r].task \in used
  PROVE  CountInv'
<1>1. /\ Troubles \in Nat /\ ops \in Nat /\ redone \in Nat
      /\ MAX_FIXUP_ROUNDS \in Nat
      /\ Troubles' \in Nat /\ ops' \in Nat /\ redone' \in Nat
  <2>1. crashes' \in Nat /\ faults' \in Nat /\ ops' \in Nat /\ redone' \in Nat
    BY WorkflowAssumption DEF RunInv, TypeOK
  <2>2. Troubles' \in Nat
    BY <2>1 DEF Troubles
  <2> QED
    BY <2>1, <2>2, CountTypes
<1>2. ASSUME NEW r \in Runs
      PROVE  /\ Cardinality(Starts(r))' <= 1 + Troubles' + RoundsOf(Known(r)')
             /\ Cardinality(Starts(r))' <= 1 + Troubles' + MAX_FIXUP_ROUNDS
             /\ Cardinality(Owed(r))' <= Troubles' + ops' + redone' + Place(r)'
  <2>1. Starts(r)' = Starts(r) /\ Owed(r)' = Owed(r)
    BY DEF Starts, Owed
  <2>2. /\ Cardinality(Starts(r)) \in Nat /\ Cardinality(Owed(r)) \in Nat
        /\ Place(r) \in {0, 1} /\ RoundsOf(Known(r)) \in Nat
    BY CountTypes, KnownParts
  <2>3. Place(r)' \in {0, 1}
    BY DEF Place
  <2>4. RoundsOf(Known(r)') \in Nat
    <3>1. Known(r)' \in Run
      BY DEF Known, RunInv, TypeOK
    <3> QED
      BY <3>1, RoundsType
  <2>5. /\ Cardinality(Starts(r)) <= 1 + Troubles + RoundsOf(Known(r))
        /\ Cardinality(Starts(r)) <= 1 + Troubles + MAX_FIXUP_ROUNDS
        /\ Cardinality(Owed(r)) <= Troubles + ops + redone + Place(r)
    BY DEF CountInv, Rounds, Places
  <2>6. RoundsOf(Known(r)') >= RoundsOf(Known(r)) /\ Place(r)' >= Place(r)
    OBVIOUS
  <2> QED
    BY <1>1, <2>1, <2>2, <2>3, <2>4, <2>5, <2>6
<1>3. Launches'
  BY DEF CountInv, Launches
<1>4. Rounds' /\ Places'
  BY <1>2 DEF Rounds, Places
<1>5. Judged'
  BY DEF Judged
<1> QED
  BY <1>3, <1>4, <1>5 DEF CountInv

LEMMA TurnOverCounts ==
  ASSUME RunInv, RunInv', CountInv, NEW r \in Runs,
         NEW at \in {"scan", "read", "store"}, Turn(r, at), TurnOver(r),
         NEW row, runs' = [runs EXCEPT ![r] = row],
         UNCHANGED <<taskVars, boundVars>>,
         row.status # "none", RoundsOf(row) >= RoundsOf(Known(r)),
         Place(r) = 0 \/ row.task = Current(r)
  PROVE  CountInv'
<1>1. runs \in [Runs -> Run]
  BY DEF RunInv, TypeOK
<1>2. \A q \in Runs : ~Turn(q, "read")' /\ ~Turn(q, "store")'
  BY DEF Turn, TurnOver
<1>3. \A q \in Runs : Known(q)' = runs'[q] /\ Current(q)' = runs'[q].task
  BY <1>2 DEF Known, Current
<1>4. ASSUME NEW q \in Runs, q # r
      PROVE  /\ Known(q)' = Known(q) /\ Current(q)' = Current(q)
             /\ runs'[q] = runs[q]
  <2>1. ~Turn(q, "read") /\ ~Turn(q, "store")
    BY <1>4, OneTurn
  <2> QED
    BY <1>1, <1>3, <1>4, <2>1 DEF Known, Current
<1>5. Known(r)' = row /\ Current(r)' = row.task /\ runs'[r] = row
  BY <1>1, <1>3
<1>6. UNCHANGED <<made, status, late, used, Troubles, ops, redone>>
  BY DEF taskVars, queueVars, boundVars, Troubles
<1>7. ASSUME NEW q \in Runs
      PROVE  /\ runs'[q].status = "none" => runs[q].status = "none"
             /\ RoundsOf(Known(q)') >= RoundsOf(Known(q))
             /\ Place(q)' >= Place(q)
             /\ Turn(q, "read")' \/ Turn(q, "store")' => runs'[q].task \in used
  <2>1. Place(q) \in {0, 1} /\ RoundsOf(Known(q)) \in Nat /\ Place(q)' \in {0, 1}
    BY CountTypes, KnownParts DEF Place
  <2>2. CASE q # r
    <3>1. Place(q)' = Place(q)
      BY <1>4, <1>6, <2>2 DEF Place
    <3> QED
      BY <1>2, <1>4, <2>1, <2>2, <3>1
  <2>3. CASE q = r
    <3>1. Place(r)' >= Place(r)
      <4>1. CASE Place(r) = 0
        BY <2>1, <2>3, <4>1
      <4>2. CASE row.task = Current(r)
        <5>1. Place(r)' = Place(r)
          BY <1>5, <1>6, <4>2 DEF Place
        <5> QED
          BY <2>1, <2>3, <5>1
      <4> QED
        BY <4>1, <4>2
    <3> QED
      BY <1>2, <1>5, <2>3, <3>1
  <2> QED
    BY <2>2, <2>3
<1>8. Troubles' >= Troubles /\ ops' >= ops /\ redone' >= redone
  BY <1>6, CountTypes
<1> QED
  BY <1>6, <1>7, <1>8, QuietCounts

\* The rows a turn stores: the run as it is, failed, ended, or as held.
LEMMA IdleCounts ==
  ASSUME RunInv, RunInv', CountInv, NEW r \in Runs,
         NEW at \in {"scan", "read"}, Turn(r, at), TurnOver(r),
         UNCHANGED <<runs, taskVars, boundVars>>
  PROVE  CountInv'
<1>1. /\ runs' = [runs EXCEPT ![r] = runs[r]] /\ runs[r] \in Run
      /\ runs[r].status # "none" /\ RoundsOf(runs[r]) \in Nat
  BY TurnParts, RoundsType DEF RunInv, TypeOK
<1>2. ~Turn(r, "store")
  BY DEF Turn
<1>3. Known(r) = runs[r]
  BY <1>2 DEF Known
<1>4. Place(r) = 0 \/ runs[r].task = Current(r)
  BY <1>3 DEF Place, Current
<1>5. RoundsOf(runs[r]) >= RoundsOf(Known(r))
  BY <1>1, <1>3
<1> QED
  BY <1>1, <1>4, <1>5, TurnOverCounts

LEMMA FailedCounts ==
  ASSUME RunInv, RunInv', CountInv, NEW r \in Runs, TaskFailed(r)
  PROVE  CountInv'
<1> PICK row : row = Failed(runs[r])
  OBVIOUS
<1>1. /\ Turn(r, "scan") /\ TurnOver(r) /\ TaskStatus(r) = "failed"
      /\ runs' = [runs EXCEPT ![r] = row]
      /\ UNCHANGED <<taskVars, boundVars>>
  BY Zenon DEF TaskFailed, Store
<1>2. runs[r] \in Run /\ runs[r].task \in TaskIds
  BY <1>1, TurnParts
<1>3. row.outputs = runs[r].outputs /\ row.status = "failed"
  <2>1. row = [runs[r] EXCEPT !.status = "failed", !.task = 0]
    BY DEF Failed
  <2>2. runs[r] = [status |-> runs[r].status, flow |-> runs[r].flow,
                   step |-> runs[r].step, task |-> runs[r].task,
                   outputs |-> runs[r].outputs]
    BY <1>2, RunParts
  <2> QED
    BY <2>1, <2>2
<1>4. ~Turn(r, "store") /\ ~Turn(r, "read")
  BY <1>1 DEF Turn
<1>5. Known(r) = runs[r] /\ Current(r) = runs[r].task
  BY <1>4 DEF Known, Current
<1>6. Place(r) = 0
  BY <1>1, <1>2, <1>5 DEF Place, TaskStatus
<1>7. RoundsOf(row) = RoundsOf(runs[r]) /\ RoundsOf(runs[r]) \in Nat
  BY <1>2, <1>3, RoundsType DEF RoundsOf
<1>8. RoundsOf(row) >= RoundsOf(Known(r))
  BY <1>5, <1>7
<1> QED
  BY <1>1, <1>3, <1>6, <1>8, TurnOverCounts

LEMMA EndedCounts ==
  ASSUME RunInv, RunInv', CountInv, NEW r \in Runs, Turn(r, "read"), TurnOver(r),
         NEW st \in {"done", "failed"}, NEW k \in 0..MaxSteps,
         runs' = [runs EXCEPT ![r] = Ended(runs[r], Verdict(r), k, st)],
         UNCHANGED <<taskVars, boundVars>>
  PROVE  CountInv'
<1> PICK v \in Verdicts : v = Verdict(r)
  BY TurnParts
<1> PICK row : row = Ended(runs[r], v, k, st)
  OBVIOUS
<1>1. runs[r] \in Run /\ runs[r].task \in TaskIds
  BY TurnParts
<1>2. /\ row.status = st /\ row.outputs \in Seq(Output)
      /\ Len(row.outputs) = Len(runs[r].outputs) + 1
      /\ \A i \in 1..Len(runs[r].outputs) : row.outputs[i] = runs[r].outputs[i]
      /\ row.outputs[Len(row.outputs)] = [task |-> runs[r].task, verdict |-> v]
  BY <1>1, EndedOutputs
<1>3. RoundsOf(row)
        = RoundsOf(runs[r]) + IF v = "changes_requested" THEN 1 ELSE 0
  <2>1. row.outputs[Len(row.outputs)].verdict = v
    BY <1>2
  <2> QED
    BY <1>1, <1>2, <2>1, RoundsGrow
<1>4. ~Turn(r, "store")
  BY DEF Turn
<1>5. Known(r) = runs[r] /\ Place(r) = 0
  BY <1>4 DEF Known, Current, Place
<1>6. RoundsOf(row) >= RoundsOf(Known(r))
  BY <1>1, <1>3, <1>5, RoundsType
<1>7. runs' = [runs EXCEPT ![r] = row]
  OBVIOUS
<1> QED
  BY <1>2, <1>5, <1>6, <1>7, TurnOverCounts

LEMMA StoredCounts ==
  ASSUME RunInv, RunInv', CountInv, NEW r \in Runs, StoreRun(r)
  PROVE  CountInv'
<1>1. /\ Turn(r, "store") /\ TurnOver(r) /\ runs' = [runs EXCEPT ![r] = hold]
      /\ UNCHANGED <<taskVars, boundVars>>
  BY DEF StoreRun, Store
<1>2. Known(r) = hold /\ hold \in Run /\ ~Turn(r, "read")
  BY <1>1 DEF Known, Turn, RunInv, TypeOK
<1>3. Current(r) = hold.task
  BY <1>2 DEF Current
<1>4. hold.status = "running"
  <2>1. PICK v \in Verdicts, k \in 0..MaxSteps, t \in TaskIds :
          hold = Moved(runs[r], v, k, t)
    BY <1>1 DEF RunInv, HoldFits
  <2>2. runs[r] \in Run /\ runs[r].status = "running"
    BY <1>1, TurnParts
  <2> QED
    BY <2>1, <2>2, MovedStatus
<1>5. RoundsOf(hold) >= RoundsOf(Known(r))
  BY <1>2, RoundsType
<1>6. hold.status # "none"
  BY <1>4
<1> QED
  BY <1>1, <1>3, <1>5, <1>6, TurnOverCounts

\* The advancer looks, or dies.
LEMMA LookCounts ==
  ASSUME RunInv, RunInv', CountInv,
         UNCHANGED <<runs, made, status, late, used, boundVars>>,
         pc \in {"scan", "read"}, pc' # "store",
         \A r \in Runs : Turn(r, "read")' =>
           status[runs[r].task] = "done" /\ runs[r].task \in TaskIds
  PROVE  CountInv'
<1>1. \A r \in Runs : ~Turn(r, "store") /\ ~Turn(r, "store")'
  BY DEF Turn
<1>2. \A r \in Runs : Known(r) = runs[r] /\ Known(r)' = runs[r]
  BY <1>1 DEF Known
<1>3. ASSUME NEW r \in Runs
      PROVE  Place(r)' >= Place(r)
  <2>1. CASE Turn(r, "read")'
    <3>1. Place(r) = 0
      BY <1>2, <2>1 DEF Place, Current
    <3> QED
      BY <3>1 DEF Place
  <2>2. CASE ~Turn(r, "read")' /\ Turn(r, "read")
    <3>1. Place(r) = 0
      BY <2>2 DEF Place, Current
    <3> QED
      BY <3>1 DEF Place
  <2>3. CASE ~Turn(r, "read")' /\ ~Turn(r, "read")
    <3>1. Current(r)' = Current(r)
      BY <1>2, <2>3 DEF Current
    <3>2. Place(r)' = Place(r)
      BY <3>1 DEF Place
    <3> QED
      BY <3>2 DEF Place
  <2> QED
    BY <2>1, <2>2, <2>3
<1>4. ASSUME NEW r \in Runs
      PROVE  /\ runs'[r].status = "none" => runs[r].status = "none"
             /\ RoundsOf(Known(r)') >= RoundsOf(Known(r))
             /\ Place(r)' >= Place(r)
             /\ Turn(r, "read")' \/ Turn(r, "store")' => runs'[r].task \in used
  <2>1. RoundsOf(Known(r)) \in Nat
    BY KnownParts
  <2>2. Turn(r, "read")' => runs'[r].task \in used
    BY DEF RunInv, QueueFits
  <2> QED
    BY <1>1, <1>2, <1>3, <2>1, <2>2
<1>5. Troubles' >= Troubles /\ ops' >= ops /\ redone' >= redone
  BY CountTypes DEF boundVars, Troubles
<1> QED
  BY <1>4, <1>5, QuietCounts

-----------------------------------------------------------------------------
(* Steps that make a task.                                                 *)

\* What building an envelope for r does to the sets of tasks.
LEMMA MadeSets ==
  ASSUME RunInv, NEW r \in Runs, NEW t \in TaskIds, IsFresh(t),
         NEW agent \in Agents, NEW k \in 0..MaxSteps,
         made' = [made EXCEPT ![t] = MadeFor(r, agent, k)],
         \A u \in TaskIds : u # t => status'[u] = status[u],
         late' = late
  PROVE  /\ Starts(r)' \subseteq Starts(r) \cup {t}
         /\ k # 0 => Starts(r)' \subseteq Starts(r)
         /\ Owed(r)' \subseteq Owed(r) \cup {t}
         /\ status'[t] # "pending" => Owed(r)' \subseteq Owed(r)
         /\ \A q \in Runs : q # r => /\ Starts(q)' = Starts(q)
                                   /\ Owed(q)' = Owed(q)
         /\ \A q \in Runs : Known(q).task # t
<1>1. made \in [TaskIds -> Made] /\ made[t].run = 0
  BY DEF RunInv, TypeOK, IsFresh, Unused
<1>2. made'[t].run = r /\ made'[t].step = k
  BY <1>1 DEF MadeFor
<1>3. \A u \in TaskIds : u # t => made'[u] = made[u]
  BY <1>1
<1>4. r # 0 /\ t # 0 /\ 0 \notin Runs
  BY WorkflowAssumption
<1>5. t \notin late
  <2>1. t \notin used
    BY UnusedMade
  <2> QED
    BY <2>1 DEF RunInv, TypeOK, QueueFits
<1>6. \A q \in Runs : t \notin Starts(q) /\ t \notin Owed(q)
  BY <1>1, <1>4 DEF Starts, Owed
<1>7. ASSUME NEW q \in Runs, q # r
      PROVE  Starts(q)' = Starts(q) /\ Owed(q)' = Owed(q)
  BY <1>2, <1>3, <1>6, <1>7 DEF Starts, Owed
<1>8. /\ Starts(r)' \subseteq Starts(r) \cup {t}
      /\ k # 0 => Starts(r)' \subseteq Starts(r)
  BY <1>2, <1>3 DEF Starts
<1>9. /\ Owed(r)' \subseteq Owed(r) \cup {t}
      /\ status'[t] # "pending" => Owed(r)' \subseteq Owed(r)
  BY <1>3, <1>5 DEF Owed
<1>10. \A q \in Runs : Known(q).task # t
  <2>1. \A q \in Runs : /\ RunFits(made, q, Known(q))
                        /\ Known(q).task # 0 => made[Known(q).task].run = q
    BY KnownParts DEF RunFits
  <2> QED
    BY <1>1, <1>4, <2>1
<1> QED
  BY <1>7, <1>8, <1>9, <1>10

\* One task more for run r, which is another round, or was paid otherwise.
LEMMA MadeCounts ==
  ASSUME RunInv, RunInv', CountInv, NEW r \in Runs,
         NEW t \in TaskIds, IsFresh(t),
         NEW agent \in Agents, NEW k \in 0..MaxSteps,
         made' = [made EXCEPT ![t] = MadeFor(r, agent, k)],
         \A u \in TaskIds : u # t => status'[u] = status[u],
         UNCHANGED <<late, Troubles, ops, redone>>, used \subseteq used',
         \A q \in Runs \ {r} :
           runs'[q] = runs[q] /\ Known(q)' = Known(q) /\ Current(q)' = Current(q),
         runs'[r].status # "none",
         \/ k # 0 /\ RoundsOf(Known(r)') >= RoundsOf(Known(r))
         \/ Starts(r) = {}
         \/ /\ RoundsOf(Known(r)) < MAX_FIXUP_ROUNDS
            /\ RoundsOf(Known(r)') = RoundsOf(Known(r)) + 1,
         status'[t] = "pending" => Place(r) = 0 /\ Place(r)' = 1,
         status'[t] # "pending" => Place(r)' >= Place(r),
         \A q \in Runs : Turn(q, "read")' \/ Turn(q, "store")' =>
           q # r \/ runs'[q].task \in used',
         \A q \in Runs \ {r} : Turn(q, "read")' \/ Turn(q, "store")' =>
           Turn(q, "read") \/ Turn(q, "store")
  PROVE  CountInv'
<1>1. /\ Troubles \in Nat /\ ops \in Nat /\ redone \in Nat
      /\ MAX_FIXUP_ROUNDS \in Nat
  BY CountTypes
<1>2. /\ Starts(r)' \subseteq Starts(r) \cup {t}
      /\ k # 0 => Starts(r)' \subseteq Starts(r)
      /\ Owed(r)' \subseteq Owed(r) \cup {t}
      /\ status'[t] # "pending" => Owed(r)' \subseteq Owed(r)
      /\ \A q \in Runs : q # r => Starts(q)' = Starts(q) /\ Owed(q)' = Owed(q)
      /\ \A q \in Runs : Known(q).task # t
  BY MadeSets
<1>3. /\ Starts(r)' \in SUBSET TaskIds /\ Starts(r) \in SUBSET TaskIds
      /\ Owed(r)' \in SUBSET TaskIds /\ Owed(r) \in SUBSET TaskIds
  BY DEF Starts, Owed
<1>4. /\ Cardinality(Starts(r)') \in Nat /\ Cardinality(Starts(r)) \in Nat
      /\ Cardinality(Starts(r)') <= Cardinality(Starts(r)) + 1
      /\ k # 0 => Cardinality(Starts(r)') <= Cardinality(Starts(r))
      /\ Starts(r) = {} => Cardinality(Starts(r)') <= 1
      /\ Cardinality(Owed(r)') \in Nat /\ Cardinality(Owed(r)) \in Nat
      /\ Cardinality(Owed(r)') <= Cardinality(Owed(r)) + 1
      /\ status'[t] # "pending" => Cardinality(Owed(r)') <= Cardinality(Owed(r))
  <2>1. Starts(r) = {} => Cardinality(Starts(r)) = 0
    BY FS_EmptySet
  <2> QED
    BY <1>2, <1>3, <2>1, FewerTasks
<1>5. RoundsOf(Known(r)) \in Nat /\ RoundsOf(Known(r)') \in Nat
  <2>1. Known(r)' \in Run
    BY DEF Known, RunInv, TypeOK
  <2> QED
    BY <2>1, KnownParts, RoundsType
<1>6. /\ Cardinality(Starts(r)) <= 1 + Troubles + RoundsOf(Known(r))
      /\ Cardinality(Starts(r)) <= 1 + Troubles + MAX_FIXUP_ROUNDS
      /\ Cardinality(Owed(r)) <= Troubles + ops + redone + Place(r)
  BY DEF CountInv, Rounds, Places
<1>7. Place(r) \in {0, 1} /\ Place(r)' \in {0, 1}
  BY DEF Place
<1>8. /\ Cardinality(Starts(r)') <= 1 + Troubles + RoundsOf(Known(r)')
      /\ Cardinality(Starts(r)') <= 1 + Troubles + MAX_FIXUP_ROUNDS
  BY <1>1, <1>4, <1>5, <1>6
<1>9. Cardinality(Owed(r)') <= Troubles + ops + redone + Place(r)'
  BY <1>1, <1>4, <1>6, <1>7
<1>10. ASSUME NEW q \in Runs
       PROVE  /\ Cardinality(Starts(q)') <= 1 + Troubles + RoundsOf(Known(q)')
              /\ Cardinality(Starts(q)') <= 1 + Troubles + MAX_FIXUP_ROUNDS
              /\ Cardinality(Owed(q)') <= Troubles + ops + redone + Place(q)'
  <2>1. CASE q = r
    BY <1>8, <1>9, <2>1
  <2>2. CASE q # r
    <3>1. Current(q) # t
      BY <1>2, WorkflowAssumption DEF Current
    <3>2. Current(q)' = Current(q) /\ Current(q) \in TaskIds \cup {0}
      BY <2>2, KnownParts
    <3>3. Place(q)' = Place(q)
      BY <3>1, <3>2 DEF Place
    <3> QED
      BY <1>2, <2>2, <3>3 DEF CountInv, Rounds, Places
  <2> QED
    BY <2>1, <2>2
<1>11. Rounds' /\ Places'
  BY <1>10 DEF Rounds, Places
<1>12. Launches'
  <2> SUFFICES ASSUME NEW q \in Runs, runs'[q].status = "none", NEW u \in TaskIds
               PROVE  made'[u].run # q
    BY DEF Launches
  <2>1. q # r /\ made[u].run # q
    BY DEF CountInv, Launches
  <2> QED
    BY <2>1 DEF RunInv, TypeOK, MadeFor
<1>13. Judged'
  BY DEF CountInv, Judged
<1> QED
  BY <1>11, <1>12, <1>13 DEF CountInv

\* A run is launched.
LEMMA LaunchCounts ==
  ASSUME RunInv, RunInv', CountInv, NEW r \in Runs, runs[r].status = "none",
         NEW t \in TaskIds, IsFresh(t), NEW agent \in Agents,
         made' = [made EXCEPT ![t] = MadeFor(r, agent, 0)],
         NEW st \in {"draft", "running"}, NEW w \in Flows,
         runs' = [runs EXCEPT ![r] = NewRun(st, w, t)],
         \A u \in TaskIds : u # t => status'[u] = status[u],
         UNCHANGED <<advancerVars, late, boundVars>>,
         used \subseteq used'
  PROVE  CountInv'
<1>1. runs \in [Runs -> Run]
  BY DEF RunInv, TypeOK
<1>2. runs'[r] = NewRun(st, w, t) /\ \A q \in Runs : q # r => runs'[q] = runs[q]
  BY <1>1
<1>3. runs'[r].status = st /\ runs'[r].task = t
  BY <1>2 DEF NewRun
<1>4. /\ UNCHANGED <<pc, todo, hold>>
      /\ \A q \in Runs : /\ Turn(q, "read")' = Turn(q, "read")
                         /\ Turn(q, "store")' = Turn(q, "store")
  BY DEF advancerVars, Turn
<1>5. ~Turn(r, "read") /\ ~Turn(r, "store")
  BY DEF RunInv, TodoFits, Turn
<1>6. \A q \in Runs \ {r} : Known(q)' = Known(q) /\ Current(q)' = Current(q)
  BY <1>2, <1>4 DEF Known, Current
<1>7. Current(r)' = t /\ Current(r) = 0
  <2>1. runs[r].task = 0
    BY DEF RunInv, RunsFit, RunFits
  <2> QED
    BY <1>3, <1>4, <1>5, <2>1 DEF Known, Current
<1>8. Place(r) = 0 /\ (status'[t] = "pending" => Place(r)' = 1) /\ Place(r)' \in {0, 1}
  BY <1>7, WorkflowAssumption DEF Place
<1>9. Starts(r) = {}
  BY DEF CountInv, Launches, Starts
<1>10. 0 \in 0..MaxSteps
  BY WorkflowAssumption
<1>11. \A q \in Runs : Turn(q, "read")' \/ Turn(q, "store")' =>
         q # r /\ (Turn(q, "read") \/ Turn(q, "store"))
  BY <1>4, <1>5
<1>12. UNCHANGED <<late, Troubles, ops, redone>>
  BY DEF boundVars, Troubles
<1>13. runs'[r].status # "none" /\ (status'[t] # "pending" => Place(r)' >= Place(r))
  BY <1>3, <1>8
<1> QED
  BY <1>2, <1>6, <1>8, <1>9, <1>10, <1>11, <1>12, <1>13, MadeCounts

\* The follow-up of a judged task is submitted.
LEMMA SubmitCounts ==
  ASSUME RunInv, RunInv', CountInv, NEW r \in Runs, Turn(r, "read"), NEW k \in Nat,
         k < Len(StepsOf(r)), Follows(runs[r], Verdict(r), k), Submit(r, k)
  PROVE  CountInv'
<1> PICK agent : agent = StepsOf(r)[k + 1].agent
  OBVIOUS
<1>1. PICK t \in TaskIds :
        /\ IsFresh(t)
        /\ made' = [made EXCEPT ![t] = MadeFor(r, agent, k)]
        /\ Queue!Submit(t)
        /\ hold' = [Logged(r) EXCEPT !.step = k, !.task = t]
  BY Zenon DEF Submit
<1>2. pc' = "store" /\ UNCHANGED <<flows, runs, drafts, todo, redone, faults>>
  BY DEF Submit
<1>3. /\ runs[r] \in Run /\ runs[r].status = "running" /\ runs[r].task \in TaskIds
      /\ runs[r].step \in Nat
  BY TurnParts
<1> PICK v \in Verdicts : v = Verdict(r)
  BY TurnParts
<1>4. agent \in Agents /\ k \in 0..MaxSteps
  <2>1. runs[r].flow \in Flows
    BY <1>3, RunParts
  <2>2. StepsOf(r) \in Seq(Steps) /\ Len(StepsOf(r)) <= MaxSteps
    BY <2>1, StepLists DEF RunInv, StepsOf
  <2>3. StepsOf(r)[k + 1] \in Steps
    BY <2>2
  <2> QED
    BY <2>2, <2>3, WorkflowAssumption DEF Steps
<1> PICK new : new = Moved(runs[r], v, k, t)
  OBVIOUS
<1>5. hold' = new
  <2>1. hold' = Held(Logged(r), k, t)
    BY <1>1, Zenon DEF Held
  <2> QED
    BY <1>3, <2>1, LoggedIsMoved
<1>6. /\ new.task = t
      /\ new.outputs \in Seq(Output) /\ Len(new.outputs) = Len(runs[r].outputs) + 1
      /\ \A i \in 1..Len(runs[r].outputs) : new.outputs[i] = runs[r].outputs[i]
      /\ new.outputs[Len(new.outputs)] = [task |-> runs[r].task, verdict |-> v]
  <2> PICK run \in Run : run = runs[r]
    BY <1>3
  <2>1. new = Moved(run, v, k, t) /\ run.task \in TaskIds
    BY <1>3
  <2>2. /\ Moved(run, v, k, t).task = t
        /\ Moved(run, v, k, t).outputs \in Seq(Output)
        /\ Len(Moved(run, v, k, t).outputs) = Len(run.outputs) + 1
        /\ \A i \in 1..Len(run.outputs) :
             Moved(run, v, k, t).outputs[i] = run.outputs[i]
        /\ Moved(run, v, k, t).outputs[Len(Moved(run, v, k, t).outputs)]
             = [task |-> run.task, verdict |-> v]
    BY <1>4, <2>1, MovedOutputs
  <2> QED
    BY <2>1, <2>2, Zenon
<1>7. RoundsOf(new)
        = RoundsOf(runs[r]) + IF v = "changes_requested" THEN 1 ELSE 0
  <2>1. new.outputs[Len(new.outputs)].verdict = v
    BY <1>6
  <2> QED
    BY <1>3, <1>6, <2>1, RoundsGrow
<1>8. Turn(r, "store")' /\ ~Turn(r, "store") /\ ~Turn(r, "read")'
  BY <1>2 DEF Turn
<1>9. /\ Known(r) = runs[r] /\ Known(r)' = new
      /\ Current(r) = 0 /\ Current(r)' = t
  BY <1>5, <1>6, <1>8 DEF Known, Current
<1>10. ASSUME NEW q \in Runs \ {r}
       PROVE  /\ ~Turn(q, "read") /\ ~Turn(q, "store")
              /\ ~Turn(q, "read")' /\ ~Turn(q, "store")'
  <2>1. ~Turn(q, "read") /\ ~Turn(q, "store")
    BY OneTurn
  <2>2. ~(q \in todo /\ \A p \in todo : p <= q)
    BY <2>1 DEF Turn
  <2> QED
    BY <1>2, <2>1, <2>2 DEF Turn
<1>11. \A q \in Runs \ {r} :
         runs'[q] = runs[q] /\ Known(q)' = Known(q) /\ Current(q)' = Current(q)
  BY <1>2, <1>10 DEF Known, Current
<1>12. /\ status' = [status EXCEPT ![t] = "pending"]
       /\ used' = used \cup {t} /\ UNCHANGED <<late, ops, crashes>>
  BY <1>1 DEF Queue!Submit
<1>13. status \in [TaskIds -> {"absent", "pending", "done", "failed"}]
  BY DEF RunInv, TypeOK
<1>14. status'[t] = "pending" /\ \A u \in TaskIds : u # t => status'[u] = status[u]
  BY <1>12, <1>13
<1>15. Place(r) = 0 /\ Place(r)' = 1
  BY <1>9, <1>14, WorkflowAssumption DEF Place
<1>16. runs[r].task \in used
  BY DEF CountInv, Judged
<1>17. RoundsOf(Known(r)) \in Nat
  BY KnownParts
<1>18. \/ k # 0 /\ RoundsOf(Known(r)') >= RoundsOf(Known(r))
       \/ /\ RoundsOf(Known(r)) < MAX_FIXUP_ROUNDS
          /\ RoundsOf(Known(r)') = RoundsOf(Known(r)) + 1
  <2>1. \/ v = "changes_requested" /\ RoundsOf(runs[r]) < MAX_FIXUP_ROUNDS
        \/ v # "changes_requested" /\ k = runs[r].step + 1
    BY DEF Follows
  <2> QED
    BY <1>3, <1>7, <1>9, <1>17, <2>1
<1>19. \A q \in Runs : Turn(q, "read")' \/ Turn(q, "store")' => q = r
  BY <1>10
<1>20. runs'[r].task \in used' /\ runs'[r].status # "none"
  BY <1>2, <1>3, <1>12, <1>16
<1>21. UNCHANGED <<late, Troubles, ops, redone>> /\ used \subseteq used'
  BY <1>2, <1>12 DEF Troubles
<1> QED
  BY <1>1, <1>4, <1>11, <1>14, <1>15, <1>18, <1>19, <1>20, <1>21, MadeCounts

-----------------------------------------------------------------------------
(* Steps of the queue and of its callers.                                  *)

LEMMA QueueCounts ==
  ASSUME RunInv, RunInv', CountInv,
         UNCHANGED <<runs, made, advancerVars, crashes, faults>>,
         used \subseteq used',
         \A r \in Runs :
           Cardinality(Owed(r)') <= Troubles + ops' + redone' + Place(r)'
  PROVE  CountInv'
<1>1. \A r \in Runs : /\ Starts(r)' = Starts(r) /\ Known(r)' = Known(r)
                     /\ Turn(r, "read")' = Turn(r, "read")
                     /\ Turn(r, "store")' = Turn(r, "store")
  BY DEF Starts, Known, Turn, advancerVars
<1>5. Troubles' = Troubles
  BY DEF Troubles
<1>2. Rounds'
  BY <1>1, <1>5 DEF CountInv, Rounds
<1>3. Places'
  BY <1>5 DEF Places
<1>4. Launches' /\ Judged'
  BY <1>1 DEF CountInv, Launches, Judged
<1> QED
  BY <1>2, <1>3, <1>4 DEF CountInv

LEMMA SameCurrent ==
  ASSUME UNCHANGED <<runs, made, advancerVars>>, NEW r \in Runs
  PROVE  Current(r)' = Current(r)
BY DEF Current, Known, Turn, advancerVars

LEMMA SettleCounts ==
  ASSUME RunInv, RunInv', CountInv, NEW t \in TaskIds,
         NEW st \in {"done", "failed"}, Report(t, st)
  PROVE  CountInv'
<1>1. PICK x : Queue!Report(t, st, x)
  BY DEF Report
<1>2. /\ status[t] = "pending" \/ t \in late
      /\ status' = [status EXCEPT ![t] = st]
      /\ late' \in {late \cup {t}, late \ {t}}
      /\ UNCHANGED <<used, ops, crashes>>
  BY <1>1 DEF Queue!Report
<1>3. /\ redone' = IF t \in late' THEN redone + 1 ELSE redone
      /\ UNCHANGED <<flows, runs, made, drafts, advancerVars, faults>>
  BY DEF Report
<1>4. status \in [TaskIds -> {"absent", "pending", "done", "failed"}]
  BY DEF RunInv, TypeOK
<1>5. status'[t] = st /\ \A u \in TaskIds : u # t => status'[u] = status[u]
  BY <1>2, <1>4
<1>6. ASSUME NEW r \in Runs
      PROVE  Cardinality(Owed(r)') <= Troubles + ops' + redone' + Place(r)'
  <2>1. /\ Troubles \in Nat /\ ops \in Nat /\ redone \in Nat
        /\ Cardinality(Owed(r)) \in Nat /\ Place(r) \in {0, 1}
        /\ Owed(r) \in SUBSET TaskIds
    BY CountTypes
  <2>2. Cardinality(Owed(r)) <= Troubles + ops + redone + Place(r)
    BY DEF CountInv, Places
  <2>3. Owed(r)' \in SUBSET TaskIds /\ Place(r)' \in {0, 1}
    BY DEF Owed, Place
  <2>4. Owed(r)' \subseteq Owed(r)
    BY <1>2, <1>3, <1>5 DEF Owed
  <2>5. Cardinality(Owed(r)') \in Nat /\ Cardinality(Owed(r)') <= Cardinality(Owed(r))
    BY <2>1, <2>3, <2>4, FewerTasks
  <2>6. CASE made[t].run # r
    <3>1. Current(r) # t \/ Current(r) = 0
      BY <2>6, KnownParts
    <3>2. Current(r)' = Current(r) /\ Current(r) \in TaskIds \cup {0}
      BY <1>3, SameCurrent, KnownParts
    <3>3. Place(r)' = Place(r)
      BY <1>5, <3>1, <3>2 DEF Place
    <3> QED
      BY <1>2, <1>3, <2>1, <2>2, <2>5, <3>3
  <2>7. CASE made[t].run = r /\ t \in late'
    BY <1>2, <1>3, <2>1, <2>2, <2>3, <2>5, <2>7
  <2>8. CASE made[t].run = r /\ t \notin late'
    <3>1. t \in Owed(r)
      BY <1>2, <2>8 DEF Owed
    <3>2. Owed(r)' \subseteq Owed(r) \ {t}
      BY <1>5, <2>4, <2>8 DEF Owed
    <3>3. Cardinality(Owed(r)') <= Cardinality(Owed(r)) - 1
      BY <2>1, <2>3, <3>1, <3>2, FewerTasks
    <3> QED
      BY <1>2, <1>3, <2>1, <2>2, <2>3, <2>5, <2>8, <3>3
  <2> QED
    BY <2>6, <2>7, <2>8
<1> QED
  BY <1>2, <1>3, <1>6, QueueCounts

\* Tasks only become pending: no run loses its place.
LEMMA PlacesStay ==
  ASSUME RunInv, UNCHANGED <<runs, made, advancerVars>>, NEW r \in Runs,
         \A u \in TaskIds : status[u] = "pending" => status'[u] = "pending"
  PROVE  Place(r)' >= Place(r) /\ Place(r) \in {0, 1} /\ Place(r)' \in {0, 1}
<1>1. Current(r)' = Current(r) /\ Current(r) \in TaskIds \cup {0}
  BY SameCurrent, KnownParts
<1>2. CASE Current(r) # 0 /\ status[Current(r)] = "pending"
  BY <1>1, <1>2 DEF Place
<1>3. CASE ~(Current(r) # 0 /\ status[Current(r)] = "pending")
  <2>1. Place(r) = 0
    BY <1>3 DEF Place
  <2> QED
    BY <2>1 DEF Place
<1> QED
  BY <1>2, <1>3

LEMMA PutBackCounts ==
  ASSUME RunInv, RunInv', CountInv, NEW t \in TaskIds,
         Queue!Report(t, "pending", {}),
         UNCHANGED <<flows, runs, made, drafts, advancerVars, redone, faults>>
  PROVE  CountInv'
<1>1. /\ status[t] = "pending" \/ t \in late
      /\ status' = [status EXCEPT ![t] = "pending"]
      /\ late' = late \ {t}
      /\ UNCHANGED <<used, ops, crashes>>
  BY DEF Queue!Report
<1>2. status \in [TaskIds -> {"absent", "pending", "done", "failed"}]
  BY DEF RunInv, TypeOK
<1>3. status'[t] = "pending" /\ \A u \in TaskIds : u # t => status'[u] = status[u]
  BY <1>1, <1>2
<1>4. ASSUME NEW r \in Runs
      PROVE  Cardinality(Owed(r)') <= Troubles + ops' + redone' + Place(r)'
  <2>1. Place(r)' >= Place(r) /\ Place(r) \in {0, 1} /\ Place(r)' \in {0, 1}
    BY <1>3, PlacesStay
  <2>2. Owed(r)' \subseteq Owed(r)
    BY <1>1, <1>3 DEF Owed
  <2>3. Owed(r)' \in SUBSET TaskIds
    BY DEF Owed
  <2>4. /\ Troubles \in Nat /\ ops \in Nat /\ redone \in Nat
        /\ Cardinality(Owed(r)) \in Nat /\ Owed(r) \in SUBSET TaskIds
    BY CountTypes
  <2>5. Cardinality(Owed(r)') \in Nat /\ Cardinality(Owed(r)') <= Cardinality(Owed(r))
    BY <2>2, <2>3, <2>4, FewerTasks
  <2>6. Cardinality(Owed(r)) <= Troubles + ops + redone + Place(r)
    BY DEF CountInv, Places
  <2> QED
    BY <1>1, <2>1, <2>4, <2>5, <2>6
<1> QED
  BY <1>1, <1>4, QueueCounts

LEMMA RetryCounts ==
  ASSUME RunInv, RunInv', CountInv, NEW t \in TaskIds, RetryTask(t)
  PROVE  CountInv'
<1>1. /\ status' = [u \in TaskIds |-> IF u \in {t} THEN "pending" ELSE status[u]]
      /\ late' = late \ {t} /\ ops' = ops + 1 /\ UNCHANGED <<used, crashes>>
      /\ UNCHANGED <<flows, runs, made, drafts, advancerVars, redone, faults>>
  BY DEF RetryTask, Queue!Retry
<1>2. ASSUME NEW r \in Runs
      PROVE  Cardinality(Owed(r)') <= Troubles + ops' + redone' + Place(r)'
  <2>1. Place(r)' >= Place(r) /\ Place(r) \in {0, 1} /\ Place(r)' \in {0, 1}
    BY <1>1, PlacesStay
  <2>2. Owed(r)' \subseteq Owed(r) \cup {t}
    BY <1>1 DEF Owed
  <2>3. Owed(r)' \in SUBSET TaskIds
    BY DEF Owed
  <2>4. /\ Troubles \in Nat /\ ops \in Nat /\ redone \in Nat
        /\ Cardinality(Owed(r)) \in Nat /\ Owed(r) \in SUBSET TaskIds
    BY CountTypes
  <2>5. /\ Cardinality(Owed(r)') \in Nat
        /\ Cardinality(Owed(r)') <= Cardinality(Owed(r)) + 1
    BY <2>2, <2>3, <2>4, FewerTasks
  <2>6. Cardinality(Owed(r)) <= Troubles + ops + redone + Place(r)
    BY DEF CountInv, Places
  <2> QED
    BY <1>1, <2>1, <2>4, <2>5, <2>6
<1> QED
  BY <1>1, <1>2, QueueCounts

LEMMA IngestSubmitsCounts ==
  ASSUME RunInv, RunInv', CountInv, NEW r \in Runs, IngestSubmits(r)
  PROVE  CountInv'
<1> PICK t : t = runs[r].task
  OBVIOUS
<1>1. /\ t \in drafts /\ Queue!Submit(t)
      /\ UNCHANGED <<flows, runs, made, advancerVars, redone, faults>>
  BY DEF IngestSubmits
<1>2. t \in TaskIds /\ t # 0 /\ made[t].run = r
  BY <1>1, WorkflowAssumption DEF RunInv, TypeOK, RunsFit, RunFits
<1>3. /\ t \notin used /\ status' = [status EXCEPT ![t] = "pending"]
      /\ used' = used \cup {t} /\ UNCHANGED <<late, ops, crashes>>
  BY <1>1 DEF Queue!Submit
<1>4. status \in [TaskIds -> {"absent", "pending", "done", "failed"}]
  BY DEF RunInv, TypeOK
<1>5. status'[t] = "pending" /\ \A u \in TaskIds : u # t => status'[u] = status[u]
  BY <1>2, <1>3, <1>4
<1>6. Current(r) = t
  <2>1. ~Turn(r, "read") /\ ~Turn(r, "store")
    BY <1>3 DEF CountInv, Judged
  <2> QED
    BY <2>1 DEF Current, Known
<1>7. Place(r) = 0 /\ Place(r)' = 1
  <2>1. status[t] = "absent"
    BY <1>2, <1>3 DEF RunInv, QueueFits
  <2>2. Current(r)' = t
    BY <1>1, <1>6, SameCurrent
  <2> QED
    BY <1>2, <1>5, <1>6, <2>1, <2>2 DEF Place
<1>8. ASSUME NEW q \in Runs
      PROVE  Cardinality(Owed(q)') <= Troubles + ops' + redone' + Place(q)'
  <2>1. Place(q)' >= Place(q) /\ Place(q) \in {0, 1} /\ Place(q)' \in {0, 1}
    BY <1>1, <1>5, PlacesStay
  <2>2. Owed(q)' \in SUBSET TaskIds
    BY DEF Owed
  <2>3. /\ Troubles \in Nat /\ ops \in Nat /\ redone \in Nat
        /\ Cardinality(Owed(q)) \in Nat /\ Owed(q) \in SUBSET TaskIds
    BY CountTypes
  <2>4. Cardinality(Owed(q)) <= Troubles + ops + redone + Place(q)
    BY DEF CountInv, Places
  <2>5. CASE q = r
    <3>1. Owed(q)' \subseteq Owed(q) \cup {t}
      BY <1>1, <1>3, <1>5 DEF Owed
    <3>2. /\ Cardinality(Owed(q)') \in Nat
          /\ Cardinality(Owed(q)') <= Cardinality(Owed(q)) + 1
      BY <1>2, <2>2, <2>3, <3>1, FewerTasks
    <3> QED
      BY <1>1, <1>3, <1>7, <2>3, <2>4, <2>5, <3>2
  <2>6. CASE q # r
    <3>1. Owed(q)' = Owed(q)
      BY <1>1, <1>2, <1>3, <1>5, <2>6 DEF Owed
    <3> QED
      BY <1>1, <1>3, <2>1, <2>3, <2>4, <3>1
  <2> QED
    BY <2>5, <2>6
<1> QED
  BY <1>1, <1>3, <1>8, QueueCounts

LEMMA InsertRunCounts ==
  ASSUME RunInv, RunInv', CountInv, NEW r \in Runs, InsertRun(r)
  PROVE  CountInv'
<1> PICK row : row = [runs[r] EXCEPT !.status = "running"]
  OBVIOUS
<1>1. /\ runs[r].status = "draft" /\ runs' = [runs EXCEPT ![r].status = "running"]
      /\ UNCHANGED <<made, status, late, used, pc, todo, hold, Troubles, ops, redone>>
  BY DEF InsertRun, taskVars, queueVars, advancerVars, boundVars, Troubles
<1>2. runs[r] \in Run /\ runs \in [Runs -> Run]
  BY DEF RunInv, TypeOK
<1>3. row = [status |-> "running", flow |-> runs[r].flow, step |-> runs[r].step,
             task |-> runs[r].task, outputs |-> runs[r].outputs]
  BY <1>2, RunParts
<1>4. runs'[r] = row /\ \A q \in Runs : q # r => runs'[q] = runs[q]
  BY <1>1, <1>2
<1>5. \A q \in Runs : /\ Turn(q, "read")' = Turn(q, "read")
                     /\ Turn(q, "store")' = Turn(q, "store")
  BY <1>1 DEF Turn
<1>6. ~Turn(r, "read") /\ ~Turn(r, "store")
  BY <1>1 DEF RunInv, TodoFits, Turn
<1>7. ASSUME NEW q \in Runs
      PROVE  /\ runs'[q].status = "none" => runs[q].status = "none"
             /\ RoundsOf(Known(q)') = RoundsOf(Known(q))
             /\ Place(q)' = Place(q)
             /\ Turn(q, "read")' \/ Turn(q, "store")' => runs'[q].task \in used
  <2>1. CASE q # r
    <3>1. Known(q)' = Known(q) /\ runs'[q] = runs[q]
      BY <1>1, <1>4, <1>5, <2>1 DEF Known
    <3>2. Current(q)' = Current(q)
      BY <1>5, <3>1 DEF Current
    <3>3. Place(q)' = Place(q)
      BY <1>1, <3>2 DEF Place
    <3> QED
      BY <1>5, <3>1, <3>3 DEF CountInv, Judged
  <2>2. CASE q = r
    <3>1. Known(r) = runs[r] /\ Known(r)' = row
      BY <1>4, <1>5, <1>6 DEF Known
    <3>2. row.outputs = runs[r].outputs /\ row.task = runs[r].task
          /\ row.status = "running"
      BY <1>3
    <3>3. RoundsOf(row) = RoundsOf(runs[r])
      BY <3>2 DEF RoundsOf
    <3>4. Current(r)' = Current(r)
      BY <1>5, <3>1, <3>2 DEF Current
    <3>5. Place(r)' = Place(r)
      BY <1>1, <3>4 DEF Place
    <3> QED
      BY <1>4, <1>5, <1>6, <2>2, <3>1, <3>2, <3>3, <3>5
  <2> QED
    BY <2>1, <2>2
<1>8. \A q \in Runs : RoundsOf(Known(q)') >= RoundsOf(Known(q))
                      /\ Place(q)' >= Place(q)
  <2>1. \A q \in Runs : RoundsOf(Known(q)) \in Nat /\ Place(q) \in {0, 1}
    BY CountTypes, KnownParts
  <2> QED
    BY <1>7, <2>1
<1>9. Troubles' >= Troubles /\ ops' >= ops /\ redone' >= redone
  BY <1>1, CountTypes
<1> QED
  BY <1>1, <1>7, <1>8, <1>9, QuietCounts

\* Nothing but the workflows and the number of calls changes.
LEMMA RedefineCounts ==
  ASSUME RunInv, RunInv', CountInv,
         UNCHANGED <<runs, taskVars, advancerVars, redone, crashes, faults>>,
         ops' >= ops
  PROVE  CountInv'
<1>1. UNCHANGED <<runs, made, status, late, used, pc, todo, hold, Troubles, redone>>
  BY DEF taskVars, queueVars, advancerVars, Troubles
<1>2. \A q \in Runs : /\ Turn(q, "read")' = Turn(q, "read")
                     /\ Turn(q, "store")' = Turn(q, "store")
                     /\ Known(q)' = Known(q) /\ Current(q)' = Current(q)
                     /\ Place(q)' = Place(q)
  BY <1>1 DEF Turn, Known, Current, Place
<1>3. \A q \in Runs : RoundsOf(Known(q)) \in Nat /\ Place(q) \in {0, 1}
  BY CountTypes, KnownParts
<1>4. ASSUME NEW q \in Runs
      PROVE  /\ runs'[q].status = "none" => runs[q].status = "none"
             /\ RoundsOf(Known(q)') >= RoundsOf(Known(q))
             /\ Place(q)' >= Place(q)
             /\ Turn(q, "read")' \/ Turn(q, "store")' => runs'[q].task \in used
  BY <1>1, <1>2, <1>3 DEF CountInv, Judged
<1>5. Troubles' >= Troubles /\ redone' >= redone
  BY <1>1, CountTypes
<1> QED
  BY <1>1, <1>4, <1>5, QuietCounts

-----------------------------------------------------------------------------
(* Crashes and statements that fail.                                       *)

\* The held row is at most one round ahead.
LEMMA HeldRounds ==
  ASSUME RunInv, NEW r \in Runs
  PROVE  /\ RoundsOf(Known(r)) <= RoundsOf(runs[r]) + 1
         /\ RoundsOf(Known(r)) \in Nat /\ RoundsOf(runs[r]) \in Nat
<1>1. runs[r] \in Run /\ RoundsOf(runs[r]) \in Nat /\ RoundsOf(Known(r)) \in Nat
  BY RoundsType, KnownParts DEF RunInv, TypeOK
<1>2. CASE ~Turn(r, "store")
  <2>1. Known(r) = runs[r]
    BY <1>2 DEF Known
  <2> QED
    BY <1>1, <2>1
<1>3. CASE Turn(r, "store")
  <2>1. PICK v \in Verdicts, k \in 0..MaxSteps, t \in TaskIds :
          hold = Moved(runs[r], v, k, t)
    BY <1>3 DEF RunInv, HoldFits
  <2> PICK run \in Run : run = runs[r]
    BY <1>1
  <2>2. hold = Moved(run, v, k, t) /\ run.task \in TaskIds
    BY <1>3, <2>1, TurnParts
  <2>3. /\ Moved(run, v, k, t).outputs \in Seq(Output)
        /\ Len(Moved(run, v, k, t).outputs) = Len(run.outputs) + 1
        /\ \A i \in 1..Len(run.outputs) :
             Moved(run, v, k, t).outputs[i] = run.outputs[i]
        /\ Moved(run, v, k, t).outputs[Len(Moved(run, v, k, t).outputs)]
             = [task |-> run.task, verdict |-> v]
    BY <2>2, MovedOutputs
  <2>4. /\ hold.outputs \in Seq(Output)
        /\ Len(hold.outputs) = Len(run.outputs) + 1
        /\ \A i \in 1..Len(run.outputs) : hold.outputs[i] = run.outputs[i]
        /\ hold.outputs[Len(hold.outputs)] = [task |-> run.task, verdict |-> v]
    BY <2>2, <2>3, Zenon
  <2>5. hold.outputs[Len(hold.outputs)].verdict = v
    BY <2>4
  <2>6. RoundsOf(hold) = RoundsOf(run) + IF v = "changes_requested" THEN 1 ELSE 0
    BY <2>4, <2>5, RoundsGrow
  <2>7. Known(r) = hold
    BY <1>3 DEF Known
  <2> QED
    BY <1>1, <2>6, <2>7
<1> QED
  BY <1>2, <1>3

\* Each pays for a round that is forgotten and for a place that is lost.
LEMMA TroubleCounts ==
  ASSUME RunInv, RunInv', CountInv, UNCHANGED made, Troubles' = Troubles + 1,
         ops' >= ops, redone' >= redone,
         \A r \in Runs :
           /\ runs'[r].status = "none" => runs[r].status = "none"
           /\ RoundsOf(Known(r)) <= RoundsOf(Known(r)') + 1
           /\ Owed(r)' \subseteq Owed(r)
           /\ Turn(r, "read")' \/ Turn(r, "store")' => runs'[r].task \in used'
  PROVE  CountInv'
<1>1. ASSUME NEW r \in Runs
      PROVE  /\ Cardinality(Starts(r)') <= 1 + Troubles' + RoundsOf(Known(r)')
             /\ Cardinality(Starts(r)') <= 1 + Troubles' + MAX_FIXUP_ROUNDS
             /\ Cardinality(Owed(r)') <= Troubles' + ops' + redone' + Place(r)'
  <2>1. Starts(r)' = Starts(r)
    BY DEF Starts
  <2>2. Owed(r)' \subseteq Owed(r)
    OBVIOUS
  <2>3. /\ Troubles \in Nat /\ ops \in Nat /\ redone \in Nat
        /\ MAX_FIXUP_ROUNDS \in Nat
        /\ Cardinality(Starts(r)) \in Nat /\ Cardinality(Owed(r)) \in Nat
        /\ Owed(r) \in SUBSET TaskIds /\ Place(r) \in {0, 1}
    BY CountTypes
  <2>4. Owed(r)' \in SUBSET TaskIds /\ Place(r)' \in {0, 1}
    BY DEF Owed, Place
  <2>5. Cardinality(Owed(r)') \in Nat /\ Cardinality(Owed(r)') <= Cardinality(Owed(r))
    BY <2>2, <2>3, <2>4, FewerTasks
  <2>6. /\ Cardinality(Starts(r)) <= 1 + Troubles + RoundsOf(Known(r))
        /\ Cardinality(Starts(r)) <= 1 + Troubles + MAX_FIXUP_ROUNDS
        /\ Cardinality(Owed(r)) <= Troubles + ops + redone + Place(r)
    BY DEF CountInv, Rounds, Places
  <2>7. /\ RoundsOf(Known(r)) <= RoundsOf(Known(r)') + 1
        /\ RoundsOf(Known(r)) \in Nat /\ RoundsOf(Known(r)') \in Nat
    <3>1. Known(r)' \in Run
      BY DEF Known, RunInv, TypeOK
    <3> QED
      BY <3>1, KnownParts, RoundsType
  <2>8. ops' \in Nat /\ redone' \in Nat
    BY DEF RunInv, TypeOK
  <2>9. /\ Cardinality(Starts(r)') <= 1 + Troubles' + RoundsOf(Known(r)')
        /\ Cardinality(Starts(r)') <= 1 + Troubles' + MAX_FIXUP_ROUNDS
    BY <2>1, <2>3, <2>6, <2>7
  <2>10. Cardinality(Owed(r)') <= Troubles' + ops' + redone' + Place(r)'
    BY <2>3, <2>4, <2>5, <2>6, <2>8
  <2> QED
    BY <2>9, <2>10
<1>2. Rounds' /\ Places'
  BY <1>1 DEF Rounds, Places
<1>3. Launches' /\ Judged'
  BY DEF CountInv, Launches, Judged
<1> QED
  BY <1>2, <1>3 DEF CountInv

\* The advancer goes on with what it knows ...
LEMMA OutsideTroubleCounts ==
  ASSUME RunInv, RunInv', CountInv, UNCHANGED <<runs, made, used, advancerVars>>,
         Troubles' = Troubles + 1, ops' >= ops, redone' >= redone,
         \A r \in Runs : Owed(r)' \subseteq Owed(r)
  PROVE  CountInv'
<1>1. \A r \in Runs : /\ Known(r)' = Known(r)
                     /\ Turn(r, "read")' = Turn(r, "read")
                     /\ Turn(r, "store")' = Turn(r, "store")
  BY DEF Known, Turn, advancerVars
<1>2. ASSUME NEW r \in Runs
      PROVE  /\ runs'[r].status = "none" => runs[r].status = "none"
             /\ RoundsOf(Known(r)) <= RoundsOf(Known(r)') + 1
             /\ Turn(r, "read")' \/ Turn(r, "store")' => runs'[r].task \in used'
  <2>1. RoundsOf(Known(r)) \in Nat /\ Known(r)' = Known(r)
    BY <1>1, KnownParts
  <2>2. RoundsOf(Known(r)) <= RoundsOf(Known(r)') + 1
    BY <2>1
  <2> QED
    BY <1>1, <2>2 DEF CountInv, Judged
<1> QED
  BY <1>2, TroubleCounts

\* ... or gives up its turn, and forgets the row that was to be stored.
LEMMA TurnLostCounts ==
  ASSUME RunInv, RunInv', CountInv, UNCHANGED made,
         Troubles' = Troubles + 1, ops' >= ops, redone' >= redone,
         \A r \in Runs :
           /\ runs'[r].status = "none" => runs[r].status = "none"
           /\ RoundsOf(runs'[r]) = RoundsOf(runs[r])
           /\ Owed(r)' \subseteq Owed(r)
           /\ ~Turn(r, "read")' /\ ~Turn(r, "store")'
  PROVE  CountInv'
<1>1. ASSUME NEW r \in Runs
      PROVE  RoundsOf(Known(r)) <= RoundsOf(Known(r)') + 1
  <2>1. Known(r)' = runs'[r]
    BY DEF Known
  <2>2. RoundsOf(Known(r)') = RoundsOf(runs[r])
    BY <2>1
  <2> QED
    BY <2>2, HeldRounds
<1> QED
  BY <1>1, TroubleCounts

LEMMA FaultAdds ==
  ASSUME RunInv, RunInv', Fault
  PROVE  Troubles' = Troubles + 1 /\ redone' >= redone
BY DEF Fault, Troubles, RunInv, TypeOK

LEMMA CrashCounts ==
  ASSUME RunInv, RunInv', CountInv, Crash
  PROVE  CountInv'
<1>1. PICK gone : Queue!Outage(gone)
  BY DEF Crash
<1>2. /\ status' = [t \in TaskIds |-> IF t \in gone THEN "absent" ELSE status[t]]
      /\ late' = {} /\ UNCHANGED <<used, ops>>
  BY <1>1 DEF Queue!Outage
<1>3. /\ crashes' = crashes + 1
      /\ runs' = [r \in Runs |-> IF runs[r].status = "draft"
                                 THEN [runs[r] EXCEPT !.status = "lost"]
                                 ELSE runs[r]]
      /\ pc' = "scan" /\ UNCHANGED <<made, redone, faults>>
  BY DEF Crash
<1>5. ASSUME NEW r \in Runs
      PROVE  /\ runs'[r].status = "none" => runs[r].status = "none"
             /\ RoundsOf(runs'[r]) = RoundsOf(runs[r])
  <2>1. CASE runs[r].status # "draft"
    BY <1>3, <2>1
  <2>2. CASE runs[r].status = "draft"
    <3> PICK row : row = [runs[r] EXCEPT !.status = "lost"]
      OBVIOUS
    <3>1. runs'[r] = row
      BY <1>3, <2>2
    <3>2. row = [status |-> "lost", flow |-> runs[r].flow, step |-> runs[r].step,
                 task |-> runs[r].task, outputs |-> runs[r].outputs]
      <4>1. runs[r] \in Run
        BY DEF RunInv, TypeOK
      <4> QED
        BY <4>1, RunParts
    <3> QED
      BY <3>1, <3>2 DEF RoundsOf
  <2> QED
    BY <2>1, <2>2
<1>6. \A r \in Runs : /\ Owed(r)' \subseteq Owed(r)
                     /\ ~Turn(r, "read")' /\ ~Turn(r, "store")'
  BY <1>2, <1>3 DEF Owed, Turn
<1>7. Troubles' = Troubles + 1 /\ ops' >= ops /\ redone' >= redone
  <2>1. crashes \in Nat /\ faults \in Nat /\ ops \in Nat /\ redone \in Nat
    BY WorkflowAssumption DEF RunInv, TypeOK
  <2>2. Troubles' = Troubles + 1
    BY <1>3, <2>1 DEF Troubles
  <2> QED
    BY <1>2, <1>3, <2>1, <2>2
<1> QED
  BY <1>3, <1>5, <1>6, <1>7, TurnLostCounts

LEMMA TurnFailsCounts ==
  ASSUME RunInv, RunInv', CountInv,
         Fault, UNCHANGED <<flows, runs, taskVars, ops>>, pc' \in {"scan", "hung"}
  PROVE  CountInv'
<1>1. UNCHANGED <<runs, made, status, late, ops>>
  BY DEF taskVars, queueVars
<1>2. \A r \in Runs : /\ Owed(r)' \subseteq Owed(r)
                     /\ ~Turn(r, "read")' /\ ~Turn(r, "store")'
  BY <1>1 DEF Owed, Turn
<1>3. Troubles' = Troubles + 1 /\ ops' >= ops /\ redone' >= redone
  BY <1>1, FaultAdds, CountTypes
<1> QED
  BY <1>1, <1>2, <1>3, TurnLostCounts

LEMMA LoseCounts ==
  ASSUME RunInv, RunInv', CountInv, NEW t \in TaskIds, LoseTask(t)
  PROVE  CountInv'
<1>1. /\ status' = [status EXCEPT ![t] = "absent"]
      /\ late' = late \ {t} /\ UNCHANGED used
      /\ ops' = ops \/ ops' = ops + 1
      /\ UNCHANGED <<runs, made, advancerVars>> /\ Fault
  BY DEF LoseTask, Queue!Lose
<1>2. status \in [TaskIds -> {"absent", "pending", "done", "failed"}]
  BY DEF RunInv, TypeOK
<1>3. \A r \in Runs : Owed(r)' \subseteq Owed(r)
  BY <1>1, <1>2 DEF Owed
<1>4. Troubles' = Troubles + 1 /\ ops' >= ops /\ redone' >= redone
  BY <1>1, FaultAdds, CountTypes
<1> QED
  BY <1>1, <1>3, <1>4, OutsideTroubleCounts

\* The submit of an ingested task, or the INSERT of a workflow.
LEMMA OutsideFaultCounts ==
  ASSUME RunInv, RunInv', CountInv, Fault,
         UNCHANGED <<runs, made, queueVars, advancerVars>>, ops' >= ops
  PROVE  CountInv'
<1>1. UNCHANGED <<status, late, used>>
  BY DEF queueVars
<1>2. \A r \in Runs : Owed(r)' \subseteq Owed(r)
  BY <1>1 DEF Owed
<1> QED
  BY <1>1, <1>2, FaultAdds, OutsideTroubleCounts

\* The INSERT of a run, which has no outputs yet.
LEMMA LostRunCounts ==
  ASSUME RunInv, RunInv', CountInv, NEW r \in Runs,
         IngestFails(r) \/ InsertRunFails(r)
  PROVE  CountInv'
<1>1. /\ Fault /\ UNCHANGED <<made, status, late, used, pc, todo, hold, ops>>
      /\ runs[r].status \in {"none", "draft"}
  BY DEF IngestFails, IsNextRun, InsertRunFails, taskVars, queueVars, advancerVars
<1>2. runs \in [Runs -> Run]
  BY DEF RunInv, TypeOK
<1>3. PICK row : /\ runs' = [runs EXCEPT ![r] = row]
                 /\ row.status = "lost" /\ row.outputs = runs[r].outputs
  <2>1. CASE IngestFails(r)
    <3>1. /\ NewRun("lost", r, 0).status = "lost"
          /\ NewRun("lost", r, 0).outputs = << >>
      BY DEF NewRun
    <3>2. runs[r].outputs = << >>
      BY <2>1 DEF IngestFails, IsNextRun, RunInv, RunsFit, RunFits
    <3> QED
      BY <2>1, <3>1, <3>2 DEF IngestFails
  <2>2. CASE InsertRunFails(r)
    <3> PICK row : row = [runs[r] EXCEPT !.status = "lost"]
      OBVIOUS
    <3>1. runs' = [runs EXCEPT ![r] = row]
      BY <2>2 DEF InsertRunFails
    <3>2. row = [status |-> "lost", flow |-> runs[r].flow, step |-> runs[r].step,
                 task |-> runs[r].task, outputs |-> runs[r].outputs]
      BY <1>2, RunParts
    <3> QED
      BY <3>1, <3>2
  <2> QED
    BY <2>1, <2>2
<1>4. runs'[r] = row /\ \A q \in Runs : q # r => runs'[q] = runs[q]
  BY <1>2, <1>3
<1>5. \A q \in Runs : /\ Turn(q, "read")' = Turn(q, "read")
                     /\ Turn(q, "store")' = Turn(q, "store")
                     /\ Owed(q)' \subseteq Owed(q)
  BY <1>1 DEF Turn, Owed
<1>6. ~Turn(r, "read") /\ ~Turn(r, "store")
  BY <1>1 DEF RunInv, TodoFits, Turn
<1>7. ASSUME NEW q \in Runs
      PROVE  /\ runs'[q].status = "none" => runs[q].status = "none"
             /\ RoundsOf(Known(q)) <= RoundsOf(Known(q)') + 1
             /\ Turn(q, "read")' \/ Turn(q, "store")' => runs'[q].task \in used'
  <2>1. CASE q # r
    <3>1. Known(q)' = Known(q) /\ runs'[q] = runs[q]
      BY <1>1, <1>4, <1>5, <2>1 DEF Known
    <3>2. RoundsOf(Known(q)) <= RoundsOf(Known(q)') + 1
      BY <3>1, KnownParts
    <3> QED
      BY <1>1, <1>5, <3>1, <3>2 DEF CountInv, Judged
  <2>2. CASE q = r
    <3>1. Known(r) = runs[r] /\ Known(r)' = row
      BY <1>4, <1>5, <1>6 DEF Known
    <3>2. RoundsOf(row) = RoundsOf(runs[r])
      BY <1>3 DEF RoundsOf
    <3>3. RoundsOf(Known(r)) <= RoundsOf(Known(r)') + 1
      BY <3>1, <3>2, KnownParts
    <3> QED
      BY <1>3, <1>4, <1>5, <1>6, <2>2, <3>3
  <2> QED
    BY <2>1, <2>2
<1>8. Troubles' = Troubles + 1 /\ ops' >= ops /\ redone' >= redone
  BY <1>1, FaultAdds, CountTypes
<1> QED
  BY <1>1, <1>5, <1>7, <1>8, TroubleCounts

-----------------------------------------------------------------------------
(* Runs that begin.                                                        *)

LEMMA IngestCounts ==
  ASSUME RunInv, RunInv', CountInv, NEW r \in Runs, Ingest(r)
  PROVE  CountInv'
<1>1. PICK t \in TaskIds :
        /\ IsFresh(t)
        /\ made' = [made EXCEPT ![t] = MadeFor(r, "coder", 0)]
        /\ runs' = [runs EXCEPT ![r] = NewRun("running", r, t)]
  BY Zenon DEF Ingest
<1>2. /\ UNCHANGED <<queueVars, advancerVars, boundVars>>
      /\ runs[r].status = "none"
  BY DEF Ingest, IsNextRun
<1>3. r \in Flows /\ "coder" \in Agents
  BY DEF Flows, Agents
<1>4. UNCHANGED <<status, late, used>>
  BY <1>2 DEF queueVars
<1> QED
  BY <1>1, <1>2, <1>3, <1>4, LaunchCounts

LEMMA RunWorkflowCounts ==
  ASSUME RunInv, RunInv', CountInv, NEW r \in Runs, NEW w \in Flows,
         RunWorkflow(r, w)
  PROVE  CountInv'
<1> PICK agent : agent = flows[w].steps[1].agent
  OBVIOUS
<1>1. PICK t \in TaskIds :
        /\ IsFresh(t)
        /\ made' = [made EXCEPT ![t] = MadeFor(r, agent, 0)]
        /\ Queue!Submit(t)
        /\ runs' = [runs EXCEPT ![r] = NewRun("draft", w, t)]
  BY Zenon DEF RunWorkflow
<1>2. /\ UNCHANGED <<advancerVars, redone, faults>>
      /\ runs[r].status = "none" /\ flows[w].steps # << >>
  BY DEF RunWorkflow, IsNextRun
<1>3. agent \in Agents
  <2>1. flows[w].steps \in Seq(Steps)
    BY StepLists DEF RunInv
  <2>2. flows[w].steps[1] \in Steps
    BY <1>2, <2>1
  <2> QED
    BY <2>2 DEF Steps
<1>4. /\ status' = [status EXCEPT ![t] = "pending"]
      /\ used' = used \cup {t} /\ UNCHANGED <<late, ops, crashes>>
  BY <1>1 DEF Queue!Submit
<1>5. \A u \in TaskIds : u # t => status'[u] = status[u]
  BY <1>4 DEF RunInv, TypeOK
<1>6. UNCHANGED boundVars /\ used \subseteq used'
  BY <1>2, <1>4 DEF boundVars
<1> QED
  BY <1>1, <1>2, <1>3, <1>4, <1>5, <1>6, LaunchCounts

-----------------------------------------------------------------------------
(* The invariant, and the bounds that follow from it.                      *)

LEMMA TurnCounts ==
  ASSUME RunInv, RunInv', CountInv, NEW r \in Runs,
         \/ NotSettled(r) \/ TaskFailed(r) \/ TaskDone(r)
         \/ Blocked(r) \/ Panic(r) \/ BudgetSpent(r)
         \/ Rework(r) \/ ReworkBails(r)
         \/ FlowDeleted(r) \/ Finish(r) \/ NextStep(r) \/ StoreRun(r)
         \/ TurnFails(r)
  PROVE  CountInv'
<1>1. CASE NotSettled(r)
  BY <1>1, IdleCounts DEF NotSettled
<1>2. CASE TaskFailed(r)
  BY <1>2, FailedCounts
<1>3. CASE TaskDone(r)
  <2>1. /\ Turn(r, "scan") /\ TaskStatus(r) = "done" /\ pc' = "read"
        /\ UNCHANGED <<runs, made, status, late, used, todo, boundVars>>
    BY <1>3 DEF TaskDone, taskVars, queueVars
  <2>2. pc = "scan" /\ pc' # "store"
    BY <2>1 DEF Turn
  <2>3. runs[r].task \in TaskIds /\ status[runs[r].task] = "done"
    BY <2>1, TurnParts, WorkflowAssumption DEF TaskStatus
  <2>4. ASSUME NEW q \in Runs, Turn(q, "read")'
        PROVE  q = r
    <3>1. q \in todo /\ \A p \in todo : p <= q
      BY <2>1, <2>4 DEF Turn
    <3>2. Turn(q, "scan")
      BY <2>2, <3>1 DEF Turn
    <3> QED
      BY <2>1, <3>2, OneTurn
  <2> QED
    BY <2>1, <2>2, <2>3, <2>4, LookCounts
<1>4. ASSUME Turn(r, "read"), TurnOver(r), Store(r, Failed(Logged(r))),
             UNCHANGED <<flows, taskVars, boundVars>>
      PROVE  CountInv'
  <2>1. runs[r] \in Run
    BY <1>4, TurnParts
  <2>2. runs[r].step \in 0..MaxSteps
    BY <2>1, RunParts
  <2>3. runs' = [runs EXCEPT ![r] =
                   Ended(runs[r], Verdict(r), runs[r].step, "failed")]
    BY <1>4, <2>1, LoggedIsMoved DEF Store
  <2> QED
    BY <1>4, <2>2, <2>3, EndedCounts
<1>5. CASE Blocked(r)
  BY <1>4, <1>5 DEF Blocked
<1>6. CASE Panic(r)
  <2>1. /\ pc = "read" /\ pc' = "dead"
        /\ UNCHANGED <<runs, made, status, late, used, boundVars>>
    BY <1>6 DEF Panic, Turn, taskVars, queueVars
  <2>2. \A q \in Runs : ~Turn(q, "read")'
    BY <2>1 DEF Turn
  <2> QED
    BY <2>1, <2>2, LookCounts
<1>7. CASE BudgetSpent(r)
  BY <1>4, <1>7 DEF BudgetSpent
<1>8. ASSUME NEW k, Turn(r, "read"), SubmitFails(r, k)
      PROVE  CountInv'
  BY <1>8, IdleCounts DEF SubmitFails
<1>9. CASE Rework(r)
  <2>1. /\ Turn(r, "read") /\ Verdict(r) = "changes_requested"
        /\ RoundsOf(runs[r]) < MAX_FIXUP_ROUNDS
        /\ StepsOf(r) # << >>
        /\ Submit(r, 0) \/ SubmitFails(r, 0)
    BY <1>9 DEF Rework, BudgetLeft, FixupRoundsUsed, RoundsOf
  <2>2. Follows(runs[r], Verdict(r), 0)
    BY <2>1 DEF Follows
  <2>3. 0 < Len(StepsOf(r))
    <3>1. runs[r].flow \in Flows
      BY <2>1, TurnParts, RunParts
    <3>2. StepsOf(r) \in Seq(Steps)
      BY <3>1, StepLists DEF RunInv, StepsOf
    <3> QED
      BY <2>1, <3>2
  <2> QED
    BY <1>8, <2>1, <2>2, <2>3, SubmitCounts
<1>10. CASE ReworkBails(r)
  BY <1>10, IdleCounts DEF ReworkBails
<1>11. CASE FlowDeleted(r)
  BY <1>4, <1>11 DEF FlowDeleted, Passed
<1>12. CASE Finish(r)
  <2>1. /\ Turn(r, "read") /\ TurnOver(r)
        /\ runs' = [runs EXCEPT ![r] = Finished(Logged(r), runs[r].step + 1)]
        /\ UNCHANGED <<taskVars, boundVars>>
    BY <1>12, Zenon DEF Finish, Passed, Store, Finished
  <2>2. runs[r] \in Run /\ runs[r].step + 1 \in 0..MaxSteps
    BY <2>1, TurnParts, WorkflowAssumption
  <2>3. runs' = [runs EXCEPT ![r] =
                   Ended(runs[r], Verdict(r), runs[r].step + 1, "done")]
    BY <2>1, <2>2, LoggedIsMoved
  <2> QED
    BY <2>1, <2>2, <2>3, EndedCounts
<1>13. CASE NextStep(r)
  <2>1. /\ Turn(r, "read") /\ Verdict(r) \in {"none", "approved"}
        /\ runs[r].step + 1 < Len(StepsOf(r))
        /\ Submit(r, runs[r].step + 1) \/ SubmitFails(r, runs[r].step + 1)
    BY <1>13 DEF NextStep, Passed
  <2>2. Follows(runs[r], Verdict(r), runs[r].step + 1)
    BY <2>1 DEF Follows
  <2>3. runs[r].step + 1 \in Nat
    BY <2>1, TurnParts
  <2> QED
    BY <1>8, <2>1, <2>2, <2>3, SubmitCounts
<1>14. CASE StoreRun(r)
  BY <1>14, StoredCounts
<1>15. CASE TurnFails(r)
  BY <1>15, TurnFailsCounts DEF TurnFails, TurnOver
<1> QED
  BY <1>1, <1>2, <1>3, <1>5, <1>6, <1>7, <1>9, <1>10, <1>11, <1>12, <1>13, <1>14,
     <1>15

LEMMA CountInit == Init => CountInv
<1> SUFFICES ASSUME Init PROVE CountInv
  OBVIOUS
<1>1. RunInv
  BY RunInvInit
<1>2. \A t \in TaskIds : made[t].run = 0 /\ status[t] = "absent" /\ t \notin late
  BY DEF Init, Queue!Init, MadeFor
<1>3. \A r \in Runs : r # 0
  BY WorkflowAssumption
<1>4. ASSUME NEW r \in Runs
      PROVE  Cardinality(Starts(r)) = 0 /\ Cardinality(Owed(r)) = 0
  <2>1. Starts(r) = {} /\ Owed(r) = {}
    BY <1>2, <1>3 DEF Starts, Owed
  <2> QED
    BY <2>1, FS_EmptySet
<1>5. Rounds /\ Places
  BY <1>1, <1>4, CountTypes, KnownParts DEF Rounds, Places
<1>6. Launches
  BY <1>2, <1>3 DEF Launches
<1>7. Judged
  BY DEF Init, Judged, Turn
<1> QED
  BY <1>5, <1>6, <1>7 DEF CountInv

LEMMA CountStep == RunInv /\ RunInv' /\ CountInv /\ [Next]_vars => CountInv'
<1> SUFFICES ASSUME RunInv, RunInv', CountInv, [Next]_vars PROVE CountInv'
  OBVIOUS
<1>1. ASSUME NEW r \in Runs,
             \/ Ingest(r) \/ IngestSubmits(r) \/ InsertRun(r)
             \/ \E w \in Flows : RunWorkflow(r, w)
             \/ IngestFails(r) \/ IngestSubmitFails(r) \/ InsertRunFails(r)
      PROVE  CountInv'
  <2>1. CASE IngestSubmitFails(r)
    <3>1. /\ Fault /\ UNCHANGED <<runs, made, queueVars, advancerVars, ops>>
          /\ ops' >= ops
      BY <2>1, CountTypes DEF IngestSubmitFails
    <3> QED
      BY <3>1, OutsideFaultCounts
  <2> QED
    BY <1>1, <2>1, IngestCounts, IngestSubmitsCounts, InsertRunCounts,
       RunWorkflowCounts, LostRunCounts
<1>2. ASSUME NEW t \in TaskIds,
             Settle(t) \/ ReportLate(t) \/ RetryTask(t) \/ LoseTask(t)
      PROVE  CountInv'
  BY <1>2, SettleCounts, PutBackCounts, RetryCounts, LoseCounts
     DEF Settle, ReportLate
<1>3. ASSUME NEW w \in Flows,
             CreateWorkflow(w) \/ CreateFails(w) \/ DeleteWorkflow(w)
      PROVE  CountInv'
  <2>1. CASE CreateWorkflow(w) \/ DeleteWorkflow(w)
    <3>1. /\ UNCHANGED <<runs, taskVars, advancerVars, redone, crashes, faults>>
          /\ ops' = ops + 1
      BY <2>1 DEF CreateWorkflow, DeleteWorkflow
    <3>2. ops' >= ops
      BY <3>1, CountTypes
    <3> QED
      BY <3>1, <3>2, RedefineCounts
  <2>2. CASE CreateFails(w)
    <3>1. /\ Fault /\ UNCHANGED <<runs, made, queueVars, advancerVars>>
          /\ ops' >= ops
      BY <2>2, CountTypes DEF CreateFails, taskVars
    <3> QED
      BY <3>1, OutsideFaultCounts
  <2> QED
    BY <1>3, <2>1, <2>2
<1>4. CASE Crash
  BY <1>4, CrashCounts
<1>5. CASE ListRuns
  <2>1. /\ pc = "scan" /\ pc' = "scan"
        /\ UNCHANGED <<runs, made, status, late, used, boundVars>>
    BY <1>5 DEF ListRuns, taskVars, queueVars
  <2>2. \A q \in Runs : ~Turn(q, "read")'
    BY <2>1 DEF Turn
  <2> QED
    BY <2>1, <2>2, LookCounts
<1>6. ASSUME NEW r \in Runs,
             \/ NotSettled(r) \/ TaskFailed(r) \/ TaskDone(r)
             \/ Blocked(r) \/ Panic(r) \/ BudgetSpent(r)
             \/ Rework(r) \/ ReworkBails(r)
             \/ FlowDeleted(r) \/ Finish(r) \/ NextStep(r) \/ StoreRun(r)
             \/ TurnFails(r)
      PROVE  CountInv'
  BY <1>6, TurnCounts
<1>8. CASE Hangs
  BY <1>8, TurnFailsCounts DEF Hangs
<1>7. CASE UNCHANGED vars
  <2>1. /\ UNCHANGED <<runs, taskVars, advancerVars, redone, crashes, faults>>
        /\ ops' >= ops
    BY <1>7, CountTypes DEF vars, boundVars
  <2> QED
    BY <2>1, RedefineCounts
<1> QED
  BY <1>1, <1>2, <1>3, <1>4, <1>5, <1>6, <1>7, <1>8 DEF Next, Advancer

LEMMA CountsHold == Spec => [](RunInv /\ CountInv)
<1>1. Init => RunInv /\ CountInv
  BY RunInvInit, CountInit
<1>2. RunInv /\ CountInv /\ [Next]_vars => (RunInv /\ CountInv)'
  BY RunInvStep, CountStep
<1> QED
  BY <1>1, <1>2, PTL DEF Spec

(* workflow_runner.rs:9: however the reviewer answers, and whatever callers,
   retries and late reports do, step 0 is submitted once and then once per
   round; only a crash or a failing statement (update_run of
   workflow_runner.rs:224 most of all) between the submit of a round and the
   update of its run submits it again. *)
THEOREM CoderBudget == Spec => []FixupBudget
<1>1. RunInv /\ CountInv => FixupBudget
  <2> SUFFICES ASSUME RunInv, CountInv, NEW r \in Runs
               PROVE  Cardinality({t \in TaskIds :
                        made[t].run = r /\ made[t].step = 0})
                          <= 1 + MAX_FIXUP_ROUNDS + crashes + faults
    BY DEF FixupBudget
  <2>1. Cardinality(Starts(r)) <= 1 + (crashes + faults) + MAX_FIXUP_ROUNDS
    BY DEF CountInv, Rounds, Troubles
  <2>2. /\ crashes \in Nat /\ faults \in Nat /\ MAX_FIXUP_ROUNDS \in Nat
        /\ Cardinality(Starts(r)) \in Nat
    BY CountTypes DEF RunInv, TypeOK
  <2>3. Cardinality(Starts(r)) <= 1 + MAX_FIXUP_ROUNDS + crashes + faults
    BY <2>1, <2>2
  <2> QED
    BY <2>3 DEF Starts
<1> QED
  BY <1>1, CountsHold, PTL

(* workflow_runner.rs:209 to 226 and 288: a run has one task in the queue, and
   one more only for each crash, failing statement, operator's call or late
   report. *)
THEOREM OneTaskPerRun == Spec => []OneStepAtATime
<1>1. RunInv /\ CountInv => OneStepAtATime
  <2> SUFFICES ASSUME RunInv, CountInv, NEW r \in Runs
               PROVE  Cardinality(Unsettled(r))
                        <= 1 + crashes + faults + ops + redone
    BY DEF OneStepAtATime
  <2>1. Cardinality(Owed(r)) <= (crashes + faults) + ops + redone + Place(r)
    BY DEF CountInv, Places, Troubles
  <2>2. /\ ops \in Nat /\ redone \in Nat
        /\ Place(r) \in {0, 1} /\ Owed(r) \in SUBSET TaskIds
    BY CountTypes
  <2>5. crashes \in Nat /\ faults \in Nat
    BY DEF RunInv, TypeOK
  <2>3. Unsettled(r) \in SUBSET TaskIds /\ Unsettled(r) \subseteq Owed(r)
    BY DEF Unsettled, Owed
  <2>4. /\ Cardinality(Unsettled(r)) <= Cardinality(Owed(r))
        /\ Cardinality(Unsettled(r)) \in Nat /\ Cardinality(Owed(r)) \in Nat
    BY <2>2, <2>3, FewerTasks
  <2> QED
    BY <2>1, <2>2, <2>4, <2>5
<1> QED
  BY <1>1, CountsHold, PTL
=============================================================================
