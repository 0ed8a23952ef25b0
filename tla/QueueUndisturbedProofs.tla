------------------------ MODULE QueueUndisturbedProofs ------------------------
(***************************************************************************)
(* Theorems about TaskQueue that rest on its clocks: why the reaper locks  *)
(* itself out, and what the queue promises as long as nobody disturbs it.  *)
(***************************************************************************)
EXTENDS TaskQueueProofs

-----------------------------------------------------------------------------
(* Clocks.  While the lake is free no turn is older in its row than in any  *)
(* of its dispatches, and no dispatch outlives its client's patience.       *)

RowsFollow ==
  \A t \in Tasks, s \in Slots :
    /\ rows[t].status = "running" /\ flights[s].task = t
    /\ flights[s].pc \in {"turn", "saved"}
    => rows[t].age <= flights[s].age

InTime == \A s \in Busy : flights[s].age <= ClientLimit[Kind[flights[s].task]]

Explained(t) == Kind[t] = "openfang" \/ t \in orphaned \/ Unwritten(t)

Resettable == {t \in Tasks : rows[t].status \in {"running", "failed"}}

ClockInv == /\ ~up => lock = "free" /\ batch = {} /\ crashes > 0
            /\ lock = "free" => RowsFollow /\ InTime
            /\ lock = "reaper" => \E t \in Stuck : Explained(t)
            /\ lock = "retry" => ops > 0 /\ Resettable # {}

(* The clients of nemotron and http-forward give up first. *)
LEMMA DirectIsPatient ==
  ASSUME NEW t \in Tasks
  PROVE  /\ Kind[t] \in Kinds /\ ClientLimit[Kind[t]] \in Nat \ {0}
         /\ Kind[t] # "openfang" => ClientLimit[Kind[t]] < StuckTimeout
<1>1. Kind[t] \in Kinds
  BY DEF Kind, Path, Kinds
<1>2. ClientLimit[Kind[t]] \in Nat \ {0}
  BY <1>1, QueueAssumption
<1>3. Kind[t] # "openfang" => ClientLimit[Kind[t]] < StuckTimeout
  BY <1>1, ClientAssumption DEF Kinds
<1> QED
  BY <1>1, <1>2, <1>3

(* While the lake is free, what is stuck is explained. *)
LEMMA StuckIsExplained ==
  ASSUME TypeOK, RunningIsOwned, RowsFollow, InTime, NEW t \in Stuck
  PROVE  Explained(t)
<1>1. t \in Tasks /\ rows[t].status = "running" /\ rows[t].age >= StuckTimeout
  BY DEF Stuck
<1>2. CASE t \in orphaned \/ Unwritten(t)
  BY <1>2 DEF Explained
<1>3. CASE InTurn(t) /\ Kind[t] # "openfang"
  <2>1. PICK s \in Slots : flights[s].task = t /\ flights[s].pc \in {"turn", "saved"}
    BY <1>3 DEF InTurn
  <2>2. rows[t].age <= flights[s].age /\ flights[s].age <= ClientLimit[Kind[t]]
    BY <1>1, <2>1 DEF RowsFollow, InTime, Busy
  <2>3. rows[t].age \in Int /\ flights[s].age \in Int
    <3>1. rows[t] \in Row /\ flights[s] \in Flight
      BY <1>1 DEF TypeOK
    <3> QED
      BY <3>1, QueueAssumption DEF Row, Flight
  <2> QED
    BY <1>1, <1>3, <2>2, <2>3, DirectIsPatient, QueueAssumption
<1> QED
  BY <1>1, <1>2, <1>3 DEF RunningIsOwned, Explained

(* What one dispatch step does to the ages. *)
LEMMA DispatchAges ==
  ASSUME TypeOK, NEW s \in Slots, Dispatch(s), NEW t, t = flights[s].task
  PROVE  /\ s \in Busy' => flights'[s].age = flights[s].age
         /\ rows'[t].status = "running" =>
              \/ rows'[t].age = 0
              \/ (rows'[t] = rows[t] /\ ~At(s, "starting"))
              \/ /\ rows[t].status = "running" /\ rows'[t].age = rows[t].age
                 /\ At(s, "turn")
              \/ (s \notin Busy' /\ rows'[t] = rows[t])
         /\ lock' = lock
         /\ lock # "free" => UNCHANGED rows
<1>1. s \in Busy /\ t \in Tasks /\ rows[t] \in Row /\ flights[s] \in Flight
  BY DispatchFrame
<1>2. flights \in [Slots -> Flight] /\ rows \in [Tasks -> Row]
  BY DEF TypeOK
<1>3. lock' = lock /\ (lock # "free" => UNCHANGED rows)
  BY DEF Dispatch, Outcome, StartTurn, ResolveFails, SaveResponse, ForwardAnswered,
         TurnFails, Panics, HardTimeoutFires, CompleteEnvelope, InsertBilling,
         Slip, StartFails, SaveFails, CompletionFails, BillingFails, FailureFails,
         LakeFree, lakeVars
<1>4. ASSUME NEW pc \in PCs, GoTo(s, pc)
      PROVE  flights'[s].age = flights[s].age
  <2>1. flights'[s] = [flights[s] EXCEPT !.pc = pc]
    BY <1>2, <1>4 DEF GoTo
  <2> QED
    BY <1>1, <2>1 DEF Flight
<1>5. ASSUME flights' = [flights EXCEPT ![s] = Idle]
      PROVE  s \notin Busy'
  BY <1>2, <1>5 DEF Idle, Busy
<1>6. ASSUME NEW row, Update(t, row)
      PROVE  rows'[t] = row \/ (rows'[t] = rows[t] /\ rows[t].status = "absent")
  BY <1>1, <1>2, <1>6 DEF Update, Exists
<1>7. /\ [rows[t] EXCEPT !.status = "running", !.age = 0].age = 0
      /\ [rows[t] EXCEPT !.response = TRUE].status = rows[t].status
      /\ [rows[t] EXCEPT !.response = TRUE].age = rows[t].age
      /\ [rows[t] EXCEPT !.status = "done", !.age = 0].status = "done"
      /\ [rows[t] EXCEPT !.status = "failed", !.age = 0].status = "failed"
  BY <1>1 DEF Row
<1>8. CASE StartTurn(s)
  <2> DEFINE row == [rows[t] EXCEPT !.status = "running", !.age = 0]
  <2>1. Update(t, row) /\ GoTo(s, "turn")
    BY <1>8 DEF StartTurn
  <2>2. row.age = 0
    BY <1>7
  <2> HIDE DEF row
  <2> QED
    BY <1>3, <1>4, <1>6, <2>1, <2>2 DEF PCs
<1>9. CASE SaveResponse(s)
  <2> DEFINE row == [rows[t] EXCEPT !.response = TRUE]
  <2>1. Update(t, row) /\ GoTo(s, "saved") /\ At(s, "turn")
    BY <1>9 DEF SaveResponse
  <2>2. row.status = rows[t].status /\ row.age = rows[t].age
    BY <1>7
  <2> HIDE DEF row
  <2> QED
    BY <1>3, <1>4, <1>6, <2>1, <2>2 DEF PCs
<1>10. CASE CompleteEnvelope(s)
  <2> DEFINE row == [rows[t] EXCEPT !.status = "done", !.age = 0]
  <2>1. Update(t, row) /\ GoTo(s, "completed")
    BY <1>10 DEF CompleteEnvelope
  <2>2. row.status = "done"
    BY <1>7
  <2> HIDE DEF row
  <2> QED
    BY <1>3, <1>4, <1>6, <2>1, <2>2 DEF PCs
<1>11. CASE ForwardAnswered(s)
  <2> DEFINE row == [rows[t] EXCEPT !.status = "done", !.age = 0]
  <2>1. Update(t, row) /\ Release(s)
    BY <1>11 DEF ForwardAnswered
  <2>2. row.status = "done"
    BY <1>7
  <2> HIDE DEF row
  <2> QED
    BY <1>3, <1>5, <1>6, <2>1, <2>2 DEF Release
<1>12. CASE \E text \in Texts : TurnFails(s, text)
  <2>1. PICK text \in Texts : TurnFails(s, text)
    BY <1>12
  <2> DEFINE after == AfterFailure(rows[t], IsTransient(text))
  <2>2. after.status \in {"pending", "failed"}
    BY <1>7 DEF AfterFailure, Bare
  <2>3. Update(t, after) /\ Release(s)
    BY <2>1 DEF TurnFails
  <2> HIDE DEF after
  <2> QED
    BY <1>3, <1>5, <1>6, <2>2, <2>3 DEF Release
<1>13. CASE ResolveFails(s) \/ Panics(s) \/ HardTimeoutFires(s) \/ InsertBilling(s)
  <2>1. UNCHANGED rows /\ flights' = [flights EXCEPT ![s] = Idle]
    BY <1>13 DEF ResolveFails, Panics, HardTimeoutFires, InsertBilling, Release, lakeVars
  <2> QED
    BY <1>3, <1>5, <2>1
<1>14. CASE StartFails(s) \/ CompletionFails(s) \/ BillingFails(s)
  <2>1. UNCHANGED rows /\ flights' = [flights EXCEPT ![s] = Idle]
    BY <1>14 DEF StartFails, CompletionFails, BillingFails, Release, lakeVars
  <2> QED
    BY <1>3, <1>5, <2>1
<1>15. CASE SaveFails(s)
  <2>1. UNCHANGED rows /\ GoTo(s, "saved") /\ At(s, "turn")
    BY <1>15 DEF SaveFails, lakeVars
  <2> QED
    BY <1>3, <1>4, <2>1 DEF PCs, At
<1>16. CASE \E text \in Texts : FailureFails(s, text)
  <2>1. PICK text \in Texts : FailureFails(s, text)
    BY <1>16
  <2>2. s \notin Busy'
    BY <1>5, <2>1 DEF FailureFails, Release
  <2>3. rows'[t].status = "running" => rows'[t] = rows[t]
    <3>1. CASE UNCHANGED rows
      BY <3>1
    <3>2. CASE rows' = [rows EXCEPT ![t] = Bare("absent")]
      BY <1>1, <1>2, <3>2, BareColumns
    <3>3. CASE Update(t, AfterFailure([rows[t] EXCEPT !.retry = 0], TRUE))
      <4> DEFINE after == AfterFailure([rows[t] EXCEPT !.retry = 0], TRUE)
      <4>1. [rows[t] EXCEPT !.retry = 0] \in Row
        <5>1. 0 \in 0..MaxRetries
          BY QueueAssumption
        <5> QED
          BY <1>1, <5>1, ColumnsAreTyped
      <4>2. after.status \in {"pending", "failed"}
        BY <4>1 DEF AfterFailure, Bare, Row
      <4> HIDE DEF after
      <4>3. Update(t, after)
        BY <3>3 DEF after
      <4> QED
        BY <1>6, <4>2, <4>3
    <3> QED
      BY <2>1, <3>1, <3>2, <3>3 DEF FailureFails
  <2> QED
    BY <1>3, <2>2, <2>3
<1> QED
  BY <1>8, <1>9, <1>10, <1>11, <1>12, <1>13, <1>14, <1>15, <1>16
     DEF Dispatch, Outcome, Slip

(* And the clock itself. *)
LEMMA TickAges ==
  ASSUME TypeOK, Tick
  PROVE  /\ \A t \in Tasks : rows[t].status = "running" =>
              rows'[t].age = LeastOf(rows[t].age + 1, PurgeAge)
         /\ \A s \in Slots : flights'[s].age =
              IF flights[s].pc \in {"starting", "turn"}
              THEN LeastOf(flights[s].age + 1, HardTimeout) ELSE flights[s].age
<1>1. ASSUME NEW t \in Tasks, rows[t].status = "running"
      PROVE  rows'[t].age = LeastOf(rows[t].age + 1, PurgeAge)
  <2>1. rows[t] \in Row
    BY DEF TypeOK
  <2>2. \A a, w : [rows[t] EXCEPT !.age = a, !.wait = w].age = a
    BY <2>1 DEF Row
  <2>3. \E w : rows'[t] = [rows[t] EXCEPT !.age = LeastOf(rows[t].age + 1, PurgeAge),
                                         !.wait = w]
    BY <1>1 DEF Tick
  <2> QED
    BY <2>2, <2>3
<1>2. ASSUME NEW s \in Slots
      PROVE  flights'[s].age = IF flights[s].pc \in {"starting", "turn"}
                               THEN LeastOf(flights[s].age + 1, HardTimeout)
                               ELSE flights[s].age
  <2> DEFINE a == IF flights[s].pc \in {"starting", "turn"}
                  THEN LeastOf(flights[s].age + 1, HardTimeout) ELSE flights[s].age
  <2>1. flights[s] \in Flight
    BY DEF TypeOK
  <2>2. flights'[s] = [flights[s] EXCEPT !.age = a]
    BY DEF Tick
  <2> HIDE DEF a
  <2>3. flights'[s].age = a
    BY <2>1, <2>2 DEF Flight
  <2> QED
    BY <2>3 DEF a
<1> QED
  BY <1>1, <1>2

LEMMA ClockInit == Init => ClockInv
<1> SUFFICES ASSUME Init PROVE ClockInv
  OBVIOUS
<1>1. up
  BY Zenon DEF Init
<1>2. lock = "free" /\ Busy = {} /\ \A s \in Slots : flights[s].pc = "idle"
  BY DEF Init, Busy, Idle
<1>3. batch = {}
  BY DEF Init
<1> QED
  BY <1>1, <1>2, <1>3 DEF ClockInv, RowsFollow, InTime

LEMMA ClockDispatch ==
  ASSUME TypeOK, ClockInv, NEW s \in Slots, Dispatch(s)
  PROVE  ClockInv'
<1> DEFINE t == flights[s].task
<1>1. /\ s \in Busy /\ t \in Tasks /\ up /\ up' /\ orphaned \subseteq orphaned'
      /\ dropped \subseteq dropped' /\ UNCHANGED ops
      /\ \A r \in Slots \ {s} : flights'[r] = flights[r]
      /\ \A u \in Tasks \ {t} : rows'[u] = rows[u]
  BY DispatchFrame
<1>2. /\ s \in Busy' => flights'[s].age = flights[s].age
      /\ rows'[t].status = "running" =>
           \/ rows'[t].age = 0
           \/ (rows'[t] = rows[t] /\ ~At(s, "starting"))
           \/ (rows[t].status = "running" /\ rows'[t].age = rows[t].age /\ At(s, "turn"))
           \/ (s \notin Busy' /\ rows'[t] = rows[t])
      /\ lock' = lock
      /\ lock # "free" => UNCHANGED rows
  BY DispatchAges
<1>3. \/ Continues(s, "starting", "turn") \/ Continues(s, "turn", "saved")
      \/ Continues(s, "saved", "completed")
      \/ At(s, "idle")'
  BY DispatchEffect DEF Ends
<1>4. \A r \in Slots : flights[r].age \in Nat
  BY QueueAssumption DEF TypeOK, Flight
<1>5. ASSUME lock = "free"
      PROVE  RowsFollow'
  <2> SUFFICES ASSUME NEW u \in Tasks, NEW r \in Slots, rows'[u].status = "running",
                      flights'[r].task = u, flights'[r].pc \in {"turn", "saved"}
               PROVE  rows'[u].age <= flights'[r].age
    BY DEF RowsFollow
  <2>1. r # s => flights'[r] = flights[r]
    BY <1>1
  <2>2. r = s => /\ u = t /\ flights'[r].age = flights[r].age /\ s \in Busy'
                 /\ At(s, "starting") \/ At(s, "turn")
    BY <1>2, <1>3 DEF Continues, At, Busy
  <2>3. flights'[r].age \in Nat /\ flights[r].task = u
    BY <1>4, <2>1, <2>2
  <2>4. \/ rows'[u].age = 0
        \/ /\ rows[u].status = "running" /\ rows'[u].age = rows[u].age
           /\ r = s => ~At(s, "starting")
    BY <1>1, <1>2, <2>2 DEF At
  <2>5. ASSUME rows[u].status = "running", flights[r].pc \in {"turn", "saved"}
        PROVE  rows[u].age <= flights[r].age
    BY <1>5, <2>3, <2>5 DEF ClockInv, RowsFollow
  <2> QED
    BY <2>1, <2>2, <2>3, <2>4, <2>5 DEF At
<1>6. ASSUME lock = "free"
      PROVE  InTime'
  <2> SUFFICES ASSUME NEW r \in Busy'
               PROVE  flights'[r].age <= ClientLimit[Kind[flights'[r].task]]
    BY DEF InTime
  <2>1. flights'[r].age = flights[r].age /\ flights'[r].task = flights[r].task
    BY <1>1, <1>2, <1>3 DEF Busy, Continues, At
  <2>2. r \in Busy
    BY <1>1 DEF Busy
  <2> QED
    BY <1>6, <2>1, <2>2 DEF ClockInv, InTime
<1>7. ASSUME lock = "reaper"
      PROVE  (\E u \in Stuck : Explained(u))'
  BY <1>1, <1>2, <1>7 DEF ClockInv, Stuck, Explained, Unwritten
<1>8. ASSUME lock = "retry"
      PROVE  ops' > 0 /\ Resettable' # {}
  BY <1>1, <1>2, <1>8 DEF ClockInv, Resettable
<1> QED
  BY <1>1, <1>2, <1>5, <1>6, <1>7, <1>8 DEF ClockInv

LEMMA ClockTick ==
  ASSUME TypeOK, ClockInv, Tick
  PROVE  ClockInv'
<1>1. UNCHANGED <<lock, up, orphaned, batch, ops, crashes, dropped>>
  BY DEF Tick, boundVars, faultVars
<1>2. \A t \in Tasks : rows[t].age \in 0..PurgeAge
  BY DEF TypeOK, Row
<1>3. \A s \in Slots : flights[s].age \in 0..HardTimeout
  BY DEF TypeOK, Flight
<1>4. ASSUME lock = "free"
      PROVE  RowsFollow' /\ InTime'
  <2>1. \A s \in Busy : /\ flights[s].pc \in {"starting", "turn"}
                        /\ flights[s].age < LeastOf(ClientLimit[Kind[flights[s].task]],
                                                    HardTimeout)
    <3> SUFFICES ASSUME NEW s \in Busy
                 PROVE  /\ flights[s].pc \in {"starting", "turn"}
                        /\ flights[s].age < LeastOf(ClientLimit[Kind[flights[s].task]],
                                                    HardTimeout)
      OBVIOUS
    <3>1. s \in Slots /\ flights[s].task \in Tasks /\ flights[s].pc \in PCs \ {"idle"}
      BY DEF Busy, TypeOK, Flight
    <3>2. ~Overdue(s)
      BY <1>4, <3>1 DEF Tick
    <3>3. LeastOf(ClientLimit[Kind[flights[s].task]], HardTimeout) \in Nat
      BY <3>1, DirectIsPatient, QueueAssumption DEF LeastOf
    <3> QED
      BY <1>3, <3>1, <3>2, <3>3 DEF Overdue, PCs
  <2>2. \A s \in Busy : /\ flights'[s].age = flights[s].age + 1
                        /\ flights'[s].age <= ClientLimit[Kind[flights[s].task]]
    <3> SUFFICES ASSUME NEW s \in Busy
                 PROVE  /\ flights'[s].age = flights[s].age + 1
                        /\ flights'[s].age <= ClientLimit[Kind[flights[s].task]]
      OBVIOUS
    <3> DEFINE limit == ClientLimit[Kind[flights[s].task]]
    <3>1. s \in Slots /\ limit \in Nat
      BY DirectIsPatient DEF Busy, TypeOK
    <3>2. flights'[s].age = LeastOf(flights[s].age + 1, HardTimeout)
      BY <2>1, <3>1, TickAges
    <3>3. flights[s].age \in Nat /\ flights[s].age < LeastOf(limit, HardTimeout)
      BY <1>3, <2>1, <3>1, QueueAssumption
    <3> HIDE DEF limit
    <3>4. flights'[s].age = flights[s].age + 1 /\ flights'[s].age <= limit
      BY <3>1, <3>2, <3>3, QueueAssumption DEF LeastOf
    <3> QED
      BY <3>4 DEF limit
  <2>3. InTime'
    BY <2>2, TickKeeps DEF InTime, Busy
  <2>4. RowsFollow'
    <3> SUFFICES ASSUME NEW t \in Tasks, NEW s \in Slots, rows'[t].status = "running",
                        flights'[s].task = t, flights'[s].pc \in {"turn", "saved"}
                 PROVE  rows'[t].age <= flights'[s].age
      BY DEF RowsFollow
    <3>1. /\ rows[t].status = "running" /\ flights[s].task = t
          /\ flights[s].pc \in {"turn", "saved"} /\ s \in Busy
      BY TickKeeps DEF Busy
    <3>2. rows[t].age <= flights[s].age
      BY <1>4, <3>1 DEF ClockInv, RowsFollow
    <3>3. rows'[t].age = LeastOf(rows[t].age + 1, PurgeAge)
      BY <3>1, TickAges
    <3>4. rows[t].age \in Int /\ flights[s].age \in Int
      BY <1>2, <1>3, QueueAssumption
    <3> QED
      BY <2>2, <3>1, <3>2, <3>3, <3>4, QueueAssumption DEF LeastOf
  <2> QED
    BY <2>3, <2>4
<1>5. ASSUME lock = "reaper"
      PROVE  (\E t \in Stuck : Explained(t))'
  <2>1. PICK t \in Stuck : Explained(t)
    BY <1>5 DEF ClockInv
  <2>2. t \in Tasks /\ rows[t].status = "running" /\ rows[t].age >= StuckTimeout
    BY <2>1 DEF Stuck
  <2>3. rows'[t].status = "running" /\ rows'[t].age = LeastOf(rows[t].age + 1, PurgeAge)
    BY <2>2, TickKeeps, TickAges
  <2>4. rows'[t].age >= StuckTimeout
    BY <1>2, <2>2, <2>3, QueueAssumption DEF LeastOf
  <2> QED
    BY <1>1, <2>1, <2>2, <2>3, <2>4 DEF Stuck, Explained, Unwritten
<1>6. Resettable' = Resettable
  BY TickKeeps DEF Resettable
<1> QED
  BY <1>1, <1>4, <1>5, <1>6 DEF ClockInv

LEMMA ClockNext == TypeOK /\ RunningIsOwned /\ ClockInv /\ ServiceInv /\ [Next]_vars
                     => ClockInv'
<1> SUFFICES ASSUME TypeOK, RunningIsOwned, ClockInv, ServiceInv, [Next]_vars
             PROVE  ClockInv'
  OBVIOUS
<1>1. CASE \E t \in Tasks : Ingest(t) \/ RetryTask(t)
  <2>1. PICK t \in Tasks : Ingest(t) \/ RetryTask(t)
    BY <1>1
  <2>2. /\ rows' = [rows EXCEPT ![t] = Bare("pending")]
        /\ up /\ up' /\ lock = "free" /\ lock' = "free" /\ UNCHANGED flights
    BY <2>1 DEF Ingest, RetryTask, LakeFree, workerVars
  <2>3. \A u \in Tasks : rows'[u].status = "running" => rows'[u] = rows[u]
    BY <2>2, BareColumns DEF TypeOK
  <2> QED
    BY <2>2, <2>3 DEF ClockInv, RowsFollow, InTime, Busy
<1>2. ASSUME UNCHANGED <<rows, flights, lock, up, orphaned, ops, crashes, dropped>>,
             up' \/ UNCHANGED batch
      PROVE  ClockInv'
  BY <1>2 DEF ClockInv, RowsFollow, InTime, Busy, Stuck, Explained, Unwritten, Resettable
<1>3. CASE Poll \/ UNCHANGED vars
  BY <1>2, <1>3 DEF Poll, LakeFree, vars, lakeVars, boundVars, faultVars
<1>11. CASE \E t \in Tasks : PickUpFails(t)
  <2>1. UNCHANGED <<rows, flights, lock, up, orphaned, ops, crashes>> /\ up /\ dropped' = dropped
    BY <1>11 DEF PickUpFails, LakeFree, Faulty, lakeVars
  <2> QED
    BY <1>2, <2>1
<1>12. CASE \E t \in Tasks : RetryFails(t)
  <2>1. PICK t \in Tasks : /\ rows' = [rows EXCEPT ![t] = Bare("absent")]
                            /\ up /\ lock = "free"
                            /\ UNCHANGED <<up, lock, flights>>
    BY <1>12 DEF RetryFails, LakeFree, workerVars
  <2>2. \A u \in Tasks : rows'[u].status = "running" => rows'[u] = rows[u]
    BY <2>1, BareColumns DEF TypeOK
  <2> QED
    BY <2>1, <2>2 DEF ClockInv, RowsFollow, InTime, Busy
<1>4. CASE \E t \in Tasks : PickUp(t)
  <2>1. PICK t \in Tasks : PickUp(t)
    BY <1>4
  <2>2. UNCHANGED <<rows, lock, up, orphaned, ops, crashes, dropped>> /\ lock = "free" /\ up
    BY <2>1 DEF PickUp, LakeFree, lakeVars, boundVars, faultVars
  <2>3. CASE UNCHANGED flights
    BY <1>2, <2>2, <2>3
  <2>4. CASE rows[t].status = "pending"
    <3>1. PICK s \in Slots \ Busy :
            flights' = [flights EXCEPT
                          ![s] = [task |-> t, pc |-> "starting", age |-> 0]]
      BY <2>1, <2>4 DEF PickUp
    <3>2. /\ flights'[s].pc = "starting" /\ flights'[s].age = 0 /\ flights'[s].task = t
          /\ \A r \in Slots \ {s} : flights'[r] = flights[r]
      BY <3>1 DEF TypeOK
    <3>3. RowsFollow'
      BY <2>2, <3>2 DEF ClockInv, RowsFollow
    <3>4. InTime'
      BY <2>2, <3>2, DirectIsPatient DEF ClockInv, InTime, Busy
    <3> QED
      BY <2>2, <3>3, <3>4 DEF ClockInv
  <2> QED
    BY <2>1, <2>3, <2>4 DEF PickUp
<1>5. CASE \E s \in Slots : Dispatch(s)
  BY <1>5, ClockDispatch
<1>6. CASE ReapStuckTasks
  <2>1. /\ lock = "free" /\ up' /\ lock' = "reaper" /\ Stuck # {}
        /\ UNCHANGED <<rows, orphaned, dropped>>
    BY <1>6 DEF ReapStuckTasks, LakeFree, lakeVars, boundVars, faultVars
  <2>2. \A t \in Stuck : Explained(t)
    BY <2>1, StuckIsExplained DEF ClockInv
  <2> QED
    BY <2>1, <2>2 DEF ClockInv, Stuck, Explained, Unwritten
<1>7. CASE RetryPending
  <2>1. /\ up' /\ lock = "free" /\ lock' \in {"free", "retry"}
        /\ lock' = "retry" => Resettable # {}
        /\ ops' = ops + 1 /\ UNCHANGED <<rows, flights>>
    BY <1>7 DEF RetryPending, LakeFree, lakeVars, workerVars, Resettable
  <2>2. ops' > 0
    BY <2>1, QueueAssumption DEF TypeOK
  <2> QED
    BY <2>1, <2>2 DEF ClockInv, RowsFollow, InTime, Busy, Resettable
<1>8. CASE Crash \/ \E t \in Tasks : CrashInReplace(t)
  <2>1. /\ lock' = "free" /\ batch' = {}
        /\ \A s \in Slots : flights'[s].pc = "idle"
        /\ crashes' > 0
    BY <1>8, QueueAssumption DEF Crash, CrashInReplace, Down, Idle, TypeOK
  <2> QED
    BY <2>1 DEF ClockInv, RowsFollow, InTime, Busy
<1>9. CASE Restart \/ CrashInPurge \/ PurgeFails
  <2>1. /\ lock = "free" /\ lock' = "free" /\ Busy' = {} /\ batch' = {}
    BY <1>9 DEF Restart, CrashInPurge, PurgeFails, ClockInv, ServiceInv, Busy, workerVars
  <2>2. up' \/ crashes' > 0
    <3>1. CASE Restart \/ PurgeFails
      BY <3>1, Zenon DEF Restart, PurgeFails
    <3>2. CASE CrashInPurge
      BY <3>2, QueueAssumption DEF CrashInPurge, TypeOK
    <3> QED
      BY <1>9, <3>1, <3>2
  <2> QED
    BY <2>1, <2>2 DEF ClockInv, RowsFollow, InTime, Busy
<1>10. CASE Tick
  BY <1>10, ClockTick
<1> QED
  BY <1>1, <1>3, <1>4, <1>5, <1>6, <1>7, <1>8, <1>9, <1>10, <1>11, <1>12 DEF Next

(* The reaper locks the lake only because of an openfang task or of one whose
   dispatch was cut off or whose outcome was not written: every other turn
   ends before the stuck timeout.  A retry-pending locks it only when it finds
   a row to reset. *)
THEOREM LockedOutForCause == Spec => []StuckHasCause
<1>1. TypeOK /\ RunningIsOwned /\ ClockInv => StuckHasCause
  <2> SUFFICES ASSUME TypeOK, RunningIsOwned, ClockInv, Stuck # {}, lock # "retry"
               PROVE  \E t \in Stuck : Explained(t)
    BY DEF StuckHasCause, Explained, ClockInv, Resettable
  <2>1. lock \in {"free", "reaper"}
    BY DEF TypeOK
  <2> QED
    BY <2>1, StuckIsExplained DEF ClockInv
<1> QED
  BY <1>1, TypeCorrect, RunningRowsAreOwned, ServiceInvInit, ServiceInvNext,
     ClockInit, ClockNext, PTL DEF Spec

-----------------------------------------------------------------------------
(* The lake that is never locked: no agent lookups, no prompt that panics,  *)
(* no operator and no crash so far, and the outcome of every turn written.  *)

Direct == \A t \in Tasks : Kind[t] # "openfang"
Untroubled == Direct /\ Panicky = {} /\ ops = 0 /\ crashes = 0

LakeInv == Untroubled /\ (\A t \in Tasks : ~Unwritten(t))
             => lock = "free" /\ orphaned = {}

(* The counters only grow; an operator or a crash is counted. *)
LEMMA CountersGrow ==
  ASSUME TypeOK, [Next]_vars
  PROVE  /\ dropped \subseteq dropped'
         /\ ops' = 0 => /\ ops = 0 /\ ~RetryPending
                        /\ \A t \in Tasks : ~RetryTask(t) /\ ~RetryFails(t)
         /\ crashes' = 0 => /\ crashes = 0 /\ ~Crash /\ ~CrashInPurge
                            /\ \A t \in Tasks : ~CrashInReplace(t)
<1>1. ops \in Nat /\ crashes \in Nat
  BY QueueAssumption DEF TypeOK
<1>2. /\ RetryPending => ops' = ops + 1
      /\ \A t \in Tasks : RetryTask(t) \/ RetryFails(t) => ops' = ops + 1
      /\ Crash \/ CrashInPurge => crashes' = crashes + 1
      /\ \A t \in Tasks : CrashInReplace(t) => crashes' = crashes + 1
  BY DEF RetryPending, RetryTask, RetryFails, Crash, CrashInPurge, CrashInReplace, Down
<1>3. /\ ops' \in {ops, ops + 1} /\ crashes' \in {crashes, crashes + 1}
      /\ dropped \subseteq dropped'
  <2>1. CASE \E s \in Slots : Dispatch(s)
    BY <2>1, DispatchFrame
  <2>2. CASE PurgeFails \/ \E t \in Tasks : PickUpFails(t) \/ RetryFails(t)
    BY <2>2 DEF PurgeFails, PickUpFails, RetryFails, Faulty
  <2> QED
    BY <2>1, <2>2
       DEF Next, vars, Ingest, Poll, PickUp, ReapStuckTasks, RetryTask, RetryPending,
           Crash, CrashInReplace, Down, Restart, CrashInPurge, Tick, boundVars, faultVars
<1> QED
  BY <1>1, <1>2, <1>3

LEMMA LakeInit == Init => LakeInv
BY DEF Init, LakeInv

LEMMA LakeNext == TypeOK /\ RunningIsOwned /\ ClockInv /\ LakeInv /\ [Next]_vars
                    => LakeInv'
<1> SUFFICES ASSUME TypeOK, RunningIsOwned, ClockInv, LakeInv, [Next]_vars, Untroubled',
                    \A t \in Tasks : ~Unwritten(t)'
             PROVE  lock' = "free" /\ orphaned' = {}
  BY DEF LakeInv
<1>1. /\ Direct /\ Panicky = {} /\ lock = "free" /\ orphaned = {} /\ InTime
      /\ RowsFollow /\ \A t \in Tasks : ~Unwritten(t)
  BY CountersGrow DEF Untroubled, Direct, LakeInv, ClockInv, Unwritten
<1>2. CASE \E s \in Slots : Dispatch(s)
  <2>1. PICK s \in Slots : Dispatch(s)
    BY <1>2
  <2>2. lock' = "free"
    BY <1>1, <2>1, DispatchAges
  <2>3. s \in Busy /\ flights[s].task \in Tasks /\ flights[s].age \in Nat
    BY <2>1, DispatchFrame, QueueAssumption DEF Flight
  <2>4. ~HardTimeoutFires(s)
    <3> DEFINE limit == ClientLimit[Kind[flights[s].task]]
    <3>1. limit \in Nat /\ limit < StuckTimeout
      BY <1>1, <2>3, DirectIsPatient DEF Direct
    <3>2. flights[s].age <= limit
      BY <1>1, <2>3 DEF InTime
    <3> HIDE DEF limit
    <3>3. ~(flights[s].age >= HardTimeout)
      BY <2>3, <3>1, <3>2, QueueAssumption
    <3> QED
      BY <3>3 DEF HardTimeoutFires
  <2>5. ~Panics(s)
    BY <1>1 DEF Panics
  <2>6. UNCHANGED orphaned
    BY <2>1, <2>4, <2>5
       DEF Dispatch, Outcome, StartTurn, ResolveFails, SaveResponse, ForwardAnswered,
           TurnFails, CompleteEnvelope, InsertBilling, Slip, StartFails, SaveFails,
           CompletionFails, BillingFails, FailureFails
  <2> QED
    BY <1>1, <2>2, <2>6
<1>3. ~ReapStuckTasks
  BY <1>1, StuckIsExplained DEF ReapStuckTasks, Explained, Direct, Stuck
<1>4. CASE UNCHANGED <<lock, orphaned>>
  BY <1>1, <1>4
<1>5. CASE \/ Poll \/ Restart \/ PurgeFails \/ Tick \/ UNCHANGED vars
           \/ \E t \in Tasks : Ingest(t) \/ PickUp(t) \/ PickUpFails(t)
  BY <1>4, <1>5 DEF Poll, Restart, PurgeFails, Tick, Ingest, PickUp, PickUpFails, vars
<1> QED
  BY <1>2, <1>3, <1>5, CountersGrow DEF Next, Untroubled

(* Without agent lookups, panics, operators and crashes nothing ever waits for
   a lake that is locked for good, whatever tasks, failures and retries do and
   whichever statements fail, as long as the outcome of every turn is written. *)
THEOREM LakeIsNeverLockedOut == Spec => [](Untroubled => LakeStaysUsable)
<1>1. LakeInv => (Untroubled => LakeStaysUsable)
  BY DEF LakeInv, LakeStaysUsable
<1> QED
  BY <1>1, TypeCorrect, RunningRowsAreOwned, ServiceInvInit, ServiceInvNext,
     ClockInit, ClockNext, LakeInit, LakeNext, PTL DEF Spec

-----------------------------------------------------------------------------
(* The queue that no operator disturbs, whose spawned futures run before   *)
(* the next poll: what it promises of the tasks that are not openfang's,   *)
(* whatever openfang's tasks do beside them.  Crashes are allowed.         *)

Undisturbed == PromptSpawn /\ ops = 0
DirectTasks == {t \in Tasks : Kind[t] # "openfang"}

\* No two dispatches of one task.
OneEach == \A s1, s2 \in Busy :
  flights[s1].task \in DirectTasks /\ flights[s1].task = flights[s2].task => s1 = s2

\* The row of a task is where its dispatch is.
InStep == \A s \in Busy : flights[s].task \in DirectTasks =>
  LET t == flights[s].task
  IN  /\ At(s, "starting") => rows[t].status = "pending" /\ t \notin batch
      /\ At(s, "turn") => rows[t].status = "running"
      /\ At(s, "saved") => /\ rows[t].status = "running"
                           /\ rows[t].response \/ <<t, "response">> \in dropped
      /\ At(s, "completed") => rows[t].status = "done" /\ billed[t] = 0

\* What the poll listed is still to be dispatched, and has no backoff left.
Listed == \A t \in batch \cap DirectTasks : rows[t].status = "pending" /\ rows[t].wait = 0

\* An agent's task that is done has its response, or saving it failed.
Answered == \A t \in DirectTasks :
  rows[t].status = "done" /\ Kind[t] # "forward"
    => rows[t].response \/ <<t, "response">> \in dropped

\* A task a failed statement lost is left alone.
LeftAlone == \A t \in DirectTasks : Lost(t) =>
  /\ t \in submitted /\ rows[t].status \in {"running", "absent"}
  /\ \A s \in Busy : flights[s].task # t

\* A task is billed once, when it is done; only a crash takes its row.
Metered == \A t \in DirectTasks :
  /\ billed[t] <= 1
  /\ billed[t] > 0 => /\ t \in submitted
                      /\ rows[t].status = "absent" => crashes > 0
                      /\ rows[t].status \in {"done", "absent"}

QuietInv == Undisturbed => /\ OneEach /\ InStep /\ Listed /\ Answered
                           /\ Metered /\ LeftAlone

LEMMA QuietInit == Init => QuietInv
<1> SUFFICES ASSUME Init PROVE QuietInv
  OBVIOUS
<1>1. Busy = {} /\ batch = {}
  BY DEF Init, Busy, Idle
<1>2. \A t \in Tasks : rows[t].status = "absent" /\ billed[t] = 0
  BY BareColumns DEF Init
<1>3. \A t \in Tasks : ~Lost(t)
  BY DEF Init, Lost, Unwritten
<1> QED
  BY <1>1, <1>2, <1>3
     DEF QuietInv, OneEach, InStep, Listed, Answered, Metered, LeftAlone, DirectTasks

(* Rows that an outage takes were not billed, or a crash took them. *)
LEMMA QuietOutage ==
  ASSUME TypeOK, QuietInv, Undisturbed, Busy' = {}, batch' = {},
         \A t \in Tasks : \/ rows'[t] = rows[t]
                          \/ /\ rows'[t] = Bare("absent")
                             /\ rows[t].status = "running" \/ crashes' > 0,
         UNCHANGED <<billed, submitted>>, dropped' = dropped,
         crashes > 0 => crashes' > 0
  PROVE  QuietInv'
<1>1. \A t \in Tasks : rows'[t] = rows[t] \/ rows'[t].status = "absent"
  BY BareColumns
<1>2. Answered' /\ OneEach' /\ InStep' /\ Listed'
  BY <1>1 DEF QuietInv, Answered, OneEach, InStep, Listed, DirectTasks
<1>4. LeftAlone'
  BY <1>1 DEF QuietInv, LeftAlone, Lost, Unwritten, DirectTasks
<1>3. Metered'
  <2> SUFFICES ASSUME NEW t \in DirectTasks
               PROVE  /\ billed[t] <= 1
                      /\ billed[t] > 0 => /\ t \in submitted
                                          /\ rows'[t].status = "absent" => crashes' > 0
                                          /\ rows'[t].status \in {"done", "absent"}
    BY DEF Metered
  <2>1. billed[t] <= 1
    BY DEF QuietInv, Metered
  <2>2. ASSUME billed[t] > 0
        PROVE  /\ t \in submitted /\ rows[t].status \in {"done", "absent"}
               /\ rows[t].status = "absent" => crashes > 0
    BY <2>2 DEF QuietInv, Metered
  <2>3. ASSUME billed[t] > 0, rows'[t].status = "absent"
        PROVE  crashes' > 0
    BY <2>2, <2>3 DEF DirectTasks
  <2> QED
    BY <1>1, <2>1, <2>2, <2>3 DEF DirectTasks
<1> QED
  BY <1>2, <1>3, <1>4 DEF QuietInv

LEMMA QuietDispatch ==
  ASSUME TypeOK, ServiceInv, QuietInv, Undisturbed, NEW s \in Slots, Dispatch(s)
  PROVE  QuietInv'
<1> DEFINE t == flights[s].task
<1>1. /\ s \in Busy /\ t \in Tasks /\ UNCHANGED <<submitted, crashes>>
      /\ dropped \subseteq dropped'
      /\ \A r \in Slots \ {s} : flights'[r] = flights[r]
      /\ \A u \in Tasks \ {t} : rows'[u] = rows[u] /\ billed'[u] = billed[u]
  BY DispatchFrame
<1>2. batch' = batch
  BY DEF Dispatch, Outcome, StartTurn, ResolveFails, SaveResponse, ForwardAnswered,
         TurnFails, Panics, HardTimeoutFires, CompleteEnvelope, InsertBilling,
         Slip, StartFails, SaveFails, CompletionFails, BillingFails, FailureFails
<1>3. billed \in [Tasks -> Nat]
  BY DEF TypeOK
<1>4. OneEach /\ InStep /\ Listed /\ Answered /\ Metered /\ LeftAlone
  BY DEF QuietInv
<1>5. billed' # billed => At(s, "completed") /\ billed'[t] = billed[t] + 1
  BY <1>1, <1>3
     DEF Dispatch, Outcome, StartTurn, ResolveFails, SaveResponse, ForwardAnswered,
         TurnFails, Panics, HardTimeoutFires, CompleteEnvelope, InsertBilling,
         Slip, StartFails, SaveFails, CompletionFails, BillingFails, FailureFails,
         lakeVars
<1>6. ASSUME t \in DirectTasks
      PROVE  /\ At(s, "starting") => rows[t].status = "pending" /\ t \notin batch
             /\ At(s, "turn") => rows[t].status = "running"
             /\ At(s, "saved") => /\ rows[t].status = "running"
                                  /\ rows[t].response \/ <<t, "response">> \in dropped
             /\ At(s, "completed") => rows[t].status = "done" /\ billed[t] = 0
  BY <1>1, <1>4, <1>6 DEF InStep
\* The other dispatches are of other tasks, whose rows did not change.
<1>7. ASSUME NEW r \in Busy', r # s
      PROVE  /\ r \in Busy /\ flights'[r] = flights[r] /\ flights[r].task \in Tasks
             /\ flights[r].task \in DirectTasks => flights[r].task # t
  BY <1>1, <1>4, <1>7 DEF Busy, OneEach, TypeOK
<1>8. s \in Busy' => flights'[s].task = t
  BY DispatchEffect DEF Continues, Ends, At, Busy
<1>9. OneEach'
  BY <1>4, <1>7, <1>8 DEF OneEach
<1>10. InStep'
  <2> SUFFICES ASSUME NEW r \in Busy', flights'[r].task \in DirectTasks
               PROVE  LET u == flights'[r].task
                      IN  /\ At(r, "starting")' => /\ rows'[u].status = "pending"
                                                   /\ u \notin batch
                          /\ At(r, "turn")' => rows'[u].status = "running"
                          /\ At(r, "saved")' => /\ rows'[u].status = "running"
                                                /\ \/ rows'[u].response
                                                   \/ <<u, "response">> \in dropped'
                          /\ At(r, "completed")' => /\ rows'[u].status = "done"
                                                    /\ billed'[u] = 0
    BY <1>2 DEF InStep
  <2>1. CASE r # s
    BY <1>1, <1>4, <1>7, <2>1 DEF InStep, At
  <2>2. CASE r = s
    <3>0. t \in DirectTasks
      BY <1>8, <2>2
    <3>1. rows[t].status # "absent"
      BY <1>1, <1>6, <2>2, <3>0, DispatchEffect DEF Continues, Ends, At, Busy
    <3>2. \/ /\ Continues(s, "starting", "turn") /\ rows'[t].status = "running"
          \/ /\ Continues(s, "turn", "saved") /\ rows'[t].status = rows[t].status
             /\ rows'[t].response = TRUE \/ <<t, "response">> \in dropped'
          \/ /\ Continues(s, "saved", "completed") /\ rows'[t].status = "done"
             /\ UNCHANGED billed
      BY <2>2, <3>1, DispatchEffect DEF Ends, At, Busy
    <3>3. At(s, "saved") => billed[t] = 0
      BY <1>1, <1>3, <1>4, <1>6, <3>0 DEF Metered
    <3> QED
      BY <1>6, <1>8, <2>2, <3>0, <3>2, <3>3 DEF Continues, At
  <2> QED
    BY <2>1, <2>2
<1>11. Listed'
  <2> SUFFICES ASSUME NEW u \in batch, u \in DirectTasks
               PROVE  rows'[u].status = "pending" /\ rows'[u].wait = 0
    BY <1>2 DEF Listed
  <2>1. u \in Tasks /\ rows[u].status = "pending" /\ rows[u].wait = 0
    BY <1>4 DEF Listed, TypeOK
  <2>2. u # t
    BY <1>6, <2>1, DispatchEffect DEF Continues, Ends, At
  <2> QED
    BY <1>1, <2>1, <2>2
<1>12. Answered'
  <2> SUFFICES ASSUME NEW u \in DirectTasks, rows'[u].status = "done",
                      Kind[u] # "forward"
               PROVE  rows'[u].response \/ <<u, "response">> \in dropped'
    BY DEF Answered
  <2>1. CASE u # t
    BY <1>1, <1>4, <2>1 DEF Answered, DirectTasks
  <2>2. CASE u = t
    <3>1. \/ Continues(s, "saved", "completed") /\ rows'[t].response = rows[t].response
          \/ Ends(s, "completed") /\ UNCHANGED rows
      BY <1>6, <2>2, BareColumns, DispatchEffect DEF Continues, Ends, At
    <3>2. At(s, "completed") => rows[t].response \/ <<t, "response">> \in dropped
      BY <1>1, <1>4, <1>6, <2>2 DEF Answered
    <3> QED
      BY <1>1, <1>6, <2>2, <3>1, <3>2 DEF Continues, Ends
  <2> QED
    BY <2>1, <2>2
<1>13. Metered'
  <2> SUFFICES ASSUME NEW u \in DirectTasks
               PROVE  /\ billed'[u] <= 1
                      /\ billed'[u] > 0 => /\ u \in submitted
                                           /\ rows'[u].status = "absent" => crashes > 0
                                           /\ rows'[u].status \in {"done", "absent"}
    BY <1>1 DEF Metered
  <2>1. CASE u # t
    BY <1>1, <1>4, <2>1 DEF Metered, DirectTasks
  <2>2. CASE u = t /\ At(s, "completed")
    <3>1. rows[t].status = "done" /\ billed[t] = 0 /\ t \in submitted
      BY <1>1, <1>6, <2>2 DEF ServiceInv
    <3>2. UNCHANGED rows
      BY <2>2, DispatchEffect DEF Continues, Ends, At
    <3>3. billed'[t] <= 1
      BY <1>5, <3>1
    <3> QED
      BY <2>2, <3>1, <3>2, <3>3
  <2>3. CASE u = t /\ ~At(s, "completed")
    <3>1. UNCHANGED billed /\ rows[t].status \in {"pending", "running"}
      BY <1>5, <1>6, <2>3, DispatchEffect DEF Continues, Ends
    <3>2. t \in DirectTasks /\ billed[t] \in Nat
      BY <1>1, <1>3, <2>3
    <3>3. ~(billed[t] > 0)
      BY <1>4, <3>1, <3>2 DEF Metered
    <3>4. billed[t] = 0
      BY <3>2, <3>3
    <3> QED
      BY <2>3, <3>1, <3>4
  <2> QED
    BY <2>1, <2>2, <2>3
<1>14. LeftAlone'
  <2> SUFFICES ASSUME NEW u \in DirectTasks, Lost(u)'
               PROVE  /\ u \in submitted /\ rows'[u].status \in {"running", "absent"}
                      /\ \A r \in Busy' : flights'[r].task # u
    BY <1>1 DEF LeftAlone
  <2>1. CASE Lost(u)
    <3>1. u # t
      BY <1>1, <1>4, <2>1 DEF LeftAlone
    <3>2. \A r \in Busy' : flights'[r].task # u
      BY <1>4, <1>7, <1>8, <2>1, <3>1 DEF LeftAlone
    <3> QED
      BY <1>1, <1>4, <2>1, <3>1, <3>2 DEF LeftAlone, DirectTasks
  <2>2. CASE ~Lost(u)
    <3>1. u = t /\ flights'[s] = Idle /\ ~At(s, "completed") /\ ~At(s, "starting")
          /\ (UNCHANGED rows \/ rows'[t] = Bare("absent"))
      <4>0. <<u, "outcome">> \in dropped' \/ <<u, "row">> \in dropped'
        BY DEF Lost, Unwritten
      <4>3. \A v, what : Faulty({<<v, what>>}) =>
              u = v /\ (what = "outcome" \/ what = "row")
        <5> SUFFICES ASSUME NEW v, NEW what, Faulty({<<v, what>>})
                     PROVE  u = v /\ (what = "outcome" \/ what = "row")
          OBVIOUS
        <5>1. dropped' = dropped \cup {<<v, what>>}
          BY DEF Faulty
        <5>2. <<u, "outcome">> \notin dropped /\ <<u, "row">> \notin dropped
          BY <2>2 DEF Lost, Unwritten
        <5>3. <<u, "outcome">> = <<v, what>> \/ <<u, "row">> = <<v, what>>
          BY <4>0, <5>1, <5>2
        <5> QED
          BY <5>3
      <4>4. ~Faulty({})
        BY <2>2, <4>0 DEF Faulty, Lost, Unwritten
      <4>5. ~StartFails(s) /\ ~SaveFails(s) /\ ~BillingFails(s)
        <5>1. /\ ~Faulty({<<flights[s].task, "response">>})
              /\ ~Faulty({<<flights[s].task, "bill">>})
          <6>1. <<u, "outcome">> \notin dropped /\ <<u, "row">> \notin dropped
            BY <2>2 DEF Lost, Unwritten
          <6>2. \A v : {<<v, "response">>, <<v, "bill">>} \cap
                       {<<u, "outcome">>, <<u, "row">>} = {}
            OBVIOUS
          <6> QED
            BY <4>0, <6>1, <6>2 DEF Faulty
        <5> QED
          BY <4>4, <5>1 DEF StartFails, SaveFails, BillingFails
      <4>6. ASSUME Release(s)
            PROVE  flights'[s] = Idle
        BY <4>6 DEF Release, TypeOK
      <4>7. CASE CompletionFails(s)
        BY <1>1, <4>3, <4>6, <4>7 DEF CompletionFails, At, lakeVars
      <4>8. CASE \E text \in Texts : FailureFails(s, text)
        <5>1. PICK text \in Texts : FailureFails(s, text)
          BY <4>8
        <5>2. Release(s) /\ At(s, "turn")
          BY <5>1 DEF FailureFails
        <5>3. \/ Faulty({<<t, "outcome">>}) /\ UNCHANGED rows
              \/ Faulty({<<t, "row">>}) /\ rows' = [rows EXCEPT ![t] = Bare("absent")]
          BY <4>4, <5>1 DEF FailureFails
        <5> QED
          BY <1>1, <4>3, <4>6, <5>2, <5>3 DEF At, TypeOK
      <4>1. CASE Slip(s)
        BY <4>1, <4>5, <4>7, <4>8 DEF Slip
      <4>2. CASE ~Slip(s)
        <5>1. UNCHANGED dropped
          BY <4>2 DEF Dispatch, Outcome, StartTurn, ResolveFails, SaveResponse,
                      ForwardAnswered, TurnFails, Panics, HardTimeoutFires,
                      CompleteEnvelope, InsertBilling, boundVars, faultVars
        <5> QED
          BY <2>2, <5>1 DEF Lost, Unwritten
      <4> QED
        BY <4>1, <4>2
    <3>2. rows[t].status = "running" /\ t \in submitted
      BY <1>1, <1>6, <2>2, <3>1, DispatchEffect DEF Continues, Ends, At, ServiceInv
    <3>3. \A r \in Busy' : r # s
      BY <3>1 DEF Busy, Idle
    <3>4. \A r \in Busy' : flights'[r].task # u
      BY <1>7, <3>1, <3>3
    <3> QED
      BY <3>1, <3>2, <3>4, BareColumns
  <2> QED
    BY <2>1, <2>2
<1> QED
  BY <1>9, <1>10, <1>11, <1>12, <1>13, <1>14 DEF QuietInv

LEMMA QuietNext == TypeOK /\ ServiceInv /\ ClockInv /\ QuietInv /\ [Next]_vars => QuietInv'
<1> SUFFICES ASSUME TypeOK, ServiceInv, ClockInv, QuietInv, [Next]_vars, Undisturbed'
             PROVE  QuietInv'
  BY DEF QuietInv
<1>1. /\ Undisturbed
      /\ OneEach /\ InStep /\ Listed /\ Answered /\ Metered /\ LeftAlone
  BY CountersGrow DEF Undisturbed, QuietInv
<1>2. ASSUME UNCHANGED <<rows, flights, billed, submitted, crashes, dropped>>,
             batch' \subseteq batch
      PROVE  QuietInv'
  BY <1>1, <1>2
     DEF QuietInv, OneEach, InStep, Listed, Answered, Metered, LeftAlone, Lost,
         Unwritten, Busy, At
<1>11. CASE \E t \in Tasks : PickUpFails(t)
  <2>1. /\ UNCHANGED <<rows, flights, billed, submitted, crashes>> /\ dropped' = dropped
        /\ batch' \subseteq batch
    BY <1>11 DEF PickUpFails, Faulty, lakeVars
  <2> QED
    BY <1>2, <2>1
<1>3. CASE \E t \in Tasks : Ingest(t)
  <2>1. PICK t \in Tasks : Ingest(t)
    BY <1>3
  <2>2. /\ UNCHANGED <<flights, batch, billed, crashes, dropped>>
        /\ submitted \subseteq submitted'
        /\ t \notin submitted /\ rows' = [rows EXCEPT ![t] = Bare("pending")]
    BY <2>1 DEF Ingest, workerVars, boundVars, faultVars
  <2>3. rows[t].status = "absent" /\ (t \in DirectTasks => billed[t] = 0)
    BY <1>1, <2>2 DEF ServiceInv, Metered, TypeOK
  <2>4. rows'[t].status = "pending" /\ \A u \in Tasks \ {t} : rows'[u] = rows[u]
    BY <2>2, BareColumns DEF TypeOK
  <2>5. t \in DirectTasks =>
          /\ t \notin batch
          /\ \A s \in Busy : flights[s].task \in Tasks \ {t}
    <3> SUFFICES ASSUME t \in DirectTasks
                 PROVE  /\ t \notin batch
                        /\ \A s \in Busy : flights[s].task \in Tasks \ {t}
      OBVIOUS
    <3>1. ASSUME NEW s \in Busy
          PROVE  flights[s].task \in Tasks \ {t}
      <4>1. /\ flights[s].task \in Tasks
            /\ flights[s].pc \in {"starting", "turn", "saved", "completed"}
        BY DEF TypeOK, Busy, Flight, PCs
      <4>2. flights[s].task \in DirectTasks =>
              rows[flights[s].task].status \in {"pending", "running", "done"}
        BY <1>1, <4>1 DEF InStep, At
      <4> QED
        BY <2>3, <4>1, <4>2
    <3>2. t \notin batch
      BY <1>1, <2>3 DEF Listed
    <3> QED
      BY <3>1, <3>2
  <2>6. InStep' /\ Listed' /\ OneEach'
    BY <1>1, <2>2, <2>4, <2>5 DEF InStep, Listed, OneEach, Busy, At, TypeOK
  <2>7. Answered' /\ Metered'
    BY <1>1, <2>2, <2>3, <2>4 DEF Answered, Metered, DirectTasks, TypeOK
  <2>8. LeftAlone'
    BY <1>1, <2>2, <2>4 DEF LeftAlone, Lost, Unwritten, Busy, DirectTasks
  <2> QED
    BY <2>6, <2>7, <2>8 DEF QuietInv
<1>4. CASE Poll
  <2>1. /\ UNCHANGED <<rows, flights, billed, submitted, crashes, dropped>>
        /\ batch' \subseteq Eligible /\ SpawnsSettled
    BY <1>4 DEF Poll, TakeFirst, lakeVars, boundVars, faultVars
  <2>2. \A s \in Busy : At(s, "starting") => flights[s].task \notin DirectTasks
    BY <1>1, <2>1 DEF SpawnsSettled, Undisturbed, DirectTasks, At, TypeOK
  <2>3. InStep' /\ Listed'
    BY <1>1, <2>1, <2>2 DEF InStep, Listed, Eligible, Busy, At
  <2>4. OneEach' /\ Answered' /\ Metered' /\ LeftAlone'
    BY <1>1, <2>1 DEF OneEach, Answered, Metered, LeftAlone, Lost, Unwritten, Busy
  <2> QED
    BY <2>3, <2>4 DEF QuietInv
<1>5. CASE \E t \in Tasks : PickUp(t)
  <2>1. PICK t \in Tasks : PickUp(t)
    BY <1>5
  <2>2. /\ UNCHANGED <<rows, billed, submitted, crashes, dropped>>
        /\ batch' = batch \ {t}
        /\ t \in batch
    BY <2>1 DEF PickUp, lakeVars, boundVars, faultVars
  <2>3. Listed' /\ Answered' /\ Metered'
    BY <1>1, <2>2 DEF Listed, Answered, Metered
  <2>4. CASE UNCHANGED flights
    BY <1>2, <2>2, <2>4
  <2>5. CASE \E s \in Slots : /\ flights[s].pc = "idle" /\ flights'[s].pc = "starting"
                              /\ flights'[s].task = t
                              /\ \A r \in Slots \ {s} : flights'[r] = flights[r]
    <3>1. PICK s \in Slots : /\ flights[s].pc = "idle" /\ flights'[s].pc = "starting"
                             /\ flights'[s].task = t
                             /\ \A r \in Slots \ {s} : flights'[r] = flights[r]
      BY <2>5
    <3>2. t \in DirectTasks => rows[t].status = "pending"
      BY <1>1, <2>2 DEF Listed
    <3>3. t \in DirectTasks => \A r \in Busy : flights[r].task # t
      <4> SUFFICES ASSUME t \in DirectTasks, NEW r \in Busy, flights[r].task = t
                   PROVE  FALSE
        OBVIOUS
      <4>1. /\ flights[r].pc \in {"starting", "turn", "saved", "completed"}
            /\ flights[r].task \in DirectTasks /\ rows[t].status = "pending"
        BY <3>2 DEF TypeOK, Busy, Flight, PCs
      <4>2. At(r, "starting") /\ t \notin batch
        BY <1>1, <4>1 DEF InStep, At
      <4> QED
        BY <2>2, <4>2
    <3>4. /\ Busy' = Busy \cup {s} /\ s \notin Busy
          /\ \A r \in Busy : flights'[r] = flights[r]
      BY <3>1 DEF Busy
    <3>5. OneEach'
      BY <1>1, <3>1, <3>3, <3>4 DEF OneEach
    <3>6. InStep'
      BY <1>1, <2>2, <3>1, <3>2, <3>4 DEF InStep, At
    <3>7. LeftAlone'
      <4>1. ~Lost(t) \/ t \notin DirectTasks
        BY <1>1, <3>2 DEF LeftAlone
      <4>2. \A r \in Busy' : flights'[r].task = t \/ (r \in Busy /\ flights'[r] = flights[r])
        BY <3>1, <3>4
      <4> QED
        BY <1>1, <2>2, <4>1, <4>2 DEF LeftAlone, Lost, Unwritten, DirectTasks
    <3> QED
      BY <2>3, <3>5, <3>6, <3>7 DEF QuietInv
  <2> QED
    BY <2>1, <2>4, <2>5, PickUpEffect
<1>6. CASE \E s \in Slots : Dispatch(s)
  BY <1>1, <1>6, QuietDispatch
<1>7. CASE ReapStuckTasks \/ UNCHANGED vars
  BY <1>2, <1>7 DEF ReapStuckTasks, vars, lakeVars, workerVars, boundVars, faultVars
<1>8. CASE Crash \/ CrashInPurge \/ \E t \in Tasks : CrashInReplace(t)
  <2>1. crashes' > 0 /\ UNCHANGED <<billed, submitted, dropped>>
    BY <1>8, QueueAssumption
       DEF Crash, CrashInReplace, CrashInPurge, Down, TypeOK, faultVars
  <2>2. Busy' = {} /\ batch' = {}
    BY <1>8 DEF Crash, CrashInReplace, CrashInPurge, Down, Idle, Busy, workerVars,
                ServiceInv, ClockInv
  <2>3. \A t \in Tasks : rows'[t] = rows[t] \/ rows'[t] = Bare("absent")
    BY <1>8 DEF Crash, CrashInReplace, CrashInPurge, TypeOK
  <2> QED
    BY <1>1, <2>1, <2>2, <2>3, QuietOutage
<1>12. CASE PurgeFails
  <2>1. /\ crashes' > 0 /\ UNCHANGED <<billed, submitted>> /\ dropped' = dropped
        /\ Busy' = {} /\ batch' = {}
    BY <1>12 DEF PurgeFails, Faulty, Busy, workerVars, ServiceInv, ClockInv
  <2>2. \A t \in Tasks : rows'[t] = rows[t] \/ rows'[t] = Bare("absent")
    BY <1>12 DEF PurgeFails
  <2> QED
    BY <1>1, <2>1, <2>2, QuietOutage
<1>9. CASE Restart
  <2>1. /\ UNCHANGED <<billed, submitted, crashes, dropped>> /\ Busy' = {} /\ batch' = {}
    BY <1>9 DEF Restart, Busy, workerVars, boundVars, faultVars, ServiceInv, ClockInv
  <2>2. \A t \in Tasks : \/ rows'[t] = rows[t]
                         \/ rows'[t] = Bare("absent") /\ rows[t].status = "running"
    BY <1>9 DEF Restart, Purged
  <2> QED
    BY <1>1, <2>1, <2>2, QuietOutage
<1>10. CASE Tick
  <2>1. UNCHANGED <<batch, billed, submitted, crashes, dropped>>
    BY <1>10 DEF Tick, boundVars, faultVars
  <2>2. \A t \in Tasks : rows[t].wait = 0 => rows'[t].wait = 0
    <3> SUFFICES ASSUME NEW t \in Tasks, rows[t].wait = 0
                 PROVE  rows'[t].wait = 0
      OBVIOUS
    <3>1. rows[t] \in Row
      BY DEF TypeOK
    <3>2. \A a : [rows[t] EXCEPT !.age = a, !.wait = 0].wait = 0
      BY <3>1 DEF Row
    <3>3. \E a : rows'[t] = [rows[t] EXCEPT !.age = a, !.wait = 0]
      BY <1>10 DEF Tick
    <3> QED
      BY <3>2, <3>3
  <2>3. OneEach' /\ Answered' /\ Metered'
    BY <1>1, <1>10, <2>1, TickKeeps DEF OneEach, Answered, Metered, Busy, DirectTasks
  <2>6. LeftAlone'
    BY <1>1, <1>10, <2>1, TickKeeps DEF LeftAlone, Lost, Unwritten, Busy, DirectTasks
  <2>4. Listed'
    BY <1>1, <1>10, <2>1, <2>2, TickKeeps DEF Listed, TypeOK
  <2>5. InStep'
    BY <1>1, <1>10, <2>1, TickKeeps DEF InStep, Busy, At, TypeOK
  <2> QED
    BY <2>3, <2>4, <2>5, <2>6 DEF QuietInv
<1> QED
  BY <1>3, <1>4, <1>5, <1>6, <1>7, <1>8, <1>9, <1>10, <1>11, <1>12, CountersGrow
     DEF Next, Undisturbed

(* The invariants together. *)
LEMMA QuietAlways == Spec => [](TypeOK /\ ServiceInv /\ ClockInv /\ QuietInv)
BY TypeCorrect, RunningRowsAreOwned, ServiceInvInit, ServiceInvNext,
   ClockInit, ClockNext, QuietInit, QuietNext, PTL DEF Spec

(* "we never re-enter a task that's mid-flight" (worker.rs:19) holds of every
   task that is not openfang's as long as no operator resets a task, through
   failures, retries and crashes, and whatever openfang's tasks do. *)
THEOREM DirectIsNotReentered == Spec => [](Undisturbed => OneEach)
<1>1. QuietInv => (Undisturbed => OneEach)
  BY DEF QuietInv
<1> QED
  BY <1>1, QuietAlways, PTL

(* So of every task, where none is openfang's. *)
THEOREM TasksAreNotReentered == Spec => [](Undisturbed /\ Direct => NeverReentered)
<1>1. TypeOK /\ OneEach => (Direct => NeverReentered)
  BY DEF OneEach, NeverReentered, Direct, DirectTasks, TypeOK
<1> QED
  BY <1>1, DirectIsNotReentered, TypeCorrect, PTL

(* Those tasks have their response when an agent's turn is done, unless saving
   it failed, and are billed at most once, when they are done, whatever
   openfang's tasks do and whichever other statements fail. *)
THEOREM DirectIsAnsweredAndMetered == Spec => [](Undisturbed => Answered /\ Metered)
<1>1. QuietInv => (Undisturbed => Answered /\ Metered)
  BY DEF QuietInv
<1> QED
  BY <1>1, QuietAlways, PTL

(* A task that went through an agent and is done has its response, or saving it
   failed ("best-effort", dispatch.rs:186): no retry, crash or lost statement
   elsewhere leaves a done task without. *)
THEOREM ResponsesAreSaved == Spec => [](Undisturbed /\ Direct => DoneHasResponse)
<1>1. QuietInv => (Undisturbed /\ Direct => DoneHasResponse)
  BY DEF QuietInv, Answered, DoneHasResponse, Direct, DirectTasks
<1> QED
  BY <1>1, QuietAlways, PTL

(* A task is billed once, and when it is done, as long as no crash takes the
   row of a billed task away. *)
THEOREM TasksAreBilledOnce ==
  Spec => [](Undisturbed /\ Direct /\ crashes = 0 => BilledOnceWhenDone)
<1>1. TypeOK /\ QuietInv => (Undisturbed /\ Direct /\ crashes = 0 => BilledOnceWhenDone)
  BY DEF QuietInv, Metered, BilledOnceWhenDone, Direct, DirectTasks, TypeOK
<1> QED
  BY <1>1, QuietAlways, PTL

(* "Honor `not_before` so backed-off retries don't fire instantly"
   (store.rs:642): the poll lists a task, and nothing puts a backoff into its
   row before the dispatch is spawned. *)
THEOREM DirectServesItsBackoff ==
  Spec => [][\A s \in Slots :
               /\ Undisturbed /\ s \notin Busy /\ s \in Busy'
               /\ flights'[s].task \in DirectTasks
               => rows[flights'[s].task].wait = 0]_vars
<1>1. ASSUME TypeOK, QuietInv, Undisturbed, [Next]_vars, NEW s \in Slots,
             s \notin Busy, s \in Busy', flights'[s].task \in DirectTasks
      PROVE  rows[flights'[s].task].wait = 0
  <2>1. flights'[s] # flights[s]
    BY <1>1 DEF Busy
  <2>2. ~\E r \in Slots : Dispatch(r)
    BY <1>1, <2>1, DispatchFrame
  <2>3. ~Tick
    BY <1>1, TickKeeps DEF Busy
  <2>4. ~Crash /\ \A t \in Tasks : ~CrashInReplace(t)
    BY <1>1 DEF Crash, CrashInReplace, Down, Busy, Idle
  <2>5. \E t \in Tasks : PickUp(t)
    BY <1>1, <2>1, <2>2, <2>3, <2>4
       DEF Next, vars, workerVars, Ingest, Poll, ReapStuckTasks, RetryTask,
           RetryFails, RetryPending, PickUpFails, Restart, PurgeFails, CrashInPurge
  <2>6. PICK t \in Tasks : PickUp(t)
    BY <2>5
  <2>7. flights'[s].task = t
    BY <1>1, <2>1, <2>6, PickUpEffect
  <2>8. t \in batch
    BY <2>6 DEF PickUp
  <2> QED
    BY <1>1, <2>7, <2>8 DEF QuietInv, Listed
<1>2. TypeOK /\ QuietInv /\ [Next]_vars
        => [\A s \in Slots :
              /\ Undisturbed /\ s \notin Busy /\ s \in Busy'
              /\ flights'[s].task \in DirectTasks
              => rows[flights'[s].task].wait = 0]_vars
  BY <1>1
<1> QED
  BY <1>2, QuietAlways, PTL DEF Spec

(* So of every dispatch, where no task is openfang's. *)
THEOREM BackoffIsServed == Spec /\ [](Undisturbed /\ Direct) => BackoffHonoured
<1>1. ASSUME TypeOK', Direct, Undisturbed,
             [\A s \in Slots :
               /\ Undisturbed /\ s \notin Busy /\ s \in Busy'
               /\ flights'[s].task \in DirectTasks
               => rows[flights'[s].task].wait = 0]_vars
      PROVE  [\A s \in Slots : s \notin Busy /\ s \in Busy'
                               => rows[flights'[s].task].wait = 0]_vars
  <2>1. \A s \in Busy' : flights'[s].task \in DirectTasks
    BY <1>1 DEF TypeOK, Busy, Flight, Direct, DirectTasks
  <2> QED
    BY <1>1, <2>1
<1> QED
  BY <1>1, DirectServesItsBackoff, TypeCorrect, PTL DEF BackoffHonoured

-----------------------------------------------------------------------------
(* The undisturbed queue implements TaskLifecycle: one attempt at a time,   *)
(* at most MaxRetries of them put back, and done or failed for good.        *)

\* A task without a row has no retries.
LifeInv == \A t \in Tasks : rows[t].status = "absent" => rows[t].retry = 0

\* The task as its life cycle sees it.
LifeStatus(t) == IF Lost(t) THEN "lost" ELSE rows[t].status

LEMMA BareRetry == \A st : Bare(st).retry = 0
BY DEF Bare

(* A dispatch step writes nothing off, or it is a slip of its own task. *)
LEMMA SlipFrame ==
  ASSUME TypeOK, NEW s \in Slots, Dispatch(s), NEW t, t = flights[s].task
  PROVE  /\ Slip(s) => faults < MaxFaults /\ faults' = faults + 1
         /\ ~Slip(s) => UNCHANGED <<dropped, faults>>
         /\ \A u \in Tasks \ {t} : Lost(u)' <=> Lost(u)
<1>1. ~Slip(s) => UNCHANGED <<dropped, faults>>
  BY DEF Dispatch, Outcome, StartTurn, ResolveFails, SaveResponse,
         ForwardAnswered, TurnFails, Panics, HardTimeoutFires,
         CompleteEnvelope, InsertBilling, boundVars, faultVars
<1>2. Slip(s) => \/ Faulty({})
                 \/ \E what : Faulty({<<t, what>>})
  BY DEF Slip, StartFails, SaveFails, CompletionFails, BillingFails, FailureFails
<1>3. ASSUME NEW what, Faulty({<<t, what>>}), NEW u \in Tasks \ {t}
      PROVE  Lost(u)' <=> Lost(u)
  <2>1. <<u, "outcome">> # <<t, what>> /\ <<u, "row">> # <<t, what>>
    OBVIOUS
  <2> QED
    BY <1>3, <2>1 DEF Faulty, Lost, Unwritten
<1>4. ASSUME UNCHANGED dropped \/ Faulty({}), NEW u \in Tasks
      PROVE  Lost(u)' <=> Lost(u)
  BY <1>4 DEF Faulty, Lost, Unwritten
<1>5. Slip(s) => faults < MaxFaults /\ faults' = faults + 1
  BY <1>2 DEF Faulty
<1>6. \A u \in Tasks \ {t} : Lost(u)' <=> Lost(u)
  BY <1>1, <1>2, <1>3, <1>4
<1> QED
  BY <1>1, <1>5, <1>6

(* What a dispatch step does to the retry counter of its task. *)
LEMMA DispatchRetries ==
  ASSUME TypeOK, NEW s \in Slots, Dispatch(s), ~Slip(s), NEW t, t = flights[s].task
  PROVE  \/ /\ rows'[t].retry = rows[t].retry
            /\ rows'[t].status = "pending" => rows[t].status = "pending"
         \/ /\ At(s, "turn") /\ rows'[t].status = "pending"
            /\ rows[t].retry < MaxRetries /\ rows'[t].retry = rows[t].retry + 1
<1>1. t \in Tasks /\ rows[t] \in Row
  BY DispatchFrame
<1>2. ASSUME NEW row, Update(t, row)
      PROVE  rows'[t] = row \/ rows'[t] = rows[t]
  BY <1>1, <1>2 DEF Update, TypeOK
<1>3. /\ \A st : LET row == [rows[t] EXCEPT !.status = st, !.age = 0]
                 IN  row.retry = rows[t].retry /\ row.status = st
      /\ [rows[t] EXCEPT !.response = TRUE].retry = rows[t].retry
      /\ [rows[t] EXCEPT !.response = TRUE].status = rows[t].status
  BY <1>1 DEF Row
<1>4. CASE StartTurn(s)
  <2> DEFINE row == [rows[t] EXCEPT !.status = "running", !.age = 0]
  <2>1. Update(t, row)
    BY <1>4 DEF StartTurn
  <2>2. row.status = "running" /\ row.retry = rows[t].retry
    BY <1>3
  <2> HIDE DEF row
  <2> QED
    BY <1>2, <2>1, <2>2
<1>5. CASE SaveResponse(s)
  <2> DEFINE row == [rows[t] EXCEPT !.response = TRUE]
  <2>1. Update(t, row)
    BY <1>5 DEF SaveResponse
  <2>2. row.status = rows[t].status /\ row.retry = rows[t].retry
    BY <1>3
  <2> HIDE DEF row
  <2> QED
    BY <1>2, <2>1, <2>2
<1>6. CASE CompleteEnvelope(s) \/ ForwardAnswered(s)
  <2> DEFINE row == [rows[t] EXCEPT !.status = "done", !.age = 0]
  <2>1. Update(t, row)
    BY <1>6 DEF CompleteEnvelope, ForwardAnswered
  <2>2. row.status = "done" /\ row.retry = rows[t].retry
    BY <1>3
  <2> HIDE DEF row
  <2> QED
    BY <1>2, <2>1, <2>2
<1>7. CASE \E text \in Texts : TurnFails(s, text)
  <2>1. PICK text \in Texts : TurnFails(s, text)
    BY <1>7
  <2> DEFINE after == AfterFailure(rows[t], IsTransient(text))
             back  == [Bare("pending") EXCEPT !.retry = rows[t].retry + 1,
                                              !.wait = Backoff]
  <2>2. back.retry = rows[t].retry + 1 /\ back.status = "pending"
    BY DEF Bare
  <2>3. \/ after = back /\ rows[t].retry < MaxRetries
        \/ after.status = "failed" /\ after.retry = rows[t].retry
    BY <1>3 DEF AfterFailure
  <2>4. Update(t, after) /\ At(s, "turn")
    BY <2>1 DEF TurnFails
  <2> HIDE DEF after, back
  <2> QED
    BY <1>2, <2>2, <2>3, <2>4
<1>8. CASE ResolveFails(s) \/ Panics(s) \/ HardTimeoutFires(s) \/ InsertBilling(s)
  BY <1>8 DEF ResolveFails, Panics, HardTimeoutFires, InsertBilling, lakeVars
<1> QED
  BY <1>4, <1>5, <1>6, <1>7, <1>8 DEF Dispatch, Outcome

LEMMA TickRetries ==
  ASSUME TypeOK, Tick, NEW t \in Tasks
  PROVE  rows'[t].retry = rows[t].retry
<1>1. rows[t] \in Row
  BY DEF TypeOK
<1>2. \A a, w : [rows[t] EXCEPT !.age = a, !.wait = w].retry = rows[t].retry
  BY <1>1 DEF Row
<1>3. \E a, w : rows'[t] = [rows[t] EXCEPT !.age = a, !.wait = w]
  BY DEF Tick
<1> QED
  BY <1>2, <1>3

LEMMA LifeInvInit == Init => LifeInv
BY BareRetry DEF Init, LifeInv

LEMMA LifeInvNext == TypeOK /\ LifeInv /\ [Next]_vars => LifeInv'
<1> SUFFICES ASSUME TypeOK, LifeInv, [Next]_vars PROVE LifeInv'
  OBVIOUS
<1>1. CASE \E s \in Slots : Dispatch(s)
  <2>1. PICK s \in Slots : Dispatch(s)
    BY <1>1
  <2>2. PICK t \in Tasks : t = flights[s].task
    BY <2>1, DispatchFrame
  <2>3. \A u \in Tasks \ {t} : rows'[u] = rows[u]
    BY <2>1, <2>2, DispatchFrame
  <2>4. rows'[t].status = "absent" => rows'[t] \in {rows[t], Bare("absent")}
    BY <2>1, <2>2, DispatchEffect
  <2> QED
    BY <2>3, <2>4, BareRetry DEF LifeInv
<1>2. CASE UNCHANGED rows
  BY <1>2 DEF LifeInv
<1>3. CASE \/ Poll \/ ReapStuckTasks \/ RetryPending \/ UNCHANGED vars
           \/ \E t \in Tasks : PickUp(t) \/ PickUpFails(t)
  BY <1>2, <1>3
     DEF Poll, ReapStuckTasks, RetryPending, PickUp, PickUpFails, vars, lakeVars
<1>4. CASE \E t \in Tasks : Ingest(t) \/ RetryTask(t) \/ RetryFails(t)
  <2>1. PICK t \in Tasks, st \in {"pending", "absent"} :
          rows' = [rows EXCEPT ![t] = Bare(st)]
    BY <1>4 DEF Ingest, RetryTask, RetryFails
  <2> QED
    BY <2>1, BareRetry DEF LifeInv, TypeOK
<1>5. CASE \/ Crash \/ CrashInPurge \/ Restart \/ PurgeFails
           \/ \E t \in Tasks : CrashInReplace(t)
  <2>1. \A t \in Tasks : rows'[t] = rows[t] \/ rows'[t] = Bare("absent")
    BY <1>5 DEF Crash, CrashInReplace, CrashInPurge, Restart, PurgeFails, TypeOK
  <2> QED
    BY <2>1, BareRetry DEF LifeInv
<1>6. CASE Tick
  BY <1>6, TickKeeps, TickRetries DEF LifeInv
<1> QED
  BY <1>1, <1>3, <1>4, <1>5, <1>6 DEF Next

(* A step that changes one task is a step of that task alone. *)
LEMMA LifeMoves ==
  ASSUME NEW t \in Tasks,
         \A u \in Tasks \ {t} : /\ LifeStatus(u)' = LifeStatus(u)
                                /\ rows'[u].retry = rows[u].retry,
         NEW from, LifeStatus(t) = from, NEW to, LifeStatus(t)' = to
  PROVE  /\ Lifecycle!Move(t, from, to)
         /\ rows'[t].retry = rows[t].retry =>
              [u \in Tasks |-> rows[u].retry]' = [u \in Tasks |-> rows[u].retry]
         /\ [u \in Tasks |-> rows[u].retry]'
              = [[u \in Tasks |-> rows[u].retry] EXCEPT ![t] = rows'[t].retry]
<1>1. [u \in Tasks |-> LifeStatus(u)]'
        = [[u \in Tasks |-> LifeStatus(u)] EXCEPT ![t] = to]
  OBVIOUS
<1> QED
  BY <1>1 DEF Lifecycle!Move, LifeStatus

LEMMA LifeStays ==
  ASSUME \A t \in Tasks : /\ LifeStatus(t)' = LifeStatus(t)
                          /\ rows'[t].retry = rows[t].retry
  PROVE  /\ UNCHANGED faults => UNCHANGED Lifecycle!lifeVars
         /\ faults < MaxFaults /\ faults' = faults + 1 => Lifecycle!Slip
<1>1. /\ [t \in Tasks |-> LifeStatus(t)]' = [t \in Tasks |-> LifeStatus(t)]
      /\ [t \in Tasks |-> rows[t].retry]' = [t \in Tasks |-> rows[t].retry]
  OBVIOUS
<1> QED
  BY <1>1 DEF Lifecycle!lifeVars, Lifecycle!Slip, Lifecycle!Fault, LifeStatus

(* A dispatch step in which no statement fails. *)
LEMMA LifeDispatch ==
  ASSUME TypeOK, QuietInv, Undisturbed, Direct, NEW s \in Slots, Dispatch(s), ~Slip(s)
  PROVE  [Lifecycle!Next]_(Lifecycle!lifeVars)
<1>0. PICK t \in Tasks : t = flights[s].task
  BY DispatchFrame
<1>1. /\ s \in Busy /\ UNCHANGED <<dropped, faults>>
      /\ \A u \in Tasks \ {t} : rows'[u] = rows[u]
  BY <1>0, DispatchFrame, SlipFrame
<1>2. /\ At(s, "starting") => rows[t].status = "pending"
      /\ At(s, "turn") => rows[t].status = "running"
      /\ At(s, "saved") => rows[t].status = "running"
      /\ At(s, "completed") => rows[t].status = "done"
  BY <1>0, <1>1 DEF QuietInv, InStep, Direct, DirectTasks
<1>3. ~Lost(t)
  BY <1>0, <1>1 DEF QuietInv, LeftAlone, Direct, DirectTasks
<1>4. \A u \in Tasks : Lost(u)' <=> Lost(u)
  BY <1>1 DEF Lost, Unwritten
<1>5. /\ LifeStatus(t) = rows[t].status /\ LifeStatus(t)' = rows'[t].status
      /\ \A u \in Tasks \ {t} : /\ LifeStatus(u)' = LifeStatus(u)
                                /\ rows'[u].retry = rows[u].retry
  BY <1>1, <1>3, <1>4 DEF LifeStatus
<1>6. \/ /\ rows'[t].retry = rows[t].retry
         /\ rows'[t].status = "pending" => rows[t].status = "pending"
      \/ /\ At(s, "turn") /\ rows'[t].status = "pending"
         /\ rows[t].retry < MaxRetries /\ rows'[t].retry = rows[t].retry + 1
  BY <1>0, DispatchRetries
<1>7. \/ rows'[t].status = rows[t].status /\ rows'[t].retry = rows[t].retry
      \/ /\ rows[t].status = "pending" /\ rows'[t].status = "running"
         /\ rows'[t].retry = rows[t].retry
      \/ /\ rows[t].status = "running" /\ rows'[t].status \in {"done", "failed"}
         /\ rows'[t].retry = rows[t].retry
      \/ /\ rows[t].status = "running" /\ rows'[t].status = "pending"
         /\ rows[t].retry < MaxRetries /\ rows'[t].retry = rows[t].retry + 1
  <2>1. <<t, "row">> \notin dropped' /\ ~Unwritten(t)'
    BY <1>3, <1>4 DEF Lost
  <2> QED
    BY <1>0, <1>2, <1>6, <2>1, DispatchEffect DEF Continues, Ends, At
<1>8. CASE rows'[t].status = rows[t].status /\ rows'[t].retry = rows[t].retry
  <2>1. \A u \in Tasks : LifeStatus(u)' = LifeStatus(u) /\ rows'[u].retry = rows[u].retry
    BY <1>5, <1>8
  <2> QED
    BY <1>1, <2>1, LifeStays
<1>9. CASE /\ rows[t].status = "pending" /\ rows'[t].status = "running"
           /\ rows'[t].retry = rows[t].retry
  <2>1. Lifecycle!Begin(t)
    BY <1>1, <1>5, <1>9, LifeMoves DEF Lifecycle!Begin
  <2> QED
    BY <2>1 DEF Lifecycle!Next
<1>10. CASE /\ rows[t].status = "running" /\ rows'[t].status = "done"
            /\ rows'[t].retry = rows[t].retry
  <2>1. Lifecycle!Succeed(t)
    BY <1>1, <1>5, <1>10, LifeMoves DEF Lifecycle!Succeed
  <2> QED
    BY <2>1 DEF Lifecycle!Next, Lifecycle!EndOfTurn
<1>11. CASE /\ rows[t].status = "running" /\ rows'[t].status = "failed"
            /\ rows'[t].retry = rows[t].retry
  <2>1. Lifecycle!GiveUp(t)
    BY <1>1, <1>5, <1>11, LifeMoves DEF Lifecycle!GiveUp
  <2> QED
    BY <2>1 DEF Lifecycle!Next, Lifecycle!EndOfTurn
<1>12. CASE /\ rows[t].status = "running" /\ rows'[t].status = "pending"
            /\ rows[t].retry < MaxRetries /\ rows'[t].retry = rows[t].retry + 1
  <2>1. Lifecycle!Move(t, "running", "pending")
    BY <1>5, <1>12, LifeMoves
  <2>2. [u \in Tasks |-> rows[u].retry]'
          = [[u \in Tasks |-> rows[u].retry] EXCEPT ![t] = rows[t].retry + 1]
    BY <1>5, <1>12, LifeMoves
  <2>3. Lifecycle!PutBack(t)
    BY <1>1, <1>12, <2>1, <2>2 DEF Lifecycle!PutBack
  <2> QED
    BY <2>3 DEF Lifecycle!Next, Lifecycle!EndOfTurn
<1> QED
  BY <1>7, <1>8, <1>9, <1>10, <1>11, <1>12

(* A dispatch step in which a statement fails. *)
LEMMA LifeSlip ==
  ASSUME TypeOK, QuietInv, Undisturbed, Direct, NEW s \in Slots, Dispatch(s), Slip(s)
  PROVE  [Lifecycle!Next]_(Lifecycle!lifeVars)
<1>0. PICK t \in Tasks : t = flights[s].task
  BY DispatchFrame
<1>1. /\ s \in Busy /\ rows[t] \in Row
      /\ \A u \in Tasks \ {t} : /\ LifeStatus(u)' = LifeStatus(u)
                                /\ rows'[u].retry = rows[u].retry
  BY <1>0, DispatchFrame, SlipFrame DEF LifeStatus
<1>2. /\ At(s, "turn") => rows[t].status = "running"
      /\ At(s, "saved") => rows[t].status = "running"
  BY <1>0, <1>1 DEF QuietInv, InStep, Direct, DirectTasks
<1>3. ~Lost(t) /\ LifeStatus(t) = rows[t].status
  BY <1>0, <1>1 DEF QuietInv, LeftAlone, Direct, DirectTasks, LifeStatus
<1>4. Lifecycle!Fault
  BY SlipFrame, <1>0 DEF Lifecycle!Fault
<1>5. ASSUME NEW what, Faulty({<<t, what>>})
      PROVE  Lost(t)' <=> what \in {"outcome", "row"}
  <2>1. dropped' = dropped \cup {<<t, what>>}
    BY <1>5 DEF Faulty
  <2>2. <<t, "outcome">> \notin dropped /\ <<t, "row">> \notin dropped
    BY <1>3 DEF Lost, Unwritten
  <2>3. Lost(t)' <=> \/ <<t, "outcome">> = <<t, what>> \/ <<t, "row">> = <<t, what>>
    BY <2>1, <2>2 DEF Lost, Unwritten
  <2> QED
    BY <2>3
<1>6. Faulty({}) => ~Lost(t)'
  BY <1>3 DEF Faulty, Lost, Unwritten
<1>7. ASSUME UNCHANGED rows, ~Lost(t)'
      PROVE  Lifecycle!Slip
  <2>1. \A u \in Tasks : LifeStatus(u)' = LifeStatus(u) /\ rows'[u].retry = rows[u].retry
    BY <1>1, <1>3, <1>7 DEF LifeStatus
  <2> QED
    BY <1>4, <2>1, LifeStays DEF Lifecycle!Fault
<1>8. ASSUME Lost(t)', rows[t].status = "running", rows'[t].retry \in {rows[t].retry, 0}
      PROVE  Lifecycle!Lose(t)
  <2>1. LifeStatus(t) = "running" /\ LifeStatus(t)' = "lost"
    BY <1>3, <1>8 DEF LifeStatus
  <2>2. Lifecycle!Move(t, "running", "lost")
    BY <1>1, <2>1, LifeMoves
  <2>3. \/ [u \in Tasks |-> rows[u].retry]' = [u \in Tasks |-> rows[u].retry]
        \/ [u \in Tasks |-> rows[u].retry]'
             = [[u \in Tasks |-> rows[u].retry] EXCEPT ![t] = 0]
    BY <1>1, <1>8, <2>1, LifeMoves
  <2> QED
    BY <1>4, <2>2, <2>3 DEF Lifecycle!Lose
<1>9. CASE StartFails(s) \/ SaveFails(s) \/ BillingFails(s)
  <2>1. UNCHANGED rows
    BY <1>9 DEF StartFails, SaveFails, BillingFails, lakeVars
  <2>2. Faulty({}) \/ Faulty({<<t, "response">>}) \/ Faulty({<<t, "bill">>})
    BY <1>0, <1>9 DEF StartFails, SaveFails, BillingFails
  <2>3. ~Lost(t)'
    BY <1>5, <1>6, <2>2
  <2> QED
    BY <1>7, <2>1, <2>3 DEF Lifecycle!Next
<1>10. CASE CompletionFails(s)
  <2>1. UNCHANGED rows /\ Faulty({<<t, "outcome">>}) /\ rows[t].status = "running"
    BY <1>0, <1>2, <1>10 DEF CompletionFails, lakeVars
  <2> QED
    BY <1>5, <1>8, <2>1 DEF Lifecycle!Next
<1>11. CASE \E text \in Texts : FailureFails(s, text)
  <2>1. PICK text \in Texts : FailureFails(s, text)
    BY <1>11
  <2> DEFINE row == [rows[t] EXCEPT !.retry = 0]
  <2>2. rows[t].status = "running"
    BY <1>2, <2>1 DEF FailureFails
  <2>3. CASE Faulty({<<t, "outcome">>}) /\ UNCHANGED rows
    BY <1>5, <1>8, <2>2, <2>3 DEF Lifecycle!Next
  <2>4. CASE Faulty({<<t, "row">>}) /\ rows' = [rows EXCEPT ![t] = Bare("absent")]
    <3>1. rows'[t].retry = 0
      BY <2>4, BareRetry DEF TypeOK
    <3> QED
      BY <1>5, <1>8, <2>2, <2>4, <3>1 DEF Lifecycle!Next
  <2>5. CASE Faulty({}) /\ Update(t, AfterFailure(row, TRUE))
    <3>1. ~Lost(t)' /\ LifeStatus(t)' = rows'[t].status
      BY <1>6, <2>5 DEF LifeStatus
    <3>2. rows'[t] = AfterFailure(row, TRUE)
      BY <2>2, <2>5 DEF Update, Exists, TypeOK
    <3>3. row.retry = 0 /\ [row EXCEPT !.status = "failed", !.age = 0].retry = 0
          /\ [row EXCEPT !.status = "failed", !.age = 0].status = "failed"
      BY <1>1 DEF Row
    <3>4. CASE MaxRetries > 0
      <4>1. rows'[t] = [Bare("pending") EXCEPT !.retry = row.retry + 1, !.wait = Backoff]
        BY <3>2, <3>3, <3>4 DEF AfterFailure
      <4>2. rows'[t].status = "pending" /\ rows'[t].retry = 1
        BY <3>3, <4>1 DEF Bare
      <4>3. Lifecycle!Move(t, "running", "pending")
            /\ [u \in Tasks |-> rows[u].retry]'
                 = [[u \in Tasks |-> rows[u].retry] EXCEPT ![t] = 1]
        BY <1>1, <1>3, <2>2, <3>1, <4>2, LifeMoves
      <4>4. Lifecycle!Forget(t)
        BY <1>4, <3>4, <4>3 DEF Lifecycle!Forget
      <4> QED
        BY <4>4 DEF Lifecycle!Next
    <3>5. CASE ~(MaxRetries > 0)
      <4>1. rows'[t].status = "failed" /\ rows'[t].retry = 0
        BY <3>2, <3>3, <3>5 DEF AfterFailure
      <4>2. rows[t].retry = 0
        BY <1>1, <3>5, QueueAssumption DEF Row
      <4>3. Lifecycle!Move(t, "running", "failed")
            /\ [u \in Tasks |-> rows[u].retry]' = [u \in Tasks |-> rows[u].retry]
        BY <1>1, <1>3, <2>2, <3>1, <4>1, <4>2, LifeMoves
      <4>4. Lifecycle!GiveUp(t)
        BY <1>4, <4>3 DEF Lifecycle!GiveUp
      <4> QED
        BY <4>4 DEF Lifecycle!Next, Lifecycle!EndOfTurn
    <3> QED
      BY <3>4, <3>5
  <2> QED
    BY <1>0, <2>1, <2>3, <2>4, <2>5 DEF FailureFails
<1> QED
  BY <1>9, <1>10, <1>11 DEF Slip

LEMMA LifeNext ==
  TypeOK /\ ServiceInv /\ ClockInv /\ LifeInv /\ QuietInv /\ Direct
    /\ Undisturbed' /\ crashes' = 0 /\ [Next]_vars
    => [Lifecycle!Next]_(Lifecycle!lifeVars)
<1> SUFFICES ASSUME TypeOK, ServiceInv, ClockInv, LifeInv, QuietInv, Direct,
                    Undisturbed', crashes' = 0, [Next]_vars
             PROVE  [Lifecycle!Next]_(Lifecycle!lifeVars)
  OBVIOUS
<1>1. /\ Undisturbed /\ crashes = 0 /\ up
      /\ ~RetryPending /\ ~Crash /\ ~CrashInPurge
      /\ \A t \in Tasks : ~RetryTask(t) /\ ~RetryFails(t) /\ ~CrashInReplace(t)
  BY CountersGrow DEF Undisturbed, ClockInv
<1>2. CASE \E t \in Tasks : Ingest(t)
  <2>1. PICK t \in Tasks : Ingest(t)
    BY <1>2
  <2>2. UNCHANGED <<dropped, faults>>
    BY <2>1 DEF Ingest, boundVars, faultVars
  <2>3. rows[t].status = "absent" /\ rows[t].retry = 0 /\ ~Lost(t)
    BY <1>1, <2>1
       DEF Ingest, ServiceInv, LifeInv, QuietInv, LeftAlone, Direct, DirectTasks
  <2>4. /\ rows'[t].status = "pending" /\ rows'[t].retry = 0
        /\ \A u \in Tasks \ {t} : rows'[u] = rows[u]
    BY <2>1, BareColumns, BareRetry DEF Ingest, TypeOK
  <2>5. /\ LifeStatus(t) = "absent" /\ LifeStatus(t)' = "pending"
        /\ \A u \in Tasks \ {t} : /\ LifeStatus(u)' = LifeStatus(u)
                                  /\ rows'[u].retry = rows[u].retry
    BY <2>2, <2>3, <2>4 DEF LifeStatus, Lost, Unwritten
  <2>6. Lifecycle!Submit(t)
    BY <2>2, <2>3, <2>4, <2>5, LifeMoves DEF Lifecycle!Submit
  <2> QED
    BY <2>6 DEF Lifecycle!Next
<1>3. CASE \E s \in Slots : Dispatch(s)
  BY <1>1, <1>3, LifeDispatch, LifeSlip
<1>4. CASE \/ Poll \/ ReapStuckTasks \/ UNCHANGED vars
           \/ \E t \in Tasks : PickUp(t) \/ PickUpFails(t)
  <2>1. /\ UNCHANGED <<rows, dropped>>
        /\ UNCHANGED faults \/ (faults < MaxFaults /\ faults' = faults + 1)
    BY <1>4 DEF Poll, ReapStuckTasks, PickUp, PickUpFails, Faulty, vars, lakeVars,
                boundVars, faultVars
  <2>2. \A t \in Tasks : LifeStatus(t)' = LifeStatus(t) /\ rows'[t].retry = rows[t].retry
    BY <2>1 DEF LifeStatus, Lost, Unwritten
  <2> QED
    BY <2>1, <2>2, LifeStays DEF Lifecycle!Next
<1>5. CASE Tick
  <2>1. UNCHANGED <<dropped, faults>>
    BY <1>5 DEF Tick, boundVars, faultVars
  <2>2. \A t \in Tasks : LifeStatus(t)' = LifeStatus(t) /\ rows'[t].retry = rows[t].retry
    BY <1>5, <2>1, TickKeeps, TickRetries DEF LifeStatus, Lost, Unwritten
  <2> QED
    BY <2>1, <2>2, LifeStays
<1> QED
  BY <1>1, <1>2, <1>3, <1>4, <1>5 DEF Next, Restart, PurgeFails, CrashInPurge

(* The undisturbed queue gives every task the life TaskLifecycle describes:
   pending, running, and back at most MaxRetries times, or settled for good,
   but for what a failed statement lost.  (That attempts are made and end is
   fairness, and left to the run.) *)
THEOREM QueueIsLifecycle ==
  Spec /\ [](Undisturbed /\ Direct /\ crashes = 0) => LifecycleSpec
<1>1. Init => Lifecycle!Init
  <2> SUFFICES ASSUME Init PROVE Lifecycle!Init
    OBVIOUS
  <2>1. \A t \in Tasks : rows[t].status = "absent" /\ rows[t].retry = 0
    BY BareColumns, BareRetry DEF Init
  <2>2. faults = 0 /\ \A t \in Tasks : ~Lost(t)
    BY DEF Init, Lost, Unwritten
  <2> QED
    BY <2>1, <2>2 DEF Lifecycle!Init
<1>2. Spec => []LifeInv
  BY TypeCorrect, LifeInvInit, LifeInvNext, PTL DEF Spec
<1>3. TypeOK /\ ServiceInv /\ ClockInv /\ QuietInv /\ LifeInv
        /\ (Undisturbed /\ Direct /\ crashes = 0)' /\ [Next]_vars
          => [Lifecycle!Next]_(Lifecycle!lifeVars)
  BY LifeNext DEF Direct
<1> QED
  BY <1>1, <1>2, <1>3, QuietAlways, PTL DEF Spec, LifecycleSpec, Lifecycle!Spec

=============================================================================
