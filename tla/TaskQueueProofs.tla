--------------------------- MODULE TaskQueueProofs ---------------------------
(***************************************************************************)
(* Theorems about TaskQueue for every value of its constants.              *)
(***************************************************************************)
EXTENDS TaskQueue, FiniteSetTheorems, TLAPS

\* The counter is exact but for what panics leaked, and what the poll listed
\* still fits.
Counted == /\ Cardinality(Busy) <= inFlight
           /\ SlotsLeakOnlyByPanic
Room    == inFlight + Cardinality(batch) <= WORKER_CONCURRENCY

QueueInv == TypeOK /\ Counted /\ Room

-----------------------------------------------------------------------------
(* Rows the actions write are rows. *)
LEMMA BareIsRow ==
  ASSUME NEW st \in Statuses
  PROVE  Bare(st) \in Row
BY QueueAssumption DEF Bare, Row

(* Setting one column. *)
LEMMA ColumnsAreTyped ==
  ASSUME NEW row \in Row
  PROVE  /\ \A st \in Statuses : [row EXCEPT !.status = st] \in Row
         /\ \A n \in 0..MaxRetries : [row EXCEPT !.retry = n] \in Row
         /\ \A n \in 0..Backoff : [row EXCEPT !.wait = n] \in Row
         /\ \A n \in 0..PurgeAge : [row EXCEPT !.age = n] \in Row
         /\ [row EXCEPT !.response = TRUE] \in Row
BY DEF Row

(* What a turn writes into a row, its start, its response, its end. *)
LEMMA TurnUpdatesAreRows ==
  ASSUME NEW row \in Row
  PROVE  /\ [row EXCEPT !.status = "running", !.age = 0] \in Row
         /\ [row EXCEPT !.response = TRUE] \in Row
         /\ [row EXCEPT !.status = "done", !.age = 0] \in Row
         /\ [row EXCEPT !.status = "failed", !.age = 0] \in Row
<1>1. 0 \in 0..PurgeAge
  BY QueueAssumption
<1>2. ASSUME NEW st \in Statuses
      PROVE  [row EXCEPT !.status = st, !.age = 0] \in Row
  <2>1. [row EXCEPT !.status = st] \in Row
    BY ColumnsAreTyped
  <2>2. QED
    BY <1>1, <2>1, ColumnsAreTyped
<1>3. QED
  BY <1>2, ColumnsAreTyped DEF Statuses

(* What a failed dispatch leaves of a row is a row: the retry counter never
   passes max_retries. *)
LEMMA AfterFailureIsRow ==
  ASSUME NEW row \in Row, NEW transient \in BOOLEAN
  PROVE  AfterFailure(row, transient) \in Row
<1>1. CASE transient /\ row.retry < MaxRetries
  <2>1. AfterFailure(row, transient)
          = [Bare("pending") EXCEPT !.retry = row.retry + 1, !.wait = Backoff]
    BY <1>1 DEF AfterFailure
  <2>2. row.retry + 1 \in 0..MaxRetries /\ Backoff \in 0..Backoff
    BY <1>1, QueueAssumption DEF Row
  <2>3. [Bare("pending") EXCEPT !.retry = row.retry + 1] \in Row
    BY <2>2, BareIsRow, ColumnsAreTyped DEF Statuses
  <2>4. QED
    BY <2>1, <2>2, <2>3, ColumnsAreTyped
<1>2. CASE ~(transient /\ row.retry < MaxRetries)
  BY <1>2, TurnUpdatesAreRows DEF AfterFailure
<1>3. QED
  BY <1>1, <1>2

(* A lake update keeps the table a table of rows. *)
LEMMA UpdateKeepsRows ==
  ASSUME rows \in [Tasks -> Row], NEW t \in Tasks, NEW row \in Row,
         Update(t, row)
  PROVE  rows' \in [Tasks -> Row]
BY DEF Update

-----------------------------------------------------------------------------
(* Bookkeeping of the futures. *)
LEMMA BusyIsFinite == IsFiniteSet(Busy) /\ Cardinality(Busy) \in Nat
<1>1. Busy \in SUBSET Slots
  BY DEF Busy
<1>2. QED
  BY <1>1, FS_Subset, FS_CardinalityType, QueueAssumption

(* A future that ends gives its place back, once. *)
LEMMA ReleaseKeepsCount ==
  ASSUME TypeOK, Counted, NEW s \in Slots, s \in Busy, Release(s),
         orphaned \subseteq orphaned'
  PROVE  /\ flights' \in [Slots -> Flight]
         /\ \A r \in Busy' : flights'[r].task \in Tasks
         /\ inFlight' \in Nat
         /\ Counted'
         /\ inFlight' <= inFlight
<1>1. Idle \in Flight
  BY QueueAssumption DEF Idle, Flight, PCs
<1>2. flights' \in [Slots -> Flight]
  BY <1>1 DEF TypeOK, Release
<1>3. Busy' = Busy \ {s}
  BY <1>2 DEF Busy, Release, Idle, TypeOK
<1>4. \A r \in Busy' : flights'[r].task \in Tasks
  BY <1>3 DEF TypeOK, Release, Busy
<1>5. Cardinality(Busy') = Cardinality(Busy) - 1
  BY <1>3, BusyIsFinite, FS_RemoveElement
<1>6. Cardinality(Busy') \in Nat
  BY <1>3, BusyIsFinite, FS_RemoveElement, FS_CardinalityType
<1>7. QED
  BY <1>2, <1>4, <1>5, <1>6, BusyIsFinite
     DEF Counted, SlotsLeakOnlyByPanic, Release, TypeOK

(* A future that goes on keeps its place. *)
LEMMA GoToKeepsCount ==
  ASSUME TypeOK, Counted, NEW s \in Slots, s \in Busy,
         NEW pc \in PCs \ {"idle"}, GoTo(s, pc), UNCHANGED orphaned
  PROVE  /\ flights' \in [Slots -> Flight]
         /\ \A r \in Busy' : flights'[r].task \in Tasks
         /\ Counted'
<1>1. flights[s] \in Flight
  BY DEF TypeOK
<1>2. [flights[s] EXCEPT !.pc = pc] \in Flight
  BY <1>1 DEF Flight
<1>3. flights' \in [Slots -> Flight]
  BY <1>2 DEF TypeOK, GoTo
<1>4. /\ Busy' = Busy
      /\ \A r \in Slots : flights'[r].task = flights[r].task
  BY <1>1, <1>3 DEF Busy, GoTo, TypeOK, Flight
<1>5. QED
  BY <1>3, <1>4 DEF TypeOK, Counted, SlotsLeakOnlyByPanic, GoTo, Busy

(* A future that is spawned takes an idle slot and one place of the batch. *)
LEMMA PickUpKeepsCount ==
  ASSUME QueueInv, NEW t \in Tasks, PickUp(t)
  PROVE  /\ flights' \in [Slots -> Flight]
         /\ \A r \in Busy' : flights'[r].task \in Tasks
         /\ inFlight' \in Nat /\ batch' \subseteq Tasks
         /\ Counted' /\ Room'
<1>1. IsFiniteSet(batch)
  BY FS_Subset, QueueAssumption DEF QueueInv, TypeOK
<1>2. /\ Cardinality(batch \ {t}) = Cardinality(batch) - 1
      /\ Cardinality(batch) \in Nat
  BY <1>1, FS_RemoveElement, FS_CardinalityType DEF PickUp
<1>3. CASE rows[t].status = "pending"
  <2>1. PICK s \in Slots \ Busy :
          flights' = [flights EXCEPT
                        ![s] = [task |-> t, pc |-> "starting", age |-> 0]]
    BY <1>3 DEF PickUp
  <2>2. [task |-> t, pc |-> "starting", age |-> 0] \in Flight
    BY QueueAssumption DEF Flight, PCs
  <2>3. flights' \in [Slots -> Flight]
    BY <2>1, <2>2 DEF QueueInv, TypeOK
  <2>4. Busy' = Busy \cup {s}
    BY <2>1, <2>3 DEF Busy, QueueInv, TypeOK
  <2>5. \A r \in Busy' : flights'[r].task \in Tasks
    BY <2>1, <2>4 DEF QueueInv, TypeOK, Busy
  <2>6. Cardinality(Busy') = Cardinality(Busy) + 1
    BY <2>1, <2>4, BusyIsFinite, FS_AddElement
  <2>7. inFlight' = inFlight + 1 /\ batch' = batch \ {t}
    BY <1>3 DEF PickUp
  <2>8. inFlight' \in Nat /\ Counted'
    BY <2>6, <2>7, BusyIsFinite
       DEF QueueInv, TypeOK, Counted, SlotsLeakOnlyByPanic, PickUp
  <2>9. batch' \subseteq Tasks
    BY <2>7 DEF QueueInv, TypeOK
  <2>10. Room'
    BY <1>2, <2>7, QueueAssumption DEF QueueInv, TypeOK, Room
  <2>11. QED
    BY <2>3, <2>5, <2>8, <2>9, <2>10
<1>4. CASE rows[t].status # "pending"
  <2>1. UNCHANGED <<flights, inFlight>> /\ batch' = batch \ {t}
    BY <1>4 DEF PickUp
  <2>2. QED
    BY <1>2, <2>1, QueueAssumption
       DEF QueueInv, TypeOK, Counted, SlotsLeakOnlyByPanic, Room, Busy, PickUp
<1>5. QED
  BY <1>3, <1>4

(* Nothing of the worker's bookkeeping changes. *)
LEMMA WorkerUnchanged ==
  ASSUME QueueInv, UNCHANGED workerVars, UNCHANGED orphaned
  PROVE  /\ batch' \subseteq Tasks
         /\ flights' \in [Slots -> Flight]
         /\ \A r \in Busy' : flights'[r].task \in Tasks
         /\ inFlight' \in Nat
         /\ Counted' /\ Room'
BY DEF QueueInv, TypeOK, Counted, SlotsLeakOnlyByPanic, Room, Busy, workerVars

(* The process goes down: no future, no batch, a counter of zero. *)
LEMMA DownKeepsCount ==
  ASSUME QueueInv, Down
  PROVE  /\ batch' \subseteq Tasks
         /\ flights' \in [Slots -> Flight]
         /\ \A r \in Busy' : flights'[r].task \in Tasks
         /\ inFlight' \in Nat
         /\ Counted' /\ Room'
<1>1. Idle \in Flight
  BY QueueAssumption DEF Idle, Flight, PCs
<1>2. Busy' = {}
  BY DEF Down, Busy, Idle
<1>3. batch' = {} /\ inFlight' = 0 /\ flights' = [s \in Slots |-> Idle]
  BY DEF Down
<1>4. QED
  BY <1>1, <1>2, <1>3, FS_EmptySet, QueueAssumption
     DEF Counted, SlotsLeakOnlyByPanic, Room

(* A failing statement is counted, and what it did not write recorded. *)
LEMMA FaultyIsTyped ==
  ASSUME TypeOK, NEW t \in Tasks, NEW what,
         what \subseteq {t} \X {"response", "outcome", "bill", "row"},
         faults < MaxFaults, faults' = faults + 1, dropped' = dropped \cup what
  PROVE  /\ dropped' \subseteq Tasks \X {"response", "outcome", "bill", "row"}
         /\ faults' \in 0..MaxFaults
<1>1. faults' \in 0..MaxFaults
  BY QueueAssumption DEF TypeOK
<1>2. what \subseteq Tasks \X {"response", "outcome", "bill", "row"}
  OBVIOUS
<1>3. QED
  BY <1>1, <1>2 DEF TypeOK

-----------------------------------------------------------------------------
(* One dispatch step. *)
LEMMA DispatchKeepsInv ==
  ASSUME QueueInv, NEW s \in Slots, Dispatch(s)
  PROVE  QueueInv'
<1> DEFINE t == flights[s].task
<1>1. ASSUME s \in Busy
      PROVE  t \in Tasks /\ rows[t] \in Row
  BY <1>1 DEF QueueInv, TypeOK
<1>2. ASSUME s \in Busy, Release(s), UNCHANGED batch, orphaned \subseteq orphaned'
      PROVE  /\ flights' \in [Slots -> Flight]
             /\ \A r \in Busy' : flights'[r].task \in Tasks
             /\ inFlight' \in Nat
             /\ Counted' /\ Room'
  <2>1. /\ flights' \in [Slots -> Flight]
        /\ \A r \in Busy' : flights'[r].task \in Tasks
        /\ inFlight' \in Nat /\ inFlight' <= inFlight
        /\ Counted'
    BY <1>2, ReleaseKeepsCount DEF QueueInv
  <2>2. Cardinality(batch) \in Nat
    BY FS_Subset, FS_CardinalityType, QueueAssumption DEF QueueInv, TypeOK
  <2>3. QED
    BY <1>2, <2>1, <2>2, QueueAssumption DEF QueueInv, TypeOK, Room
<1>3. ASSUME s \in Busy, NEW pc \in PCs \ {"idle"}, GoTo(s, pc),
             UNCHANGED <<batch, orphaned>>
      PROVE  /\ flights' \in [Slots -> Flight]
             /\ \A r \in Busy' : flights'[r].task \in Tasks
             /\ inFlight' \in Nat
             /\ Counted' /\ Room'
  BY <1>3, GoToKeepsCount DEF QueueInv, TypeOK, Room, GoTo
<1>4. CASE StartTurn(s)
  <2>1. s \in Busy /\ GoTo(s, "turn") /\ UNCHANGED batch
    BY <1>4 DEF StartTurn, At, Busy
  <2>2. rows' \in [Tasks -> Row]
    BY <1>1, <1>4, <2>1, TurnUpdatesAreRows, UpdateKeepsRows
       DEF StartTurn, QueueInv, TypeOK
  <2>3. QED
    BY <1>3, <1>4, <2>1, <2>2
       DEF StartTurn, QueueInv, TypeOK, boundVars, faultVars, PCs
<1>5. CASE ResolveFails(s)
  <2>1. s \in Busy /\ Release(s) /\ UNCHANGED batch
    BY <1>5 DEF ResolveFails, At, Busy
  <2>2. QED
    BY <1>2, <1>5, <2>1
       DEF ResolveFails, QueueInv, TypeOK, boundVars, faultVars, lakeVars
<1>6. CASE SaveResponse(s)
  <2>1. s \in Busy /\ GoTo(s, "saved") /\ UNCHANGED batch
    BY <1>6 DEF SaveResponse, At, Busy
  <2>2. rows' \in [Tasks -> Row]
    BY <1>1, <1>6, <2>1, TurnUpdatesAreRows, UpdateKeepsRows
       DEF SaveResponse, QueueInv, TypeOK
  <2>3. QED
    BY <1>3, <1>6, <2>1, <2>2
       DEF SaveResponse, QueueInv, TypeOK, boundVars, faultVars, PCs
<1>7. CASE CompleteEnvelope(s)
  <2>1. s \in Busy /\ GoTo(s, "completed") /\ UNCHANGED batch
    BY <1>7 DEF CompleteEnvelope, At, Busy
  <2>2. rows' \in [Tasks -> Row]
    BY <1>1, <1>7, <2>1, TurnUpdatesAreRows, UpdateKeepsRows
       DEF CompleteEnvelope, QueueInv, TypeOK
  <2>3. QED
    BY <1>3, <1>7, <2>1, <2>2
       DEF CompleteEnvelope, QueueInv, TypeOK, boundVars, faultVars, PCs
<1>8. CASE InsertBilling(s)
  <2>1. s \in Busy /\ Release(s) /\ UNCHANGED batch
    BY <1>8 DEF InsertBilling, At, Busy
  <2>2. billed' \in [Tasks -> Nat]
    BY <1>1, <1>8, <2>1 DEF InsertBilling, QueueInv, TypeOK
  <2>3. QED
    BY <1>2, <1>8, <2>1, <2>2 DEF InsertBilling, QueueInv, TypeOK, boundVars, faultVars
<1>9. CASE ForwardAnswered(s)
  <2>1. s \in Busy /\ Release(s) /\ UNCHANGED batch
    BY <1>9 DEF ForwardAnswered, At, Busy
  <2>2. rows' \in [Tasks -> Row]
    BY <1>1, <1>9, <2>1, TurnUpdatesAreRows, UpdateKeepsRows
       DEF ForwardAnswered, QueueInv, TypeOK
  <2>3. QED
    BY <1>2, <1>9, <2>1, <2>2 DEF ForwardAnswered, QueueInv, TypeOK, boundVars, faultVars
<1>10. CASE \E text \in Texts : TurnFails(s, text)
  <2>1. PICK text \in Texts : TurnFails(s, text)
    BY <1>10
  <2>2. s \in Busy /\ Release(s) /\ UNCHANGED batch
    BY <2>1 DEF TurnFails, At, Busy
  <2>3. IsTransient(text) \in BOOLEAN
    BY DEF IsTransient
  <2>4. rows' \in [Tasks -> Row]
    BY <1>1, <2>1, <2>2, <2>3, AfterFailureIsRow, UpdateKeepsRows
       DEF TurnFails, QueueInv, TypeOK
  <2>5. QED
    BY <1>2, <2>1, <2>2, <2>4 DEF TurnFails, QueueInv, TypeOK, boundVars, faultVars
<1>11. CASE HardTimeoutFires(s)
  <2>1. s \in Busy /\ Release(s) /\ UNCHANGED batch
    BY <1>11 DEF HardTimeoutFires, Busy
  <2>2. orphaned' \subseteq Tasks
    BY <1>1, <1>11, <2>1 DEF HardTimeoutFires, QueueInv, TypeOK
  <2>3. QED
    BY <1>2, <1>11, <2>1, <2>2
       DEF HardTimeoutFires, QueueInv, TypeOK, boundVars, faultVars, lakeVars
<1>12. CASE Panics(s)
  <2>1. s \in Busy /\ UNCHANGED <<batch, inFlight>>
    BY <1>12 DEF Panics, At, Busy
  <2>2. Idle \in Flight
    BY QueueAssumption DEF Idle, Flight, PCs
  <2>3. flights' \in [Slots -> Flight] /\ Busy' = Busy \ {s}
    BY <1>12, <2>2 DEF Panics, QueueInv, TypeOK, Busy, Idle
  <2>4. \A r \in Busy' : flights'[r].task \in Tasks
    BY <1>12, <2>3 DEF Panics, QueueInv, TypeOK, Busy
  <2>5. /\ orphaned' \subseteq Tasks
        /\ orphaned' \cap Panicky # {}
    BY <1>1, <1>12, <2>1 DEF Panics, QueueInv, TypeOK
  <2>6. /\ Cardinality(Busy') = Cardinality(Busy) - 1
        /\ Cardinality(Busy') \in Nat
    BY <2>1, <2>3, BusyIsFinite, FS_RemoveElement, FS_CardinalityType
  <2>7. Counted' /\ Room'
    BY <2>1, <2>5, <2>6, BusyIsFinite
       DEF QueueInv, TypeOK, Counted, SlotsLeakOnlyByPanic, Room
  <2>8. QED
    BY <1>12, <2>1, <2>3, <2>4, <2>5, <2>7
       DEF Panics, QueueInv, TypeOK, boundVars, faultVars, lakeVars
<1>13. ASSUME s \in Busy, NEW what, Faulty(what),
              what \subseteq {t} \X {"response", "outcome", "bill", "row"}
       PROVE  /\ dropped' \subseteq Tasks \X {"response", "outcome", "bill", "row"}
              /\ faults' \in 0..MaxFaults
              /\ UNCHANGED <<ops, crashes>>
  BY <1>1, <1>13, FaultyIsTyped DEF Faulty, QueueInv
<1>14. CASE StartFails(s)
  <2>1. s \in Busy /\ Release(s) /\ UNCHANGED batch /\ Faulty({})
    BY <1>14 DEF StartFails, At, Busy
  <2>2. QED
    BY <1>2, <1>13, <1>14, <2>1 DEF StartFails, QueueInv, TypeOK, lakeVars
<1>15. CASE SaveFails(s)
  <2>1. s \in Busy /\ GoTo(s, "saved") /\ UNCHANGED batch /\ Faulty({<<t, "response">>})
    BY <1>15 DEF SaveFails, At, Busy
  <2>2. QED
    BY <1>3, <1>13, <1>15, <2>1 DEF SaveFails, QueueInv, TypeOK, lakeVars, PCs
<1>16. CASE CompletionFails(s)
  <2>1. s \in Busy /\ Release(s) /\ UNCHANGED batch /\ Faulty({<<t, "outcome">>})
    BY <1>16 DEF CompletionFails, At, Busy
  <2>2. QED
    BY <1>2, <1>13, <1>16, <2>1 DEF CompletionFails, QueueInv, TypeOK, lakeVars
<1>17. CASE BillingFails(s)
  <2>1. s \in Busy /\ Release(s) /\ UNCHANGED batch /\ Faulty({<<t, "bill">>})
    BY <1>17 DEF BillingFails, At, Busy
  <2>2. QED
    BY <1>2, <1>13, <1>17, <2>1 DEF BillingFails, QueueInv, TypeOK, lakeVars
<1>18. CASE \E text \in Texts : FailureFails(s, text)
  <2>1. PICK text \in Texts : FailureFails(s, text)
    BY <1>18
  <2>2. /\ s \in Busy /\ Release(s)
        /\ UNCHANGED <<lock, batch, billed, submitted, up, orphaned>>
    BY <2>1 DEF FailureFails, At, Busy
  <2>3. \E what : /\ Faulty(what)
                  /\ what \subseteq {t} \X {"response", "outcome", "bill", "row"}
    <3>1. /\ {<<t, "outcome">>} \subseteq {t} \X {"response", "outcome", "bill", "row"}
          /\ {<<t, "row">>} \subseteq {t} \X {"response", "outcome", "bill", "row"}
          /\ {} \subseteq {t} \X {"response", "outcome", "bill", "row"}
      OBVIOUS
    <3>2. Faulty({<<t, "outcome">>}) \/ Faulty({<<t, "row">>}) \/ Faulty({})
      BY <2>1 DEF FailureFails
    <3>3. QED
      BY <3>1, <3>2
  <2>4. rows' \in [Tasks -> Row]
    <3>1. CASE UNCHANGED rows
      BY <3>1 DEF QueueInv, TypeOK
    <3>2. CASE rows' = [rows EXCEPT ![t] = Bare("absent")]
      BY <3>2, BareIsRow DEF QueueInv, TypeOK, Statuses
    <3>3. CASE Update(t, AfterFailure([rows[t] EXCEPT !.retry = 0], TRUE))
      <4>0. 0 \in 0..MaxRetries
        BY QueueAssumption
      <4>1. [rows[t] EXCEPT !.retry = 0] \in Row
        BY <1>1, <2>2, <4>0, ColumnsAreTyped
      <4>2. AfterFailure([rows[t] EXCEPT !.retry = 0], TRUE) \in Row
        BY <4>1, AfterFailureIsRow
      <4>3. QED
        BY <1>1, <2>2, <3>3, <4>2, UpdateKeepsRows DEF QueueInv, TypeOK
    <3>4. QED
      BY <2>1, <3>1, <3>2, <3>3 DEF FailureFails
  <2>5. QED
    BY <1>2, <1>13, <2>2, <2>3, <2>4 DEF QueueInv, TypeOK
<1>19. QED
  BY <1>4, <1>5, <1>6, <1>7, <1>8, <1>9, <1>10, <1>11, <1>12, <1>14, <1>15,
     <1>16, <1>17, <1>18
     DEF Dispatch, Outcome, Slip

(* The invariant holds at the start and every step keeps it. *)
LEMMA QueueInvInit == Init => QueueInv
<1> SUFFICES ASSUME Init PROVE QueueInv
  OBVIOUS
<1>1. Idle \in Flight /\ Bare("absent") \in Row
  BY QueueAssumption, BareIsRow DEF Idle, Flight, PCs, Statuses
<1>2. Busy = {}
  BY DEF Init, Busy, Idle
<1>3. TypeOK
  BY <1>1, <1>2, QueueAssumption DEF Init, TypeOK
<1>4. Counted /\ Room
  BY <1>2, FS_EmptySet, QueueAssumption
     DEF Init, Counted, SlotsLeakOnlyByPanic, Room
<1>5. QED
  BY <1>3, <1>4 DEF QueueInv

LEMMA QueueInvNext == QueueInv /\ [Next]_vars => QueueInv'
<1> SUFFICES ASSUME QueueInv, [Next]_vars
             PROVE  QueueInv'
  OBVIOUS
<1>1. /\ Bare("pending") \in Row
      /\ Bare("absent") \in Row
  BY BareIsRow DEF Statuses
<1>2. CASE \E t \in Tasks : Ingest(t)
  BY <1>1, <1>2, WorkerUnchanged DEF Ingest, QueueInv, TypeOK, boundVars, faultVars
<1>3. CASE Poll
  <2>1. PICK S \in TakeFirst(WORKER_CONCURRENCY - inFlight) : batch' = S
    BY <1>3 DEF Poll
  <2>2. batch' \subseteq Tasks /\ inFlight' = inFlight
    BY <1>3, <2>1 DEF Poll, TakeFirst, Eligible
  <2>3. Cardinality(batch') <= WORKER_CONCURRENCY - inFlight
    BY <2>1 DEF TakeFirst
  <2>4. Cardinality(batch') \in Nat
    BY <2>2, FS_Subset, FS_CardinalityType, QueueAssumption
  <2>5. Room'
    BY <2>2, <2>3, <2>4, QueueAssumption DEF QueueInv, TypeOK, Room
  <2>6. Counted'
    BY <1>3 DEF Poll, QueueInv, Counted, SlotsLeakOnlyByPanic, Busy
  <2>7. TypeOK'
    BY <1>3, <2>2 DEF Poll, QueueInv, TypeOK, Busy, lakeVars, boundVars, faultVars
  <2>8. QED
    BY <2>5, <2>6, <2>7 DEF QueueInv
<1>4. CASE \E t \in Tasks : PickUp(t)
  BY <1>4, PickUpKeepsCount DEF PickUp, QueueInv, TypeOK, lakeVars, boundVars, faultVars
<1>5. CASE \E s \in Slots : Dispatch(s)
  BY <1>5, DispatchKeepsInv
<1>6. CASE ReapStuckTasks
  BY <1>6, WorkerUnchanged
     DEF ReapStuckTasks, QueueInv, TypeOK, lakeVars, boundVars, faultVars
<1>17. CASE \E t \in Tasks : PickUpFails(t)
  <2>1. PICK t \in Tasks : PickUpFails(t)
    BY <1>17
  <2>2. dropped' = dropped /\ faults' \in 0..MaxFaults
    BY <2>1, QueueAssumption DEF PickUpFails, Faulty, QueueInv, TypeOK
  <2>3. batch' \subseteq Tasks /\ IsFiniteSet(batch) /\ batch' \subseteq batch
    BY <2>1, FS_Subset, QueueAssumption DEF PickUpFails, QueueInv, TypeOK
  <2>4. /\ Cardinality(batch') <= Cardinality(batch)
        /\ Cardinality(batch') \in Nat /\ Cardinality(batch) \in Nat
    BY <2>3, FS_Subset, FS_CardinalityType
  <2>5. Counted' /\ Busy' = Busy
    BY <2>1 DEF PickUpFails, QueueInv, Counted, SlotsLeakOnlyByPanic, Busy
  <2>6. Room'
    BY <2>1, <2>4, QueueAssumption DEF PickUpFails, QueueInv, TypeOK, Room
  <2>7. QED
    BY <2>1, <2>2, <2>3, <2>5, <2>6
       DEF PickUpFails, Faulty, QueueInv, TypeOK, lakeVars
<1>7. CASE \E t \in Tasks : RetryTask(t)
  <2>1. PICK t \in Tasks : RetryTask(t)
    BY <1>7
  <2>2. ops' \in 0..MaxOps
    BY <2>1, QueueAssumption DEF RetryTask, QueueInv, TypeOK
  <2>3. QED
    BY <1>1, <2>1, <2>2, WorkerUnchanged DEF RetryTask, QueueInv, TypeOK, faultVars
<1>18. CASE \E t \in Tasks : RetryFails(t)
  <2>1. PICK t \in Tasks : RetryFails(t)
    BY <1>18
  <2>2. ops' \in 0..MaxOps
    BY <2>1, QueueAssumption DEF RetryFails, QueueInv, TypeOK
  <2>3. /\ dropped' \subseteq Tasks \X {"response", "outcome", "bill", "row"}
        /\ faults' \in 0..MaxFaults
    <3>1. {<<t, "row">>} \subseteq {t} \X {"response", "outcome", "bill", "row"}
      OBVIOUS
    <3>2. /\ faults < MaxFaults /\ faults' = faults + 1
          /\ dropped' = dropped \cup {<<t, "row">>}
      BY <2>1 DEF RetryFails
    <3>3. QED
      BY <3>1, <3>2, FaultyIsTyped DEF QueueInv
  <2>4. QED
    BY <1>1, <2>1, <2>2, <2>3, WorkerUnchanged DEF RetryFails, QueueInv, TypeOK
<1>8. CASE RetryPending
  <2>1. ops' \in 0..MaxOps
    BY <1>8, QueueAssumption DEF RetryPending, QueueInv, TypeOK
  <2>2. lock' \in {"free", "reaper", "retry"}
    BY <1>8 DEF RetryPending, QueueInv, TypeOK
  <2>3. QED
    BY <1>8, <2>1, <2>2, WorkerUnchanged
       DEF RetryPending, QueueInv, TypeOK, lakeVars, faultVars
<1>9. ASSUME Down, rows' \in [Tasks -> Row]
      PROVE  QueueInv'
  <2>1. crashes' \in 0..MaxCrashes
    BY <1>9, QueueAssumption DEF Down, QueueInv, TypeOK
  <2>2. orphaned' \subseteq Tasks
    BY <1>9 DEF Down, QueueInv, TypeOK
  <2>3. QED
    BY <1>9, <2>1, <2>2, DownKeepsCount DEF Down, QueueInv, TypeOK, faultVars
<1>10. CASE Crash
  BY <1>9, <1>10 DEF Crash, QueueInv, TypeOK
<1>11. CASE \E t \in Tasks : CrashInReplace(t)
  BY <1>1, <1>9, <1>11 DEF CrashInReplace, QueueInv, TypeOK
<1>12. CASE Restart
  <2>1. rows' \in [Tasks -> Row]
    BY <1>1, <1>12 DEF Restart, QueueInv, TypeOK
  <2>2. QED
    BY <1>12, <2>1, WorkerUnchanged DEF Restart, QueueInv, TypeOK, boundVars, faultVars
<1>13. CASE CrashInPurge
  <2>1. rows' \in [Tasks -> Row]
    BY <1>1, <1>13 DEF CrashInPurge
  <2>2. crashes' \in 0..MaxCrashes
    BY <1>13, QueueAssumption DEF CrashInPurge, QueueInv, TypeOK
  <2>3. QED
    BY <1>13, <2>1, <2>2, WorkerUnchanged
       DEF CrashInPurge, QueueInv, TypeOK, faultVars
<1>19. CASE PurgeFails
  <2>1. rows' \in [Tasks -> Row]
    BY <1>1, <1>19 DEF PurgeFails, QueueInv, TypeOK
  <2>2. dropped' = dropped /\ faults' \in 0..MaxFaults
    BY <1>19, QueueAssumption DEF PurgeFails, Faulty, QueueInv, TypeOK
  <2>3. QED
    BY <1>19, <2>1, <2>2, WorkerUnchanged DEF PurgeFails, Faulty, QueueInv, TypeOK
<1>14. CASE Tick
  <2>1. rows' \in [Tasks -> Row]
    <3> SUFFICES ASSUME NEW t \in Tasks
                 PROVE  rows'[t] \in Row
      BY <1>14 DEF Tick
    <3> DEFINE a == IF rows[t].status = "running"
                    THEN LeastOf(rows[t].age + 1, PurgeAge) ELSE rows[t].age
               w == IF rows[t].wait = 0 THEN 0 ELSE rows[t].wait - 1
    <3>1. rows[t] \in Row
      BY DEF QueueInv, TypeOK
    <3>2. a \in 0..PurgeAge /\ w \in 0..Backoff
      BY <3>1, QueueAssumption DEF Row, LeastOf
    <3>3. rows'[t] = [rows[t] EXCEPT !.age = a, !.wait = w]
      BY <1>14 DEF Tick
    <3>4. ASSUME NEW x \in 0..PurgeAge, NEW y \in 0..Backoff
          PROVE  [rows[t] EXCEPT !.age = x, !.wait = y] \in Row
      <4>1. [rows[t] EXCEPT !.age = x] \in Row
        BY <3>1, ColumnsAreTyped
      <4>2. QED
        BY <4>1, ColumnsAreTyped
    <3> HIDE DEF a, w
    <3>5. QED
      BY <3>2, <3>3, <3>4
  <2>2. /\ flights' \in [Slots -> Flight]
        /\ \A s \in Slots : /\ flights'[s].pc = flights[s].pc
                            /\ flights'[s].task = flights[s].task
    <3> SUFFICES ASSUME NEW s \in Slots
                 PROVE  /\ flights'[s] \in Flight
                        /\ flights'[s].pc = flights[s].pc
                        /\ flights'[s].task = flights[s].task
      BY <1>14 DEF Tick
    <3> DEFINE a == IF flights[s].pc \in {"starting", "turn"}
                    THEN LeastOf(flights[s].age + 1, HardTimeout)
                    ELSE flights[s].age
    <3>1. flights[s] \in Flight
      BY DEF QueueInv, TypeOK
    <3>2. a \in 0..HardTimeout
      BY <3>1, QueueAssumption DEF Flight, LeastOf
    <3>3. flights'[s] = [flights[s] EXCEPT !.age = a]
      BY <1>14 DEF Tick
    <3>4. QED
      BY <3>1, <3>2, <3>3 DEF Flight
  <2>3. Busy' = Busy
    BY <2>2 DEF Busy
  <2>4. \A s \in Busy' : flights'[s].task \in Tasks
    BY <2>2, <2>3 DEF QueueInv, TypeOK, Busy
  <2>5. TypeOK'
    BY <1>14, <2>1, <2>2, <2>4 DEF Tick, QueueInv, TypeOK, boundVars, faultVars
  <2>6. Counted' /\ Room'
    BY <1>14, <2>3 DEF Tick, QueueInv, Counted, SlotsLeakOnlyByPanic, Room
  <2>7. QED
    BY <2>5, <2>6 DEF QueueInv
<1>15. CASE UNCHANGED vars
  BY <1>15 DEF vars, QueueInv, TypeOK, Counted, SlotsLeakOnlyByPanic, Room, Busy,
               boundVars, faultVars
<1>16. QED
  BY <1>2, <1>3, <1>4, <1>5, <1>6, <1>7, <1>8, <1>10, <1>11, <1>12, <1>13,
     <1>14, <1>15, <1>17, <1>18, <1>19 DEF Next

(* The table, the futures, the counters and the billing table keep their
   types; the worker's counter never goes below zero. *)
THEOREM TypeCorrect == Spec => []TypeOK
<1>1. QueueInv => TypeOK
  BY DEF QueueInv
<1>2. QED
  BY <1>1, QueueInvInit, QueueInvNext, PTL DEF Spec

(* The worker never has more dispatches in the air than its concurrency. *)
THEOREM ConcurrencyBounded == Spec => []ConcurrencyBound
<1>1. QueueInv => ConcurrencyBound
  <2> SUFFICES ASSUME QueueInv PROVE ConcurrencyBound
    OBVIOUS
  <2>1. Cardinality(batch) \in Nat
    BY FS_Subset, FS_CardinalityType, QueueAssumption DEF QueueInv, TypeOK
  <2>2. QED
    BY <2>1, BusyIsFinite, QueueAssumption
       DEF QueueInv, TypeOK, Counted, Room, ConcurrencyBound
<1>2. QED
  BY <1>1, QueueInvInit, QueueInvNext, PTL DEF Spec

(* A slot that is counted and not in use was leaked by a panic. *)
THEOREM SlotsAreGivenBack == Spec => []SlotsLeakOnlyByPanic
<1>1. QueueInv => SlotsLeakOnlyByPanic
  BY DEF QueueInv, Counted
<1>2. QED
  BY <1>1, QueueInvInit, QueueInvNext, PTL DEF Spec

-----------------------------------------------------------------------------
(* What one dispatch step leaves alone: other rows, other futures. *)
LEMMA DispatchFrame ==
  ASSUME TypeOK, NEW s \in Slots, Dispatch(s), NEW t, t = flights[s].task
  PROVE  /\ s \in Busy /\ t \in Tasks /\ up /\ up'
         /\ rows[t] \in Row /\ flights[s] \in Flight
         /\ \A r \in Slots \ {s} : flights'[r] = flights[r]
         /\ \A u \in Tasks \ {t} : rows'[u] = rows[u] /\ billed'[u] = billed[u]
         /\ UNCHANGED <<submitted, ops, crashes>>
         /\ orphaned \subseteq orphaned' /\ dropped \subseteq dropped'
<1>1. s \in Busy
  BY DEF Dispatch, Outcome, Slip, StartFails, SaveFails, CompletionFails,
         BillingFails, FailureFails, Faulty, StartTurn, ResolveFails, SaveResponse, ForwardAnswered,
         TurnFails, Panics, HardTimeoutFires, CompleteEnvelope, InsertBilling,
         At, Busy
<1>2. t \in Tasks /\ rows[t] \in Row /\ flights[s] \in Flight
  BY <1>1 DEF TypeOK
<1>3. /\ up /\ up'
      /\ UNCHANGED <<submitted, ops, crashes>>
      /\ orphaned \subseteq orphaned' /\ dropped \subseteq dropped'
  <2>1. CASE \/ StartTurn(s) \/ ResolveFails(s) \/ Outcome(s)
             \/ CompleteEnvelope(s) \/ InsertBilling(s)
    BY <2>1 DEF Outcome, StartTurn, ResolveFails, SaveResponse, ForwardAnswered,
         TurnFails, Panics, HardTimeoutFires, CompleteEnvelope, InsertBilling,
         LakeFree, lakeVars, boundVars, faultVars
  <2>2. CASE Slip(s)
    <3>1. UNCHANGED <<up, submitted, orphaned>>
      BY <2>2 DEF Slip, StartFails, SaveFails, CompletionFails, BillingFails,
                  FailureFails, lakeVars
    <3>4. up
      BY <2>2, Zenon DEF Slip, StartFails, SaveFails, CompletionFails, BillingFails,
                         FailureFails, LakeFree
    <3>2. UNCHANGED <<ops, crashes>> /\ dropped \subseteq dropped'
      BY <2>2 DEF Slip, StartFails, SaveFails, CompletionFails, BillingFails,
                  FailureFails, Faulty
    <3>3. QED
      BY <3>1, <3>2, <3>4
  <2>3. QED
    BY <2>1, <2>2 DEF Dispatch
<1>4. \A r \in Slots \ {s} : flights'[r] = flights[r]
  BY DEF TypeOK, Dispatch, Outcome, Slip, StartFails, SaveFails,
         CompletionFails, BillingFails, FailureFails, StartTurn, ResolveFails, SaveResponse,
         ForwardAnswered, TurnFails, Panics, HardTimeoutFires, CompleteEnvelope,
         InsertBilling, GoTo, Release
<1>5. \A u \in Tasks \ {t} : rows'[u] = rows[u] /\ billed'[u] = billed[u]
  BY DEF TypeOK, Dispatch, Outcome, Slip, StartFails, SaveFails,
         CompletionFails, BillingFails, FailureFails, StartTurn, ResolveFails, SaveResponse,
         ForwardAnswered, TurnFails, Panics, HardTimeoutFires, CompleteEnvelope,
         InsertBilling, Update, lakeVars
<1>6. QED
  BY <1>1, <1>2, <1>3, <1>4, <1>5

(* What it does to its own row and its own future, one line per end. *)
Continues(s, from, to) ==
  /\ At(s, from) /\ At(s, to)' /\ flights'[s].task = flights[s].task
Ends(s, from) == At(s, from) /\ At(s, "idle")' /\ flights'[s].task = 0

LEMMA DispatchEffect ==
  ASSUME TypeOK, NEW s \in Slots, Dispatch(s), NEW t, t = flights[s].task
  PROVE  \/ /\ Continues(s, "starting", "turn")
            /\ rows[t].status # "absent" => /\ rows'[t].status = "running"
                                            /\ rows'[t].response = rows[t].response
            /\ rows[t].status = "absent" => rows'[t] = rows[t]
            /\ UNCHANGED billed
         \/ /\ Ends(s, "starting") /\ UNCHANGED <<rows, billed>>
         \/ /\ Continues(s, "turn", "saved")
            /\ rows[t].status # "absent" => /\ rows'[t].status = rows[t].status
                                            /\ rows'[t].response = TRUE
            /\ rows[t].status = "absent" => rows'[t] = rows[t]
            /\ UNCHANGED billed
         \/ /\ Continues(s, "saved", "completed")
            /\ rows[t].status # "absent" => /\ rows'[t].status = "done"
                                            /\ rows'[t].response = rows[t].response
            /\ rows[t].status = "absent" => rows'[t] = rows[t]
            /\ UNCHANGED billed
         \/ /\ Ends(s, "completed") /\ UNCHANGED rows
            /\ billed'[t] > 0
         \/ /\ Ends(s, "turn") /\ Kind[t] = "forward"
            /\ rows[t].status # "absent" => /\ rows'[t].status = "done"
                                            /\ rows'[t].response = rows[t].response
            /\ rows[t].status = "absent" => rows'[t] = rows[t]
            /\ UNCHANGED billed
         \/ /\ Ends(s, "turn")
            /\ rows[t].status # "absent" =>
                 \/ rows'[t].status = "pending"
                 \/ rows'[t].status = "failed" /\ rows'[t].response = rows[t].response
            /\ rows[t].status = "absent" => rows'[t] = rows[t]
            /\ UNCHANGED billed
         \/ /\ Ends(s, "turn") /\ t \in orphaned'
            /\ UNCHANGED <<rows, billed>>
         \/ /\ Continues(s, "turn", "saved") /\ <<t, "response">> \in dropped'
            /\ UNCHANGED <<rows, billed>>
         \/ /\ Ends(s, "saved") \/ Ends(s, "turn")
            /\ Unwritten(t)'
            /\ UNCHANGED <<rows, billed>>
         \/ /\ Ends(s, "completed") /\ <<t, "bill">> \in dropped'
            /\ UNCHANGED <<rows, billed>>
         \/ /\ Ends(s, "turn") /\ <<t, "row">> \in dropped'
            /\ rows[t].status # "absent" /\ rows'[t] = Bare("absent")
            /\ UNCHANGED billed
<1>1. /\ s \in Busy /\ t \in Tasks /\ rows[t] \in Row /\ flights[s] \in Flight
  BY DispatchFrame
<1>2. /\ flights \in [Slots -> Flight] /\ rows \in [Tasks -> Row]
      /\ billed \in [Tasks -> Nat]
  BY DEF TypeOK
<1>3. ASSUME NEW pc \in PCs, GoTo(s, pc)
      PROVE  flights'[s].pc = pc /\ flights'[s].task = t
  <2>1. flights'[s] = [flights[s] EXCEPT !.pc = pc]
    BY <1>2, <1>3 DEF GoTo
  <2>2. QED
    BY <1>1, <2>1 DEF Flight
<1>4. ASSUME flights' = [flights EXCEPT ![s] = Idle]
      PROVE  flights'[s].pc = "idle" /\ flights'[s].task = 0
  BY <1>2, <1>4 DEF Idle
<1>5. ASSUME NEW row, Update(t, row)
      PROVE  /\ rows[t].status # "absent" => rows'[t] = row
             /\ rows[t].status = "absent" => rows'[t] = rows[t]
  BY <1>1, <1>2, <1>5 DEF Update, Exists
<1>6. /\ \A st : /\ [rows[t] EXCEPT !.status = st, !.age = 0].status = st
                  /\ [rows[t] EXCEPT !.status = st, !.age = 0].response
                       = rows[t].response
      /\ [rows[t] EXCEPT !.response = TRUE].status = rows[t].status
      /\ [rows[t] EXCEPT !.response = TRUE].response = TRUE
  BY <1>1 DEF Row
<1>7. CASE StartTurn(s)
  <2> DEFINE row == [rows[t] EXCEPT !.status = "running", !.age = 0]
  <2>1. Update(t, row) /\ At(s, "starting") /\ GoTo(s, "turn") /\ UNCHANGED billed
    BY <1>7 DEF StartTurn
  <2>2. row.status = "running" /\ row.response = rows[t].response
    BY <1>6
  <2> HIDE DEF row
  <2>3. QED
    BY <1>3, <1>5, <2>1, <2>2 DEF Continues, At, PCs
<1>8. CASE ResolveFails(s)
  BY <1>4, <1>8 DEF ResolveFails, Release, Ends, At, lakeVars
<1>9. CASE SaveResponse(s)
  <2> DEFINE row == [rows[t] EXCEPT !.response = TRUE]
  <2>1. Update(t, row) /\ At(s, "turn") /\ GoTo(s, "saved") /\ UNCHANGED billed
    BY <1>9 DEF SaveResponse
  <2>2. row.status = rows[t].status /\ row.response = TRUE
    BY <1>6
  <2> HIDE DEF row
  <2>3. QED
    BY <1>3, <1>5, <2>1, <2>2 DEF Continues, At, PCs
<1>10. CASE CompleteEnvelope(s)
  <2> DEFINE row == [rows[t] EXCEPT !.status = "done", !.age = 0]
  <2>1. Update(t, row) /\ At(s, "saved") /\ GoTo(s, "completed") /\ UNCHANGED billed
    BY <1>10 DEF CompleteEnvelope
  <2>2. row.status = "done" /\ row.response = rows[t].response
    BY <1>6
  <2> HIDE DEF row
  <2>3. QED
    BY <1>3, <1>5, <2>1, <2>2 DEF Continues, At, PCs
<1>11. CASE InsertBilling(s)
  BY <1>1, <1>2, <1>4, <1>11 DEF InsertBilling, Release, Ends, At
<1>12. CASE ForwardAnswered(s)
  <2> DEFINE row == [rows[t] EXCEPT !.status = "done", !.age = 0]
  <2>1. Update(t, row) /\ At(s, "turn") /\ Release(s) /\ UNCHANGED billed /\ Kind[t] = "forward"
    BY <1>12 DEF ForwardAnswered
  <2>2. row.status = "done" /\ row.response = rows[t].response
    BY <1>6
  <2> HIDE DEF row
  <2>3. QED
    BY <1>4, <1>5, <2>1, <2>2 DEF Release, Ends, At
<1>13. CASE \E text \in Texts : TurnFails(s, text)
  <2>1. PICK text \in Texts : TurnFails(s, text)
    BY <1>13
  <2> DEFINE after == AfterFailure(rows[t], IsTransient(text))
  <2>2. \/ after.status = "pending"
        \/ after.status = "failed" /\ after.response = rows[t].response
    BY <1>6 DEF AfterFailure, Bare
  <2>3. Update(t, after) /\ At(s, "turn") /\ Release(s) /\ UNCHANGED billed
    BY <2>1 DEF TurnFails
  <2> HIDE DEF after
  <2>4. QED
    BY <1>4, <1>5, <2>2, <2>3 DEF Release, Ends, At
<1>14. CASE Panics(s)
  BY <1>4, <1>14 DEF Panics, Ends, At, lakeVars
<1>15. CASE HardTimeoutFires(s)
  BY <1>4, <1>15 DEF HardTimeoutFires, Release, Ends, At, lakeVars
<1>16. CASE StartFails(s)
  BY <1>4, <1>16 DEF StartFails, Release, Ends, At, lakeVars
<1>17. CASE SaveFails(s)
  BY <1>3, <1>17 DEF SaveFails, Faulty, Continues, At, PCs, lakeVars
<1>18. CASE CompletionFails(s)
  BY <1>4, <1>18
     DEF CompletionFails, Faulty, Unwritten, Release, Ends, At, lakeVars
<1>19. CASE BillingFails(s)
  BY <1>4, <1>19 DEF BillingFails, Faulty, Release, Ends, At, lakeVars
<1>20. CASE \E text \in Texts : FailureFails(s, text)
  <2>1. PICK text \in Texts : FailureFails(s, text)
    BY <1>20
  <2>2. Ends(s, "turn") /\ UNCHANGED billed
    BY <1>4, <2>1 DEF FailureFails, Release, Ends, At
  <2>3. CASE Faulty({<<t, "outcome">>}) /\ UNCHANGED rows
    BY <2>2, <2>3 DEF Faulty, Unwritten
  <2>4. CASE /\ Faulty({<<t, "row">>}) /\ Exists(t)
             /\ rows' = [rows EXCEPT ![t] = Bare("absent")]
    BY <1>1, <1>2, <2>2, <2>4 DEF Faulty, Exists
  <2>5. CASE Update(t, AfterFailure([rows[t] EXCEPT !.retry = 0], TRUE))
    <3> DEFINE zero  == [rows[t] EXCEPT !.retry = 0]
               after == AfterFailure(zero, TRUE)
    <3>1. zero.response = rows[t].response
      BY <1>1 DEF Row
    <3>2. zero \in Row
      <4>1. 0 \in 0..MaxRetries
        BY QueueAssumption
      <4>2. QED
        BY <1>1, <4>1, ColumnsAreTyped
    <3> HIDE DEF zero
    <3>3. \/ after.status = "pending"
          \/ after.status = "failed" /\ after.response = rows[t].response
      BY <3>1, <3>2 DEF AfterFailure, Bare, Row
    <3>4. Update(t, after)
      BY <2>5 DEF zero
    <3> HIDE DEF after
    <3>5. QED
      BY <1>5, <2>2, <3>3, <3>4
  <2>6. QED
    BY <2>1, <2>3, <2>4, <2>5 DEF FailureFails
<1>21. QED
  BY <1>7, <1>8, <1>9, <1>10, <1>11, <1>12, <1>13, <1>14, <1>15, <1>16, <1>17,
     <1>18, <1>19, <1>20
     DEF Dispatch, Outcome, Slip

(* A bare row, and one the clock moved. *)
LEMMA BareColumns ==
  ASSUME NEW st
  PROVE  Bare(st).status = st /\ Bare(st).response = FALSE
BY DEF Bare

LEMMA TickKeeps ==
  ASSUME TypeOK, Tick
  PROVE  /\ \A t \in Tasks : /\ rows'[t].status = rows[t].status
                             /\ rows'[t].response = rows[t].response
         /\ \A s \in Slots : /\ flights'[s].pc = flights[s].pc
                             /\ flights'[s].task = flights[s].task
<1>1. ASSUME NEW t \in Tasks
      PROVE  /\ rows'[t].status = rows[t].status
             /\ rows'[t].response = rows[t].response
  <2>1. rows[t] \in Row
    BY DEF TypeOK
  <2>2. \A a, w : LET row == [rows[t] EXCEPT !.age = a, !.wait = w]
                  IN  row.status = rows[t].status /\ row.response = rows[t].response
    BY <2>1 DEF Row
  <2>3. \E a, w : rows'[t] = [rows[t] EXCEPT !.age = a, !.wait = w]
    BY DEF Tick
  <2>4. QED
    BY <2>2, <2>3
<1>2. ASSUME NEW s \in Slots
      PROVE  flights'[s].pc = flights[s].pc /\ flights'[s].task = flights[s].task
  <2>1. flights[s] \in Flight
    BY DEF TypeOK
  <2>2. \A a : LET flight == [flights[s] EXCEPT !.age = a]
               IN  flight.pc = flights[s].pc /\ flight.task = flights[s].task
    BY <2>1 DEF Flight
  <2>3. \E a : flights'[s] = [flights[s] EXCEPT !.age = a]
    BY DEF Tick
  <2>4. QED
    BY <2>2, <2>3
<1>3. QED
  BY <1>1, <1>2

(* A future that is spawned takes an idle slot; its row is pending. *)
LEMMA PickUpEffect ==
  ASSUME TypeOK, NEW t \in Tasks, PickUp(t)
  PROVE  \/ UNCHANGED flights
         \/ /\ rows[t].status = "pending"
            /\ \E s \in Slots : /\ flights[s].pc = "idle"
                                /\ flights'[s].pc = "starting"
                                /\ flights'[s].task = t
                                /\ \A r \in Slots \ {s} : flights'[r] = flights[r]
BY DEF PickUp, TypeOK, Busy

-----------------------------------------------------------------------------
LEMMA OwnedInit == Init => RunningIsOwned
BY BareColumns DEF Init, RunningIsOwned

LEMMA OwnedDispatch ==
  ASSUME TypeOK, RunningIsOwned, NEW s \in Slots, Dispatch(s)
  PROVE  RunningIsOwned'
<1> SUFFICES ASSUME NEW u \in Tasks, rows'[u].status = "running",
                    u \notin orphaned', ~Unwritten(u)'
             PROVE  \E r \in Slots : /\ flights'[r].task = u
                                     /\ flights'[r].pc \in {"turn", "saved"}
  BY DEF RunningIsOwned, InTurn
<1> DEFINE t == flights[s].task
<1>1. /\ t \in Tasks /\ orphaned \subseteq orphaned' /\ dropped \subseteq dropped'
      /\ \A r \in Slots \ {s} : flights'[r] = flights[r]
      /\ \A v \in Tasks \ {t} : rows'[v] = rows[v]
  BY DispatchFrame
<1>2. ASSUME rows[u].status = "running"
      PROVE  \E r \in Slots : /\ flights[r].task = u
                              /\ flights[r].pc \in {"turn", "saved"}
  BY <1>1, <1>2 DEF RunningIsOwned, InTurn, Unwritten
<1>3. CASE u # t
  BY <1>1, <1>2, <1>3
<1>4. CASE u = t /\ flights'[s].task = t /\ At(s, "turn")'
  BY <1>4 DEF At
<1>5. CASE u = t /\ flights'[s].task = t /\ At(s, "saved")'
  BY <1>5 DEF At
<1>6. CASE u = t /\ rows'[u] = rows[u] /\ flights[s].pc \notin {"turn", "saved"}
  BY <1>1, <1>2, <1>6
<1>7. CASE u = t /\ (rows'[u].status # "running" \/ Unwritten(u)')
  BY <1>7
<1>8. QED
  BY <1>1, <1>3, <1>4, <1>5, <1>6, <1>7, BareColumns, DispatchEffect
     DEF Continues, Ends, At

LEMMA OwnedNext == TypeOK /\ RunningIsOwned /\ [Next]_vars => RunningIsOwned'
<1> SUFFICES ASSUME TypeOK, RunningIsOwned, [Next]_vars
             PROVE  RunningIsOwned'
  OBVIOUS
<1>1. ASSUME NEW t \in Tasks, rows' = [rows EXCEPT ![t] = Bare("pending")],
             UNCHANGED <<flights, orphaned, dropped>>
      PROVE  RunningIsOwned'
  BY <1>1, BareColumns DEF TypeOK, RunningIsOwned, InTurn, Unwritten
<1>2. CASE \E t \in Tasks : Ingest(t) \/ RetryTask(t)
  BY <1>1, <1>2 DEF Ingest, RetryTask, workerVars, boundVars, faultVars
<1>3. CASE UNCHANGED <<rows, flights, orphaned, dropped>>
  BY <1>3 DEF RunningIsOwned, InTurn, Unwritten
<1>4. CASE Poll \/ ReapStuckTasks \/ RetryPending \/ UNCHANGED vars
  BY <1>3, <1>4 DEF Poll, ReapStuckTasks, RetryPending, vars, lakeVars, workerVars,
                    boundVars, faultVars
<1>5. CASE \E t \in Tasks : PickUp(t)
  <2>1. PICK t \in Tasks : PickUp(t)
    BY <1>5
  <2>2. UNCHANGED <<rows, orphaned, dropped>>
    BY <2>1 DEF PickUp, lakeVars, boundVars, faultVars
  <2>3. QED
    BY <2>1, <2>2, PickUpEffect DEF RunningIsOwned, InTurn, Unwritten
<1>11. CASE \E t \in Tasks : PickUpFails(t)
  <2>1. UNCHANGED <<rows, flights, orphaned>> /\ dropped' = dropped
    BY <1>11 DEF PickUpFails, Faulty, lakeVars
  <2>2. QED
    BY <1>3, <2>1
<1>12. CASE \E t \in Tasks : RetryFails(t)
  <2>1. PICK t \in Tasks : /\ rows' = [rows EXCEPT ![t] = Bare("absent")]
                            /\ UNCHANGED <<flights, orphaned>>
                            /\ dropped \subseteq dropped'
    BY <1>12 DEF RetryFails, workerVars
  <2>2. \A u \in Tasks : rows'[u] = rows[u] \/ rows'[u].status = "absent"
    BY <2>1, BareColumns DEF TypeOK
  <2>3. QED
    BY <2>1, <2>2 DEF RunningIsOwned, InTurn, Unwritten
<1>6. CASE \E s \in Slots : Dispatch(s)
  BY <1>6, OwnedDispatch
<1>7. CASE Crash \/ \E t \in Tasks : CrashInReplace(t)
  <2>1. \A t \in Tasks : rows'[t].status = "running" => rows[t].status = "running"
    BY <1>7, BareColumns DEF Crash, CrashInReplace, TypeOK
  <2>2. \A t \in Tasks : rows[t].status = "running" => t \in orphaned'
    BY <1>7 DEF Crash, CrashInReplace, Down
  <2>3. QED
    BY <2>1, <2>2 DEF RunningIsOwned
<1>8. CASE Restart \/ CrashInPurge \/ PurgeFails
  <2>1. \A t \in Tasks : rows'[t].status = "running" => rows[t].status = "running"
    BY <1>8, BareColumns DEF Restart, CrashInPurge, PurgeFails
  <2>2. UNCHANGED <<flights, orphaned>> /\ dropped' = dropped
    BY <1>8 DEF Restart, CrashInPurge, PurgeFails, Faulty, workerVars, boundVars,
                faultVars
  <2>3. QED
    BY <2>1, <2>2 DEF RunningIsOwned, InTurn, Unwritten
<1>9. CASE Tick
  <2>1. UNCHANGED <<orphaned, dropped>>
    BY <1>9 DEF Tick, boundVars, faultVars
  <2>2. QED
    BY <1>9, <2>1, TickKeeps DEF RunningIsOwned, InTurn, Unwritten
<1>10. QED
  BY <1>2, <1>4, <1>5, <1>6, <1>7, <1>8, <1>9, <1>11, <1>12 DEF Next

(* A row says `running` only while a dispatch of it is in its turn, or after
   one was cut off, by the hard timeout, a panic or a crash, or after the
   statement that should have written its outcome failed. *)
THEOREM RunningRowsAreOwned == Spec => []RunningIsOwned
<1>1. Spec => []TypeOK
  BY TypeCorrect
<1>2. QED
  BY <1>1, OwnedInit, OwnedNext, PTL DEF Spec

-----------------------------------------------------------------------------
LEMMA UnbilledInit == Init => UnbilledHasCause
BY BareColumns DEF Init, UnbilledHasCause

LEMMA UnbilledDispatch ==
  ASSUME TypeOK, UnbilledHasCause, NEW s \in Slots, Dispatch(s)
  PROVE  UnbilledHasCause'
<1> SUFFICES ASSUME NEW u \in Tasks, rows'[u].status = "done",
                    Kind[u] # "forward", billed'[u] = 0, ~(crashes' > 0),
                    <<u, "bill">> \notin dropped'
             PROVE  \E r \in Slots : flights'[r].task = u /\ At(r, "completed")'
  BY DEF UnbilledHasCause
<1> DEFINE t == flights[s].task
<1>1. /\ t \in Tasks /\ crashes' = crashes /\ dropped \subseteq dropped'
      /\ \A r \in Slots \ {s} : flights'[r] = flights[r]
      /\ \A v \in Tasks \ {t} : rows'[v] = rows[v] /\ billed'[v] = billed[v]
  BY DispatchFrame
<1>2. ASSUME rows[u].status = "done", billed[u] = 0
      PROVE  \E r \in Slots : flights[r].task = u /\ flights[r].pc = "completed"
  BY <1>1, <1>2 DEF UnbilledHasCause, At
<1>3. CASE u # t
  BY <1>1, <1>2, <1>3 DEF At
<1>4. CASE u = t /\ flights'[s].task = t /\ At(s, "completed")'
  BY <1>4
<1>5. CASE u = t /\ rows[u].status = "done" /\ UNCHANGED billed /\ ~At(s, "completed")
  BY <1>1, <1>2, <1>5 DEF At
<1>6. CASE u = t
  <2>1. ~(billed'[t] > 0)
    BY <1>6
  <2>2. ASSUME rows'[t] = rows[t], UNCHANGED billed, ~At(s, "completed")
        PROVE  \E r \in Slots : flights'[r].task = u /\ At(r, "completed")'
    BY <1>5, <1>6, <2>2
  <2>3. rows'[t].status = "done" /\ Kind[t] # "forward"
    BY <1>6
  <2>4. ASSUME UNCHANGED billed, rows'[t].status = rows[t].status,
               ~At(s, "completed")
        PROVE  \E r \in Slots : flights'[r].task = u /\ At(r, "completed")'
    BY <1>5, <1>6, <2>3, <2>4
  <2>5. rows'[t] # Bare("absent") /\ <<t, "bill">> \notin dropped'
    BY <1>6, <2>3, BareColumns
  <2>6. QED
    BY <1>4, <1>6, <2>1, <2>2, <2>3, <2>4, <2>5, DispatchEffect
       DEF Continues, Ends, At
<1>7. QED
  BY <1>3, <1>6

LEMMA UnbilledNext == TypeOK /\ UnbilledHasCause /\ [Next]_vars => UnbilledHasCause'
<1> SUFFICES ASSUME TypeOK, UnbilledHasCause, [Next]_vars
             PROVE  UnbilledHasCause'
  OBVIOUS
<1>1. ASSUME NEW t \in Tasks, rows' = [rows EXCEPT ![t] = Bare("pending")],
             UNCHANGED <<flights, billed, crashes, dropped>>
      PROVE  UnbilledHasCause'
  BY <1>1, BareColumns DEF TypeOK, UnbilledHasCause, At
<1>2. CASE \E t \in Tasks : Ingest(t) \/ RetryTask(t)
  BY <1>1, <1>2 DEF Ingest, RetryTask, workerVars, boundVars, faultVars
<1>3. CASE UNCHANGED <<rows, flights, billed, crashes, dropped>>
  BY <1>3 DEF UnbilledHasCause, At
<1>4. CASE Poll \/ ReapStuckTasks \/ RetryPending \/ UNCHANGED vars
  BY <1>3, <1>4
     DEF Poll, ReapStuckTasks, RetryPending, vars, lakeVars, workerVars, boundVars, faultVars
<1>5. CASE \E t \in Tasks : PickUp(t)
  <2>1. PICK t \in Tasks : PickUp(t)
    BY <1>5
  <2>2. UNCHANGED <<rows, billed, crashes, dropped>>
    BY <2>1 DEF PickUp, lakeVars, boundVars, faultVars
  <2>3. QED
    BY <2>1, <2>2, PickUpEffect DEF UnbilledHasCause, At
<1>11. CASE \E t \in Tasks : PickUpFails(t)
  <2>1. UNCHANGED <<rows, flights, billed, crashes>> /\ dropped' = dropped
    BY <1>11 DEF PickUpFails, Faulty, lakeVars
  <2>2. QED
    BY <1>3, <2>1
<1>12. CASE \E t \in Tasks : RetryFails(t)
  <2>1. PICK t \in Tasks : /\ rows' = [rows EXCEPT ![t] = Bare("absent")]
                            /\ UNCHANGED <<flights, billed, crashes>>
                            /\ dropped \subseteq dropped'
    BY <1>12 DEF RetryFails, workerVars
  <2>2. \A u \in Tasks : rows'[u] = rows[u] \/ rows'[u].status = "absent"
    BY <2>1, BareColumns DEF TypeOK
  <2>3. QED
    BY <2>1, <2>2 DEF UnbilledHasCause, At
<1>6. CASE \E s \in Slots : Dispatch(s)
  BY <1>6, UnbilledDispatch
<1>7. CASE Crash \/ CrashInPurge \/ \E t \in Tasks : CrashInReplace(t)
  <2>1. crashes' > 0
    BY <1>7, QueueAssumption DEF Crash, CrashInReplace, CrashInPurge, Down, TypeOK
  <2>2. QED
    BY <2>1 DEF UnbilledHasCause
<1>8. CASE Restart \/ PurgeFails
  <2>1. \A t \in Tasks : rows'[t].status = "done" => rows[t].status = "done"
    BY <1>8, BareColumns DEF Restart, PurgeFails
  <2>2. UNCHANGED <<flights, billed, crashes>> /\ dropped' = dropped
    BY <1>8 DEF Restart, PurgeFails, Faulty, workerVars, boundVars, faultVars
  <2>3. QED
    BY <2>1, <2>2 DEF UnbilledHasCause, At
<1>9. CASE Tick
  <2>1. UNCHANGED <<billed, crashes, dropped>>
    BY <1>9 DEF Tick, boundVars, faultVars
  <2>2. QED
    BY <1>9, <2>1, TickKeeps DEF UnbilledHasCause, At
<1>10. QED
  BY <1>2, <1>4, <1>5, <1>6, <1>7, <1>8, <1>9, <1>11, <1>12 DEF Next

(* Without a crash a finished agent turn is metered, or about to be, or the
   statement that meters it failed. *)
THEOREM UnbilledIsExplained == Spec => []UnbilledHasCause
<1>1. Spec => []TypeOK
  BY TypeCorrect
<1>2. QED
  BY <1>1, UnbilledInit, UnbilledNext, PTL DEF Spec

-----------------------------------------------------------------------------
(* The queue implements TaskService.  First a report of one dispatch. *)
LEMMA ReportMaps ==
  ASSUME TypeOK, rows' \in [Tasks -> Row], NEW t \in Tasks,
         rows[t].status \in {"pending", "running"} \/ t \in Late,
         rows'[t].status # "absent",
         rows'[t].response = FALSE => \/ rows[t].response = FALSE
                                     \/ rows'[t].status \in {"pending", "running"},
         \A u \in Tasks \ {t} : rows'[u] = rows[u],
         \A u \in Tasks \ {t} : u \in Late' <=> u \in Late,
         UNCHANGED <<submitted, ops, crashes, up>>
  PROVE  Service!Next
<1> DEFINE seen == [u \in Tasks |-> Seen(rows[u].status)]
           said == [u \in Tasks |-> rows[u].response]
<1>1. rows \in [Tasks -> Row] /\ rows'[t] \in Row /\ rows[t] \in Row
  BY DEF TypeOK
<1>2. PICK st \in {"pending"} \cup Service!Settled : st = Seen(rows'[t].status)
  BY <1>1 DEF Row, Statuses, Seen, Service!Settled
<1>3. PICK x \in {TRUE} \cup {FALSE} : x = rows'[t].response
  BY <1>1 DEF Row
<1>4. seen[t] = "pending" \/ t \in Late
  BY DEF Seen
<1>5. x = FALSE => said[t] = FALSE \/ st = "pending"
  BY <1>3, <1>2 DEF Seen
<1>6. seen' = [seen EXCEPT ![t] = st]
  BY <1>2
<1>7. said' = [said EXCEPT ![t] = x]
  BY <1>3
<1>8. Late \subseteq Tasks /\ Late' \subseteq Tasks
  BY DEF Late
<1>9. IF st = "pending" THEN Late' = Late \ {t}
      ELSE Late' \in {Late \cup {t}, Late \ {t}}
  <2>1. CASE st = "pending"
    <3>1. t \notin Late'
      BY <1>2, <2>1 DEF Late, Seen
    <3>2. QED
      BY <2>1, <3>1, <1>8
  <2>2. CASE st # "pending" /\ t \in Late'
    BY <2>2, <1>8
  <2>3. CASE st # "pending" /\ t \notin Late'
    BY <2>3, <1>8
  <2>4. QED
    BY <2>1, <2>2, <2>3
<1>10. UNCHANGED <<submitted, ops, <<crashes, up>>>>
  OBVIOUS
<1>11. seen'[t] = st /\ said'[t] = x
  BY <1>2, <1>3
<1>12. Service!Report(t, seen'[t], said'[t])
  BY <1>4, <1>5, <1>6, <1>7, <1>9, <1>10, <1>11 DEF Service!Report
<1>13. seen'[t] \in {"pending"} \cup Service!Settled /\ said'[t] \in {TRUE} \cup {FALSE}
  BY <1>11
<1>14. QED
  BY <1>12, <1>13, Zenon DEF Service!Next, Service!Report, Service!Settled

(* A dispatch of a task, or a retry of it, loses its row. *)
LEMMA LoseMaps ==
  ASSUME TypeOK, rows' \in [Tasks -> Row], NEW t \in Tasks,
         rows[t].status # "absent", rows'[t] = Bare("absent"),
         \/ /\ rows[t].status \in {"pending", "running"} \/ t \in Late
            /\ UNCHANGED ops
         \/ ops' = ops + 1,
         \A u \in Tasks \ {t} : rows'[u] = rows[u],
         \A u \in Tasks \ {t} : u \in Late' <=> u \in Late,
         UNCHANGED <<submitted, crashes, up>>
  PROVE  Service!Next
<1> DEFINE seen == [u \in Tasks |-> Seen(rows[u].status)]
           said == [u \in Tasks |-> rows[u].response]
<1>1. seen[t] # "absent" /\ t \in {u \in Tasks : seen[u] # "absent"}
  BY DEF Seen
<1>2. \/ (seen[t] = "pending" \/ t \in Late) /\ UNCHANGED ops
      \/ ops' = ops + 1
  BY DEF Seen
<1>3. seen' = [seen EXCEPT ![t] = "absent"]
  BY BareColumns DEF Seen
<1>4. said' = [said EXCEPT ![t] = FALSE]
  BY BareColumns
<1>5. Late' = Late \ {t}
  <2>1. t \notin Late' /\ Late \subseteq Tasks /\ Late' \subseteq Tasks
    BY BareColumns DEF Late
  <2>2. QED
    BY <2>1
<1>6. UNCHANGED <<submitted, <<crashes, up>>>>
  OBVIOUS
<1>7. Service!Lose(t)
  BY <1>1, <1>2, <1>3, <1>4, <1>5, <1>6 DEF Service!Lose, Service!Present
<1> HIDE DEF seen, said
<1>8. QED
  BY <1>7, Zenon DEF Service!Next

(* Steps nobody sees. *)
LEMMA UnseenMaps ==
  ASSUME TypeOK,
         \A t \in Tasks : /\ Seen(rows'[t].status) = Seen(rows[t].status)
                          /\ rows'[t].response = rows[t].response,
         Late' = Late,
         UNCHANGED <<submitted, ops, crashes, up>>
  PROVE  UNCHANGED Service!serviceVars
BY DEF Service!serviceVars

LEMMA DispatchMaps ==
  ASSUME TypeOK, rows' \in [Tasks -> Row], NEW s \in Slots, Dispatch(s)
  PROVE  [Service!Next]_Service!serviceVars
<1> DEFINE t == flights[s].task
<1>1. /\ t \in Tasks /\ rows[t] \in Row /\ up /\ up'
      /\ \A r \in Slots \ {s} : flights'[r] = flights[r]
      /\ \A u \in Tasks \ {t} : rows'[u] = rows[u]
      /\ UNCHANGED <<submitted, ops, crashes>>
  BY DispatchFrame
<1>2. flights'[s].task \in {t, 0} /\ 0 \notin Tasks
  BY DispatchEffect, QueueAssumption DEF Continues, Ends
<1>3. \A u \in Tasks \ {t} : u \in Late' <=> u \in Late
  BY <1>1, <1>2 DEF Late
<1>4. CASE rows[t].status = "absent"
  <2>1. rows'[t] = rows[t]
    BY <1>4, DispatchEffect
  <2>2. t \notin Late /\ t \notin Late'
    BY <1>4, <2>1 DEF Late
  <2>3. Late' = Late
    BY <1>3, <2>2 DEF Late
  <2>4. QED
    BY <1>1, <2>1, <2>3, UnseenMaps
<1>5. CASE At(s, "completed")
  <2>1. UNCHANGED rows /\ flights'[s].pc = "idle"
    BY <1>5, DispatchEffect DEF Continues, Ends, At
  <2>2. t \in Late' <=> t \in Late
    BY <1>1, <1>5, <2>1 DEF Late, At
  <2>3. Late' = Late
    BY <1>3, <2>2 DEF Late
  <2>4. QED
    BY <1>1, <2>1, <2>3, UnseenMaps
<1>6. CASE rows[t].status # "absent" /\ ~At(s, "completed")
  <2>1. flights[s].pc \in {"starting", "turn", "saved"}
    BY <1>6, DispatchEffect DEF Continues, Ends, At
  <2>2. rows[t].status \in {"pending", "running"} \/ t \in Late
    BY <1>1, <1>6, <2>1 DEF Late, Row, Statuses
  <2>3. CASE rows'[t] = Bare("absent")
    BY <1>1, <1>3, <1>6, <2>2, <2>3, LoseMaps
  <2>4. CASE rows'[t] # Bare("absent")
    <3>1. /\ rows'[t].status # "absent"
          /\ rows'[t].response = FALSE => \/ rows[t].response = FALSE
                                          \/ rows'[t].status \in {"pending", "running"}
      BY <1>6, <2>4, DispatchEffect DEF Continues, Ends, At
    <3>2. QED
      BY <1>1, <1>3, <2>2, <3>1, ReportMaps
  <2>5. QED
    BY <2>3, <2>4
<1>7. QED
  BY <1>4, <1>5, <1>6

(* The rows of an outage are gone, the others as they were. *)
LEMMA OutageMaps ==
  ASSUME TypeOK, rows' \in [Tasks -> Row],
         NEW S \in SUBSET {t \in Tasks : rows[t].status # "absent"},
         \A t \in S : rows'[t] = Bare("absent"),
         \A t \in Tasks \ S : /\ rows'[t].status = rows[t].status
                              /\ rows'[t].response = rows[t].response,
         Late' = {}, <<crashes, up>>' # <<crashes, up>>,
         UNCHANGED <<submitted, ops>>
  PROVE  Service!Next
<1> DEFINE seen == [u \in Tasks |-> Seen(rows[u].status)]
           said == [u \in Tasks |-> rows[u].response]
<1>1. S \subseteq {t \in Tasks : seen[t] # "absent"}
  BY DEF Seen
<1>2. seen' = [t \in Tasks |-> IF t \in S THEN "absent" ELSE seen[t]]
  BY BareColumns DEF Seen
<1>3. said' = [t \in Tasks |-> IF t \in S THEN FALSE ELSE said[t]]
  BY BareColumns
<1>4. Service!Outage(S)
  BY <1>1, <1>2, <1>3 DEF Service!Outage, Service!Present
<1> HIDE DEF seen, said
<1>5. QED
  BY <1>4 DEF Service!Next

\* What the refinement needs of the reachable states.
ServiceInv ==
  /\ ~up => Busy = {}
  /\ \A t \in Tasks \ submitted : rows[t].status = "absent"
  /\ \A t \in Tasks : rows[t].status = "absent" => rows[t].response = FALSE

LEMMA ServiceInvInit == Init => ServiceInv
<1> SUFFICES ASSUME Init PROVE ServiceInv
  OBVIOUS
<1>1. up
  BY Zenon DEF Init
<1>2. \A t \in Tasks : rows[t].status = "absent" /\ rows[t].response = FALSE
  BY BareColumns DEF Init
<1>3. QED
  BY <1>1, <1>2 DEF ServiceInv

LEMMA ServiceInvNext == TypeOK /\ ServiceInv /\ [Next]_vars => ServiceInv'
<1> SUFFICES ASSUME TypeOK, ServiceInv, [Next]_vars
             PROVE  ServiceInv'
  OBVIOUS
<1>1. CASE \E t \in Tasks : Ingest(t) \/ RetryTask(t)
  <2>1. PICK t \in Tasks : Ingest(t) \/ RetryTask(t)
    BY <1>1
  <2>2. /\ t \in submitted' /\ submitted \subseteq submitted'
        /\ up' /\ \A u \in Tasks \ {t} : rows'[u] = rows[u]
    BY <2>1 DEF Ingest, RetryTask, LakeFree, TypeOK, ServiceInv, Exists
  <2>3. rows'[t].status # "absent"
    <3>1. rows' = [rows EXCEPT ![t] = Bare("pending")]
      BY <2>1 DEF Ingest, RetryTask
    <3>2. QED
      BY <3>1, BareColumns DEF TypeOK
  <2>4. QED
    BY <2>2, <2>3 DEF ServiceInv
<1>2. CASE UNCHANGED <<rows, flights, up, submitted>>
  BY <1>2 DEF ServiceInv, Busy
<1>3. CASE Poll \/ ReapStuckTasks \/ RetryPending \/ UNCHANGED vars
  BY <1>2, <1>3 DEF Poll, ReapStuckTasks, RetryPending, vars, lakeVars, workerVars
<1>4. CASE \E t \in Tasks : PickUp(t)
  BY <1>4 DEF PickUp, LakeFree, lakeVars, ServiceInv
<1>5. CASE \E s \in Slots : Dispatch(s)
  <2>1. PICK s \in Slots : Dispatch(s)
    BY <1>5
  <2> DEFINE t == flights[s].task
  <2>2. /\ t \in Tasks /\ up' /\ UNCHANGED submitted
        /\ \A u \in Tasks \ {t} : rows'[u] = rows[u]
    BY <2>1, DispatchFrame
  <2>3. /\ rows[t].status = "absent" => rows'[t] = rows[t]
        /\ rows[t].status # "absent" => \/ rows'[t].status # "absent"
                                        \/ rows'[t] = Bare("absent")
    BY <2>1, DispatchEffect
  <2>4. \/ rows'[t] = rows[t]
        \/ /\ rows[t].status # "absent"
           /\ rows'[t].status = "absent" => rows'[t].response = FALSE
    <3>1. Bare("absent").response = FALSE
      BY BareColumns
    <3>2. CASE rows'[t] = Bare("absent")
      BY <2>3, <3>1, <3>2
    <3>3. QED
      BY <2>3, <3>2
  <2> HIDE DEF t
  <2>5. QED
    BY <2>2, <2>4 DEF ServiceInv
<1>10. CASE \E t \in Tasks : PickUpFails(t)
  BY <1>10 DEF PickUpFails, LakeFree, lakeVars, ServiceInv
<1>11. CASE \E t \in Tasks : RetryFails(t)
  <2>1. PICK t \in Tasks : /\ rows' = [rows EXCEPT ![t] = Bare("absent")]
                            /\ UNCHANGED <<flights, up, submitted>>
    BY <1>11 DEF RetryFails, workerVars
  <2>2. \A u \in Tasks : rows'[u] = rows[u] \/ rows'[u] = Bare("absent")
    BY <2>1 DEF TypeOK
  <2>3. QED
    BY <2>1, <2>2, BareColumns DEF ServiceInv, Busy
<1>6. CASE Crash \/ \E t \in Tasks : CrashInReplace(t)
  <2>1. Down
    BY <1>6 DEF Crash, CrashInReplace
  <2>2. Busy' = {} /\ UNCHANGED submitted
    BY <2>1 DEF Down, Busy, Idle
  <2>3. \A t \in Tasks : rows'[t] = rows[t] \/ rows'[t] = Bare("absent")
    BY <1>6 DEF Crash, CrashInReplace, TypeOK
  <2>4. QED
    BY <2>2, <2>3, BareColumns DEF ServiceInv
<1>7. CASE Restart \/ CrashInPurge \/ PurgeFails
  <2>1. UNCHANGED <<flights, submitted>> /\ Busy' = Busy /\ Busy = {}
    BY <1>7 DEF Restart, CrashInPurge, PurgeFails, workerVars, ServiceInv, Busy
  <2>2. \A t \in Tasks : rows'[t] = rows[t] \/ rows'[t] = Bare("absent")
    BY <1>7 DEF Restart, CrashInPurge, PurgeFails
  <2>3. QED
    BY <2>1, <2>2, BareColumns DEF ServiceInv
<1>8. CASE Tick
  <2>1. UNCHANGED <<up, submitted>>
    BY <1>8 DEF Tick
  <2>2. QED
    BY <1>8, <2>1, TickKeeps DEF ServiceInv, Busy
<1>9. QED
  BY <1>1, <1>3, <1>4, <1>5, <1>6, <1>7, <1>8, <1>10, <1>11 DEF Next

LEMMA ServiceInit == Init => Service!Init
<1> SUFFICES ASSUME Init PROVE Service!Init
  OBVIOUS
<1>1. \A t \in Tasks : /\ Seen(rows[t].status) = "absent"
                      /\ rows[t].response = FALSE
  BY BareColumns DEF Init, Seen
<1>2. Late = {} /\ submitted = {}
  BY DEF Init, Late, Idle
<1>3. QED
  BY <1>1, <1>2 DEF Service!Init

LEMMA ServiceNext ==
  ASSUME TypeOK, rows' \in [Tasks -> Row], ServiceInv, [Next]_vars
  PROVE  [Service!Next]_Service!serviceVars
<1> DEFINE seen == [u \in Tasks |-> Seen(rows[u].status)]
           said == [u \in Tasks |-> rows[u].response]
<1>1. CASE \E t \in Tasks : Ingest(t)
  <2>1. PICK t \in Tasks : Ingest(t)
    BY <1>1
  <2>2. /\ t \notin submitted /\ submitted' = submitted \cup {t}
        /\ rows' = [rows EXCEPT ![t] = Bare("pending")]
        /\ UNCHANGED <<flights, ops, crashes, up>>
    BY <2>1 DEF Ingest, workerVars, boundVars, faultVars
  <2>3. rows[t].status = "absent" /\ rows[t].response = FALSE
    BY <2>2 DEF ServiceInv
  <2>4. rows'[t] = Bare("pending") /\ \A u \in Tasks \ {t} : rows'[u] = rows[u]
    BY <2>2 DEF TypeOK
  <2>5. /\ Seen(rows'[t].status) = "pending"
        /\ rows'[t].response = rows[t].response
    BY <2>3, <2>4, BareColumns DEF Seen
  <2>6. seen' = [seen EXCEPT ![t] = "pending"]
    BY <2>4, <2>5
  <2>7. said' = said
    BY <2>4, <2>5
  <2>8. Late' = Late
    BY <2>2, <2>3, <2>4, BareColumns DEF Late
  <2>9. Service!Submit(t)
    BY <2>2, <2>8, <2>6, <2>7 DEF Service!Submit
  <2> HIDE DEF seen, said
  <2>10. QED
    BY <2>9 DEF Service!Next
<1>2. ASSUME UNCHANGED <<rows, submitted, ops, crashes, up>>, Late' = Late
      PROVE  UNCHANGED Service!serviceVars
  BY <1>2, UnseenMaps
<1>3. CASE Poll \/ ReapStuckTasks \/ UNCHANGED vars
  <2>1. UNCHANGED <<rows, flights, submitted, ops, crashes, up>>
    BY <1>3 DEF Poll, ReapStuckTasks, vars, lakeVars, workerVars, boundVars, faultVars
  <2>2. Late' = Late
    BY <2>1 DEF Late
  <2>3. QED
    BY <1>2, <2>1, <2>2
<1>4. CASE \E t \in Tasks : PickUp(t)
  <2>1. PICK t \in Tasks : PickUp(t)
    BY <1>4
  <2>2. UNCHANGED <<rows, submitted, ops, crashes, up>>
    BY <2>1 DEF PickUp, lakeVars, boundVars, faultVars
  <2>3. Late' = Late
    BY <2>1, <2>2, PickUpEffect DEF Late
  <2>4. QED
    BY <1>2, <2>2, <2>3
<1>13. CASE \E t \in Tasks : PickUpFails(t)
  <2>1. UNCHANGED <<rows, flights, submitted, ops, crashes, up>>
    BY <1>13 DEF PickUpFails, Faulty, lakeVars
  <2>2. Late' = Late
    BY <2>1 DEF Late
  <2>3. QED
    BY <1>2, <2>1, <2>2
<1>14. CASE \E t \in Tasks : RetryFails(t)
  <2>1. PICK t \in Tasks : RetryFails(t)
    BY <1>14
  <2>2. /\ rows[t].status # "absent"
        /\ rows' = [rows EXCEPT ![t] = Bare("absent")]
        /\ UNCHANGED <<flights, submitted, crashes, up>> /\ ops' = ops + 1
    BY <2>1 DEF RetryFails, Exists, workerVars
  <2>3. rows'[t] = Bare("absent") /\ \A u \in Tasks \ {t} : rows'[u] = rows[u]
    BY <2>2 DEF TypeOK
  <2>4. \A u \in Tasks \ {t} : u \in Late' <=> u \in Late
    BY <2>2, <2>3 DEF Late
  <2>5. QED
    BY <2>2, <2>3, <2>4, LoseMaps
<1>5. CASE \E s \in Slots : Dispatch(s)
  BY <1>5, DispatchMaps
<1>6. ASSUME NEW S \in SUBSET {t \in Tasks : rows[t].status # "absent"},
             \A t \in S : rows'[t] = Bare("pending"),
             \A t \in Tasks \ S : rows'[t] = rows[t],
             UNCHANGED <<flights, submitted, crashes, up>>, ops' = ops + 1
      PROVE  Service!Next
  <2>1. seen' = [t \in Tasks |-> IF t \in S THEN "pending" ELSE seen[t]]
    BY <1>6, BareColumns DEF Seen
  <2>2. said' = [t \in Tasks |-> IF t \in S THEN FALSE ELSE said[t]]
    BY <1>6, BareColumns
  <2>3. S \subseteq {t \in Tasks : seen[t] # "absent"}
    BY <1>6 DEF Seen
  <2>4. Late' = Late \ S
    BY <1>6, BareColumns DEF Late
  <2>5. Service!Retry(S)
    BY <1>6, <2>1, <2>2, <2>3, <2>4 DEF Service!Retry, Service!Present
  <2> HIDE DEF seen, said
  <2>6. QED
    BY <1>6, <2>5 DEF Service!Next
<1>7. CASE \E t \in Tasks : RetryTask(t)
  <2>1. PICK t \in Tasks : RetryTask(t)
    BY <1>7
  <2>2. /\ rows[t].status # "absent"
        /\ rows' = [rows EXCEPT ![t] = Bare("pending")]
        /\ UNCHANGED <<flights, submitted, crashes, up>> /\ ops' = ops + 1
    BY <2>1 DEF RetryTask, Exists, workerVars
  <2>3. rows'[t] = Bare("pending") /\ \A u \in Tasks \ {t} : rows'[u] = rows[u]
    BY <2>2 DEF TypeOK
  <2>4. {t} \in SUBSET {u \in Tasks : rows[u].status # "absent"}
    BY <2>2
  <2>5. QED
    BY <1>6, <2>2, <2>3, <2>4
<1>8. CASE RetryPending
  <2>1. UNCHANGED <<rows, flights, submitted, crashes, up>> /\ ops' = ops + 1
    BY <1>8 DEF RetryPending, lakeVars, workerVars
  <2> DEFINE S == {}
  <2>2. /\ S \in SUBSET {t \in Tasks : rows[t].status # "absent"}
        /\ \A t \in S : rows'[t] = Bare("pending")
        /\ \A t \in Tasks \ S : rows'[t] = rows[t]
    BY <2>1
  <2> HIDE DEF S
  <2>3. QED
    BY <1>6, <2>1, <2>2
<1>9. CASE Crash \/ \E t \in Tasks : CrashInReplace(t)
  <2>1. Down
    BY <1>9 DEF Crash, CrashInReplace
  <2>2. /\ up /\ ~up' /\ UNCHANGED <<submitted, ops>>
        /\ Busy' = {}
    BY <2>1 DEF Down, Busy, Idle
  <2>3. Late' = {}
    BY <2>2 DEF Late, Busy
  <2>4. PICK S \in SUBSET {t \in Tasks : rows[t].status # "absent"} :
          /\ \A t \in S : rows'[t] = Bare("absent")
          /\ \A t \in Tasks \ S : /\ rows'[t].status = rows[t].status
                               /\ rows'[t].response = rows[t].response
    <3>1. CASE Crash
      <4> DEFINE S == {}
      <4>1. /\ S \in SUBSET {t \in Tasks : rows[t].status # "absent"}
            /\ \A t \in S : rows'[t] = Bare("absent")
            /\ \A t \in Tasks \ S : rows'[t] = rows[t]
        BY <3>1 DEF Crash
      <4> HIDE DEF S
      <4>2. QED
        BY <4>1
    <3>2. ASSUME NEW t \in Tasks, CrashInReplace(t)
          PROVE  \E S \in SUBSET {u \in Tasks : rows[u].status # "absent"} :
                   /\ \A u \in S : rows'[u] = Bare("absent")
                   /\ \A u \in Tasks \ S : /\ rows'[u].status = rows[u].status
                                        /\ rows'[u].response = rows[u].response
      <4>1. /\ rows' = [rows EXCEPT ![t] = Bare("absent")]
            /\ rows[t].status # "absent"
        BY <3>2 DEF CrashInReplace, Exists
      <4>2. /\ \A u \in {t} : rows'[u] = Bare("absent")
            /\ \A u \in Tasks \ {t} : rows'[u] = rows[u]
        BY <4>1 DEF TypeOK
      <4>3. {t} \in SUBSET {u \in Tasks : rows[u].status # "absent"}
        BY <4>1
      <4>4. QED
        BY <4>2, <4>3
    <3>3. QED
      BY <1>9, <3>1, <3>2
  <2>5. QED
    BY <2>2, <2>3, <2>4, OutageMaps
<1>10. CASE Restart \/ CrashInPurge \/ PurgeFails
  <2>1. /\ UNCHANGED <<flights, submitted, ops>>
        /\ <<crashes, up>>' # <<crashes, up>>
    BY <1>10, QueueAssumption
       DEF Restart, CrashInPurge, PurgeFails, Faulty, workerVars, boundVars,
           faultVars, TypeOK
  <2>2. Late' = {}
    BY <1>10, <2>1 DEF Restart, CrashInPurge, PurgeFails, ServiceInv, Late, Busy
  <2>3. PICK S \in SUBSET {t \in Tasks : rows[t].status # "absent"} :
          /\ \A t \in S : rows'[t] = Bare("absent")
          /\ \A t \in Tasks \ S : /\ rows'[t].status = rows[t].status
                               /\ rows'[t].response = rows[t].response
    <3>1. CASE Restart
      <4>1. PICK day \in 0..PurgeAge :
              rows' = [t \in Tasks |-> IF t \in Purged(day) THEN Bare("absent")
                                                            ELSE rows[t]]
        BY <3>1 DEF Restart
      <4>2. Purged(day) \in SUBSET {t \in Tasks : rows[t].status # "absent"}
        BY DEF Purged
      <4>3. QED
        BY <4>1, <4>2
    <3>2. CASE UNCHANGED rows
      <4> DEFINE S == {}
      <4>1. /\ S \in SUBSET {t \in Tasks : rows[t].status # "absent"}
            /\ \A t \in S : rows'[t] = Bare("absent")
            /\ \A t \in Tasks \ S : rows'[t] = rows[t]
        BY <3>2
      <4> HIDE DEF S
      <4>2. QED
        BY <4>1
    <3>3. CASE rows' = [t \in Tasks |-> Bare("absent")]
      <4> DEFINE S == {t \in Tasks : rows[t].status # "absent"}
      <4>1. \A t \in Tasks : rows'[t] = Bare("absent")
        BY <3>3
      <4>2. \A t \in Tasks \ S : /\ rows'[t].status = rows[t].status
                                /\ rows'[t].response = rows[t].response
        BY <4>1, BareColumns DEF ServiceInv
      <4>3. S \in SUBSET {t \in Tasks : rows[t].status # "absent"}
        OBVIOUS
      <4> HIDE DEF S
      <4>4. QED
        BY <4>1, <4>2, <4>3
    <3>4. QED
      BY <1>10, <3>1, <3>2, <3>3 DEF CrashInPurge, PurgeFails
  <2>4. QED
    BY <2>1, <2>2, <2>3, OutageMaps
<1>11. CASE Tick
  <2>1. UNCHANGED <<submitted, ops, crashes, up>>
    BY <1>11 DEF Tick, boundVars, faultVars
  <2>2. Late' = Late
    BY <1>11, TickKeeps DEF Late
  <2>3. QED
    BY <1>11, <2>1, <2>2, TickKeeps, UnseenMaps
<1>12. QED
  BY <1>1, <1>3, <1>4, <1>5, <1>7, <1>8, <1>9, <1>10, <1>11, <1>13, <1>14 DEF Next

(* The queue is a TaskService to whoever submits and polls: a settled task
   changes only by an operator, an outage or a second dispatch, and a row
   that is there is lost only by an outage, a retry or its own dispatch. *)
THEOREM QueueIsService == Spec => ServiceSpec
<1>1. Spec => []TypeOK
  BY TypeCorrect
<1>2. TypeOK' => rows' \in [Tasks -> Row]
  BY DEF TypeOK
<1>3. TypeOK /\ TypeOK' /\ ServiceInv /\ [Next]_vars
        => [Service!Next]_Service!serviceVars
  BY <1>2, ServiceNext
<1>4. QED
  BY <1>1, <1>3, ServiceInvInit, ServiceInvNext, ServiceInit, PTL
     DEF Spec, ServiceSpec, Service!Spec

=============================================================================
