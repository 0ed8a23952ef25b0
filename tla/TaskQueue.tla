------------------------------ MODULE TaskQueue ------------------------------
(***************************************************************************)
(* The durable task queue of open-mamba: the task_envelopes table of the   *)
(* DuckDB lake, the std::sync::Mutex around its only connection, the       *)
(* worker that polls it every two seconds, the futures it spawns (one per  *)
(* dispatch, at most WORKER_CONCURRENCY), the reaper, the retry endpoints, *)
(* and what a crash and the purge of the next start do to the table.       *)
(*                                                                         *)
(* Every call of the lake takes the mutex for its whole body, so one call  *)
(* is one action; a future that goes from one lake call to the next is     *)
(* several.  Time is relative: a row carries the time since it was         *)
(* dispatched and the backoff it still has to serve, a dispatch the time   *)
(* since it was spawned, and Tick moves them all.                          *)
(***************************************************************************)
EXTENDS Integers, FiniteSets, Routing

CONSTANTS
  Tasks,              \* task ids, numbered in the order of created_at
  Prio,               \* Prio[t]: the priority column, smaller is sooner
  Model,              \* Model[t]: its model string, as Routing knows it
  Panicky,            \* nemotron tasks whose prompt cannot be logged
  Known,              \* tasks whose agent is registered in openfang
  Slots,              \* names of the futures the worker may spawn
  WORKER_CONCURRENCY,
  MaxRetries,         \* max_retries, 2 in every call
  Backoff,            \* backoff_secs, in ticks
  StuckTimeout,       \* STUCK_TASK_TIMEOUT_SECS, in ticks
  HardTimeout,        \* the per-dispatch tokio timeout, in ticks
  PurgeAge,           \* the two hours of the startup purge, in ticks
  ClientLimit,        \* ClientLimit[k]: the HTTP client timeout of path k
  PromptSpawn,        \* TRUE: a spawned future runs before the next poll
  MaxOps,             \* bound: operator retries in a behaviour
  MaxCrashes,         \* bound: crashes in a behaviour
  MaxFaults           \* bound: statements of the lake that fail

\* The dispatch path of a task.
Kind == [t \in Tasks |-> Path(Model[t])]

ASSUME QueueAssumption ==
  /\ Tasks \subseteq Nat \ {0} /\ IsFiniteSet(Tasks)
  /\ Prio \in [Tasks -> Nat]
  /\ Model \in [Tasks -> Models] /\ Base \in BOOLEAN /\ GridKey \in BOOLEAN
  /\ Panicky \subseteq {t \in Tasks : Kind[t] = "nemotron"}
  /\ Known \subseteq Tasks
  /\ IsFiniteSet(Slots)
  /\ WORKER_CONCURRENCY \in Nat \ {0}
  /\ MaxRetries \in Nat /\ Backoff \in Nat
  /\ MaxOps \in Nat /\ MaxCrashes \in Nat /\ MaxFaults \in Nat
  /\ StuckTimeout \in Nat \ {0} /\ HardTimeout \in Nat /\ PurgeAge \in Nat
  /\ StuckTimeout < HardTimeout /\ HardTimeout <= PurgeAge
  /\ ClientLimit \in [Kinds -> Nat \ {0}]
  /\ PromptSpawn \in BOOLEAN

\* nemotron's probe and request take 128 seconds at most, http-forward's
\* request 30; a turn is stuck after 15 minutes.
ASSUME ClientAssumption ==
  /\ ClientLimit["nemotron"] < StuckTimeout
  /\ ClientLimit["forward"] < StuckTimeout

VARIABLES
  rows,       \* the task_envelopes table
  lock,       \* the connection mutex: free, or held forever by that caller
  batch,      \* ids the poll loop listed and has not looked at yet
  flights,    \* the spawned dispatch futures
  inFlight,   \* the worker's AtomicUsize
  billed,     \* rows of billing_records, per task
  up,         \* the process is running
  submitted,  \* ids inserted so far (history)
  orphaned,   \* tasks whose dispatch was cut off in mid-turn (history)
  dropped,    \* what failed statements did not write, per task (history)
  ops, crashes, faults  \* bounds used up

lakeVars   == <<rows, billed, submitted>>
workerVars == <<batch, flights, inFlight>>
faultVars  == <<dropped, faults>>
boundVars  == <<ops, crashes, faultVars>>
vars == <<rows, lock, batch, flights, inFlight, billed, up, submitted,
          orphaned, boundVars>>

(***************************************************************************)
(* Rows and flights.  "absent" is an id with no row.  age counts only      *)
(* while the row is running and saturates at PurgeAge; wait is what is     *)
(* left of not_before.                                                     *)
(***************************************************************************)
Statuses == {"absent", "pending", "running", "done", "failed"}
Row == [status : Statuses, retry : 0..MaxRetries, wait : 0..Backoff,
        age : 0..PurgeAge, response : BOOLEAN]

Bare(st) == [status |-> st, retry |-> 0, wait |-> 0, age |-> 0,
             response |-> FALSE]

Exists(t) == rows[t].status # "absent"

PCs == {"idle", "starting", "turn", "saved", "completed"}
Flight == [task : Tasks \cup {0}, pc : PCs, age : 0..HardTimeout]
Idle == [task |-> 0, pc |-> "idle", age |-> 0]

Busy == {s \in Slots : flights[s].pc # "idle"}
InTurn(t) == \E s \in Slots : /\ flights[s].task = t
                              /\ flights[s].pc \in {"turn", "saved"}

TypeOK ==
  /\ rows \in [Tasks -> Row]
  /\ lock \in {"free", "reaper", "retry"}
  /\ batch \subseteq Tasks
  /\ flights \in [Slots -> Flight]
  /\ \A s \in Busy : flights[s].task \in Tasks
  /\ inFlight \in Nat
  /\ billed \in [Tasks -> Nat]
  /\ up \in BOOLEAN
  /\ submitted \subseteq Tasks /\ orphaned \subseteq Tasks
  /\ dropped \subseteq Tasks \X {"response", "outcome", "bill", "row"}
  /\ ops \in 0..MaxOps /\ crashes \in 0..MaxCrashes /\ faults \in 0..MaxFaults

Init ==
  /\ rows = [t \in Tasks |-> Bare("absent")]
  /\ lock = "free"
  /\ batch = {} /\ inFlight = 0
  /\ flights = [s \in Slots |-> Idle]
  /\ billed = [t \in Tasks |-> 0]
  /\ up = TRUE
  /\ submitted = {} /\ orphaned = {} /\ dropped = {}
  /\ ops = 0 /\ crashes = 0 /\ faults = 0

\* A call of the lake gets the mutex.
LakeFree == up /\ lock = "free"

\* A statement fails, and that is not written.
Faulty(what) ==
  /\ faults < MaxFaults /\ faults' = faults + 1
  /\ dropped' = dropped \cup what
  /\ UNCHANGED <<ops, crashes>>

-----------------------------------------------------------------------------
(* Submission: POST /ingest -> Bus::submit -> insert_envelope.             *)

Ingest(t) ==
  /\ LakeFree
  /\ t \notin submitted
  /\ \A u \in Tasks : u < t => u \in submitted
  /\ rows' = [rows EXCEPT ![t] = Bare("pending")]
  /\ submitted' = submitted \cup {t}
  /\ UNCHANGED <<workerVars, lock, billed, up, orphaned, boundVars>>

-----------------------------------------------------------------------------
(* The poll loop.                                                          *)

\* Faulty variant: not_before is not read.
Eligible_NoBackoff == {t \in Tasks : rows[t].status = "pending"}

Eligible == {t \in Tasks : rows[t].status = "pending" /\ rows[t].wait = 0}

\* ORDER BY priority ASC, created_at ASC
Precedes(u, t) == \/ Prio[u] < Prio[t]
                  \/ Prio[u] = Prio[t] /\ u < t

\* The first n of list_pending, as the set it is: the order is that of ids.
TakeFirst(n) ==
  {S \in SUBSET Eligible :
     /\ \A t \in S, u \in Eligible : Precedes(u, t) => u \in S
     /\ Cardinality(S) <= n
     /\ Cardinality(S) = n \/ S = Eligible}

\* PromptSpawn: two seconds are enough for a spawned future to reach its
\* first await; only the openfang path has one before it writes `running`.
SpawnsSettled ==
  PromptSpawn => \A s \in Busy : flights[s].pc = "starting"
                                   => Kind[flights[s].task] = "openfang"

\* Faulty variant: the poll forgets what is in flight already.
Poll_AllSlots ==
  /\ LakeFree
  /\ batch = {} /\ inFlight < WORKER_CONCURRENCY
  /\ SpawnsSettled
  /\ Eligible # {}
  /\ \E S \in TakeFirst(WORKER_CONCURRENCY) : batch' = S
  /\ UNCHANGED <<lakeVars, lock, flights, inFlight, up, orphaned, boundVars>>

Poll ==
  /\ LakeFree
  /\ batch = {} /\ inFlight < WORKER_CONCURRENCY
  /\ SpawnsSettled
  /\ Eligible # {}
  /\ \E S \in TakeFirst(WORKER_CONCURRENCY - inFlight) : batch' = S
  /\ UNCHANGED <<lakeVars, lock, flights, inFlight, up, orphaned, boundVars>>

\* Faulty variant: no status re-check.
PickUp_Blindly(t) ==
  /\ LakeFree
  /\ t \in batch /\ \A u \in batch : ~Precedes(u, t)
  /\ batch' = batch \ {t}
  /\ \E s \in Slots \ Busy :
       flights' = [flights EXCEPT
                     ![s] = [task |-> t, pc |-> "starting", age |-> 0]]
  /\ inFlight' = inFlight + 1
  /\ UNCHANGED <<lakeVars, lock, up, orphaned, boundVars>>

\* get_task, the status re-check, and the spawn of the dispatch.
PickUp(t) ==
  /\ LakeFree
  /\ t \in batch /\ \A u \in batch : ~Precedes(u, t)
  /\ batch' = batch \ {t}
  /\ \/ /\ rows[t].status = "pending"
        /\ \E s \in Slots \ Busy :
             flights' = [flights EXCEPT
                           ![s] = [task |-> t, pc |-> "starting", age |-> 0]]
        /\ inFlight' = inFlight + 1
     \/ /\ rows[t].status # "pending"
        /\ UNCHANGED <<flights, inFlight>>
  /\ UNCHANGED <<lakeVars, lock, up, orphaned, boundVars>>

\* get_task fails: the loop goes on to the next id.
PickUpFails(t) ==
  /\ LakeFree
  /\ t \in batch /\ \A u \in batch : ~Precedes(u, t)
  /\ batch' = batch \ {t}
  /\ Faulty({})
  /\ UNCHANGED <<lakeVars, lock, flights, inFlight, up, orphaned>>

-----------------------------------------------------------------------------
(* A dispatch: the future runs on one thread from await to await.          *)

At(s, pc) == flights[s].pc = pc
GoTo(s, pc) == /\ flights' = [flights EXCEPT ![s].pc = pc]
               /\ UNCHANGED inFlight
\* The future ends: counter.fetch_sub.
Release(s) == /\ flights' = [flights EXCEPT ![s] = Idle]
              /\ inFlight' = inFlight - 1

\* An UPDATE ... WHERE id = t changes nothing when the row is gone.
Update(t, row) ==
  rows' = IF Exists(t) THEN [rows EXCEPT ![t] = row] ELSE rows

\* Faulty variant: update_status(Running) is forgotten.
StartTurn_Silent(s) ==
  /\ LakeFree /\ At(s, "starting")
  /\ Kind[flights[s].task] = "openfang" => flights[s].task \in Known
  /\ GoTo(s, "turn")
  /\ UNCHANGED <<lakeVars, lock, batch, up, orphaned, boundVars>>

\* update_status(Running): at once for nemotron and forward, after the
\* agent lookup for openfang.
StartTurn(s) ==
  LET t == flights[s].task IN
  /\ LakeFree /\ At(s, "starting")
  /\ Kind[t] = "openfang" => t \in Known
  /\ Update(t, [rows[t] EXCEPT !.status = "running", !.age = 0])
  /\ GoTo(s, "turn")
  /\ UNCHANGED <<lock, batch, billed, submitted, up, orphaned, boundVars>>

\* resolve_agent_id fails, agent unknown or openfang unreachable: the ? in
\* dispatch_openfang leaves before anything is written to the lake.
ResolveFails(s) ==
  /\ up /\ At(s, "starting") /\ Kind[flights[s].task] = "openfang"
  /\ Release(s)
  /\ UNCHANGED <<lakeVars, lock, batch, up, orphaned, boundVars>>

\* The ? of update_status leaves with the row still pending.
StartFails(s) ==
  /\ LakeFree /\ At(s, "starting")
  /\ Kind[flights[s].task] = "openfang" => flights[s].task \in Known
  /\ Release(s) /\ Faulty({})
  /\ UNCHANGED <<lakeVars, lock, batch, up, orphaned>>

\* The turns that may be answered with a response.
MayRespond(t) ==
  /\ Kind[t] # "forward" /\ t \notin Panicky
  /\ Kind[t] = "nemotron" => CanGenerate(Adapter(Model[t]))

\* Faulty variants: the response is dropped; complete_envelope is skipped.
SaveResponse_Drops(s) ==
  /\ LakeFree /\ At(s, "turn") /\ MayRespond(flights[s].task)
  /\ GoTo(s, "saved")
  /\ UNCHANGED <<lakeVars, lock, batch, up, orphaned, boundVars>>

SaveResponse_BillsEarly(s) ==
  LET t == flights[s].task IN
  /\ LakeFree /\ At(s, "turn") /\ MayRespond(t)
  /\ Update(t, [rows[t] EXCEPT !.response = TRUE])
  /\ GoTo(s, "completed")
  /\ UNCHANGED <<lock, batch, billed, submitted, up, orphaned, boundVars>>

\* The turn answered: save_response.
SaveResponse(s) ==
  LET t == flights[s].task IN
  /\ LakeFree /\ At(s, "turn") /\ MayRespond(t)
  /\ Update(t, [rows[t] EXCEPT !.response = TRUE])
  /\ GoTo(s, "saved")
  /\ UNCHANGED <<lock, batch, billed, submitted, up, orphaned, boundVars>>

\* save_response is best effort: its error is discarded.
SaveFails(s) ==
  /\ LakeFree /\ At(s, "turn") /\ MayRespond(flights[s].task)
  /\ GoTo(s, "saved") /\ Faulty({<<flights[s].task, "response">>})
  /\ UNCHANGED <<lakeVars, lock, batch, up, orphaned>>

\* Faulty variant: the dispatch ends without billing.
CompleteEnvelope_Unbilled(s) ==
  LET t == flights[s].task IN
  /\ LakeFree /\ At(s, "saved")
  /\ Update(t, [rows[t] EXCEPT !.status = "done", !.age = 0])
  /\ Release(s)
  /\ UNCHANGED <<lock, batch, billed, submitted, up, orphaned, boundVars>>

\* complete_envelope, a second lake call.
CompleteEnvelope(s) ==
  LET t == flights[s].task IN
  /\ LakeFree /\ At(s, "saved")
  /\ Update(t, [rows[t] EXCEPT !.status = "done", !.age = 0])
  /\ GoTo(s, "completed")
  /\ UNCHANGED <<lock, batch, billed, submitted, up, orphaned, boundVars>>

\* The ? of complete_envelope leaves in mid-turn.
CompletionFails(s) ==
  LET t == flights[s].task IN
  /\ LakeFree
  /\ At(s, "saved") \/ (At(s, "turn") /\ Kind[t] = "forward")
  /\ Release(s) /\ Faulty({<<t, "outcome">>})
  /\ UNCHANGED <<lakeVars, lock, batch, up, orphaned>>

\* BillingWorker::process does not wait for anything; insert_billing.
InsertBilling(s) ==
  /\ LakeFree /\ At(s, "completed")
  /\ billed' = [billed EXCEPT ![flights[s].task] = @ + 1]
  /\ Release(s)
  /\ UNCHANGED <<rows, submitted, lock, batch, up, orphaned, boundVars>>

\* The errors of process and of insert_billing are discarded.
BillingFails(s) ==
  /\ up /\ At(s, "completed")
  /\ Release(s) /\ Faulty({<<flights[s].task, "bill">>})
  /\ UNCHANGED <<lakeVars, lock, batch, up, orphaned>>

\* http-forward: any HTTP answer completes the task; it is not billed.
ForwardAnswered(s) ==
  LET t == flights[s].task IN
  /\ LakeFree /\ At(s, "turn") /\ Kind[t] = "forward"
  /\ Update(t, [rows[t] EXCEPT !.status = "done", !.age = 0])
  /\ Release(s)
  /\ UNCHANGED <<lock, batch, billed, submitted, up, orphaned, boundVars>>

\* Faulty variants: no retry budget; a permanent failure is not written.
AfterFailure_NoBudget(row, transient) ==
  IF transient
  THEN [Bare("pending") EXCEPT !.retry = row.retry + 1, !.wait = Backoff]
  ELSE [row EXCEPT !.status = "failed", !.age = 0]

AfterFailure_Forgets(row, transient) ==
  IF transient /\ row.retry < MaxRetries
  THEN [Bare("pending") EXCEPT !.retry = row.retry + 1, !.wait = Backoff]
  ELSE row

\* record_dispatch_failure: DELETE+INSERT of the core columns when the error
\* is transient and the budget is not used up, else status = failed.
AfterFailure(row, transient) ==
  IF transient /\ row.retry < MaxRetries
  THEN [Bare("pending") EXCEPT !.retry = row.retry + 1, !.wait = Backoff]
  ELSE [row EXCEPT !.status = "failed", !.age = 0]

\* What the error of a turn of t may say.
Errors(t) == IF t \in Panicky THEN ErrorTextsBeforePanic(Model[t])
             ELSE ErrorTexts(Model[t])

TurnFails(s, text) ==
  LET t == flights[s].task IN
  /\ LakeFree /\ At(s, "turn")
  /\ text \in Errors(t)
  /\ Update(t, AfterFailure(rows[t], IsTransient(text)))
  /\ Release(s)
  /\ UNCHANGED <<lock, batch, billed, submitted, up, orphaned, boundVars>>

\* record_dispatch_failure fails, and every path ends without an outcome: at
\* the read of the row, the DELETE or the UPDATE, all as they were; at the
\* INSERT, the row gone; at the read of the counter, which counts as zero.
FailureFails(s, text) ==
  LET t == flights[s].task IN
  /\ LakeFree /\ At(s, "turn")
  /\ text \in Errors(t)
  /\ Release(s)
  /\ \/ /\ Faulty({<<t, "outcome">>})
        /\ UNCHANGED rows
     \/ /\ Exists(t) /\ IsTransient(text) /\ rows[t].retry < MaxRetries
        /\ Faulty({<<t, "row">>})
        /\ rows' = [rows EXCEPT ![t] = Bare("absent")]
     \/ /\ IsTransient(text)
        /\ Faulty({})
        /\ Update(t, AfterFailure([rows[t] EXCEPT !.retry = 0], TRUE))
  /\ UNCHANGED <<lock, batch, billed, submitted, up, orphaned>>

\* generate logs the first 80 bytes of the prompt and slices inside a
\* character: the future unwinds, and fetch_sub is not reached.
Panics(s) ==
  LET t == flights[s].task IN
  /\ up /\ At(s, "turn")
  /\ t \in Panicky /\ CanGenerate(Adapter(Model[t]))
  /\ flights' = [flights EXCEPT ![s] = Idle]
  /\ orphaned' = orphaned \cup {t}
  /\ UNCHANGED <<lakeVars, lock, batch, inFlight, up, boundVars>>

\* Faulty variant: the slot is not given back.
HardTimeoutFires_Leaks(s) ==
  /\ up /\ flights[s].pc \in {"starting", "turn"}
  /\ flights[s].age >= HardTimeout
  /\ orphaned' = IF At(s, "turn") THEN orphaned \cup {flights[s].task}
                                  ELSE orphaned
  /\ flights' = [flights EXCEPT ![s] = Idle]
  /\ UNCHANGED <<lakeVars, lock, batch, inFlight, up, boundVars>>

\* The worker's timeout drops the future at an await; nothing is written.
HardTimeoutFires(s) ==
  /\ up /\ flights[s].pc \in {"starting", "turn"}
  /\ flights[s].age >= HardTimeout
  /\ orphaned' = IF At(s, "turn") THEN orphaned \cup {flights[s].task}
                                  ELSE orphaned
  /\ Release(s)
  /\ UNCHANGED <<lakeVars, lock, batch, up, boundVars>>

-----------------------------------------------------------------------------
(* The reaper and the retry endpoints.                                     *)

Stuck == {t \in Tasks : rows[t].status = "running"
                          /\ rows[t].age >= StuckTimeout}

\* reap_stuck_tasks keeps its guard while it calls mark_failed, which locks
\* the same mutex: with a stuck row the first call never returns.
ReapStuckTasks ==
  /\ LakeFree
  /\ Stuck # {}
  /\ lock' = "reaper"
  /\ UNCHANGED <<lakeVars, workerVars, up, orphaned, boundVars>>

\* POST /api/tasks/:id/retry, reset_to_pending on one id, any status.
RetryTask(t) ==
  /\ LakeFree /\ ops < MaxOps
  /\ Exists(t)
  /\ rows' = [rows EXCEPT ![t] = Bare("pending")]
  /\ ops' = ops + 1
  /\ UNCHANGED <<workerVars, lock, billed, submitted, up, orphaned, crashes,
                 faultVars>>

\* Its INSERT fails after the DELETE.
RetryFails(t) ==
  /\ LakeFree /\ ops < MaxOps
  /\ Exists(t)
  /\ rows' = [rows EXCEPT ![t] = Bare("absent")]
  /\ ops' = ops + 1
  /\ faults < MaxFaults /\ faults' = faults + 1
  /\ dropped' = dropped \cup {<<t, "row">>}
  /\ UNCHANGED <<workerVars, lock, billed, submitted, up, orphaned, crashes>>

\* POST /api/tasks/retry-pending: reset_stuck_tasks holds its guard while it
\* calls reset_to_pending, which returns before locking when no id is given.
RetryPending ==
  LET ids == {t \in Tasks : rows[t].status \in {"running", "failed"}} IN
  /\ LakeFree /\ ops < MaxOps
  /\ lock' = IF ids = {} THEN lock ELSE "retry"
  /\ ops' = ops + 1
  /\ UNCHANGED <<lakeVars, workerVars, up, orphaned, crashes, faultVars>>

-----------------------------------------------------------------------------
(* Crash and restart.  Statements autocommit, there is no transaction.     *)

Down ==
  /\ up /\ crashes < MaxCrashes
  /\ up' = FALSE /\ crashes' = crashes + 1
  /\ lock' = "free" /\ batch' = {} /\ inFlight' = 0
  /\ flights' = [s \in Slots |-> Idle]
  /\ orphaned' = orphaned \cup
                   {t \in Tasks : rows[t].status = "running"}
  /\ UNCHANGED <<billed, submitted, ops, faultVars>>

Crash == Down /\ UNCHANGED rows

\* The process dies between the DELETE and the INSERT of a replaced row: in
\* reset_to_pending, or in record_dispatch_failure of a transient error.
CrashInReplace(t) ==
  /\ lock = "free" /\ Exists(t)
  /\ \/ ops < MaxOps
     \/ /\ rows[t].retry < MaxRetries
        /\ \E s \in Slots : flights[s].task = t /\ At(s, "turn")
        /\ \E text \in Errors(t) : IsTransient(text)
  /\ rows' = [rows EXCEPT ![t] = Bare("absent")]
  /\ Down

\* purge_corrupted_rows compares dispatched_at, printed as `date time`, with
\* an RFC 3339 cutoff (`dateTtime`) two hours back: a row goes when its DATE
\* is not after the cutoff's.  With midnight less than two hours ago these
\* are the rows dispatched before it, else all of them: those of age >= day
\* for a day in 0..PurgeAge.
Purged(day) == {t \in Tasks : rows[t].status = "running"
                                /\ rows[t].age >= day}

Restart ==
  /\ ~up /\ up' = TRUE
  /\ \E day \in 0..PurgeAge :
       rows' = [t \in Tasks |-> IF t \in Purged(day) THEN Bare("absent")
                                                     ELSE rows[t]]
  /\ UNCHANGED <<lock, workerVars, billed, submitted, orphaned, boundVars>>

\* The purge fails: at the export or the DROP nothing is purged, at the
\* import the new table stays empty.
PurgeFails ==
  /\ ~up /\ up' = TRUE
  /\ Purged(0) # {}
  /\ Faulty({})
  /\ rows' \in {rows, [t \in Tasks |-> Bare("absent")]}
  /\ UNCHANGED <<lock, workerVars, billed, submitted, orphaned>>

\* The good rows are exported to a temporary file, the table is dropped,
\* created and loaded again: a crash in between leaves an empty table.
CrashInPurge ==
  /\ ~up /\ crashes < MaxCrashes
  /\ Purged(0) # {}
  /\ rows' = [t \in Tasks |-> Bare("absent")]
  /\ crashes' = crashes + 1
  /\ UNCHANGED <<lock, workerVars, billed, up, submitted, orphaned, ops,
                 faultVars>>

-----------------------------------------------------------------------------
(* Time.                                                                   *)

LeastOf(a, b) == IF a <= b THEN a ELSE b

\* Faulty variant: HTTP clients built without a timeout.
Overdue_NoClientTimeout(s) ==
  \/ /\ flights[s].pc \in {"starting", "turn"}
     /\ flights[s].age >= HardTimeout
  \/ flights[s].pc \in {"saved", "completed"}

\* An await ends by the client's timeout or by the worker's, whichever is
\* first, and timers are not late by a tick; a future that waits for nothing
\* but the mutex is not either.
Overdue(s) ==
  \/ /\ flights[s].pc \in {"starting", "turn"}
     /\ flights[s].age >= LeastOf(ClientLimit[Kind[flights[s].task]],
                                  HardTimeout)
  \/ flights[s].pc \in {"saved", "completed"}

Tick ==
  /\ lock = "free" => \A s \in Slots : ~Overdue(s)
  /\ rows' = [t \in Tasks |->
       [rows[t] EXCEPT
          !.age = IF rows[t].status = "running"
                  THEN LeastOf(@ + 1, PurgeAge) ELSE @,
          !.wait = IF @ = 0 THEN 0 ELSE @ - 1]]
  /\ flights' = [s \in Slots |->
       [flights[s] EXCEPT
          !.age = IF flights[s].pc \in {"starting", "turn"}
                  THEN LeastOf(@ + 1, HardTimeout) ELSE @]]
  /\ UNCHANGED <<lock, batch, inFlight, billed, up, submitted, orphaned,
                 boundVars>>

-----------------------------------------------------------------------------
Outcome(s) == \/ SaveResponse(s)
              \/ ForwardAnswered(s)
              \/ \E text \in Texts : TurnFails(s, text)
              \/ Panics(s)
              \/ HardTimeoutFires(s)

\* Some statement of the dispatch fails.
Slip(s) == \/ StartFails(s)
           \/ SaveFails(s)
           \/ CompletionFails(s)
           \/ BillingFails(s)
           \/ \E text \in Texts : FailureFails(s, text)

Dispatch(s) == \/ StartTurn(s)
               \/ ResolveFails(s)
               \/ Outcome(s)
               \/ CompleteEnvelope(s)
               \/ InsertBilling(s)
               \/ Slip(s)

Next ==
  \/ \E t \in Tasks : Ingest(t)
  \/ Poll
  \/ \E t \in Tasks : PickUp(t) \/ PickUpFails(t)
  \/ \E s \in Slots : Dispatch(s)
  \/ ReapStuckTasks
  \/ \E t \in Tasks : RetryTask(t) \/ RetryFails(t)
  \/ RetryPending
  \/ Crash
  \/ \E t \in Tasks : CrashInReplace(t)
  \/ Restart
  \/ PurgeFails
  \/ CrashInPurge
  \/ Tick

Spec == Init /\ [][Next]_vars

\* The loops of the worker and the reaper run for as long as the process
\* does, every future is polled until it ends, clients time out, and time
\* passes.  Callers, operators, crashes and failing statements are not fair.
Fairness ==
  /\ WF_vars(Poll)
  /\ WF_vars(\E t \in Tasks : PickUp(t))
  /\ \A s \in Slots : /\ WF_vars(StartTurn(s) \/ ResolveFails(s))
                      /\ WF_vars(Outcome(s))
                      /\ WF_vars(CompleteEnvelope(s))
                      /\ WF_vars(InsertBilling(s))
  /\ WF_vars(ReapStuckTasks)
  /\ WF_vars(Restart)
  /\ WF_vars(Tick)

FairSpec == Spec /\ Fairness

-----------------------------------------------------------------------------
(* Properties of every behaviour.                                          *)

\* The outcome of a turn was not written; the task settles no more.
Unwritten(t) == <<t, "outcome">> \in dropped
Lost(t) == Unwritten(t) \/ <<t, "row">> \in dropped

(* The worker never has more than WORKER_CONCURRENCY dispatches in the air,
   although the poll reads the counter before it spawns, spawns are counted
   by the loop and discounted by the futures themselves. *)
ConcurrencyBound == Cardinality(Busy) <= WORKER_CONCURRENCY

(* A row says `running` only while some dispatch of that task is in its
   turn, unless a dispatch of it was cut off by the hard timeout, a panic or
   a crash, or the lake failed to write its outcome: no path of a dispatch
   forgets to. *)
RunningIsOwned ==
  \A t \in Tasks : rows[t].status = "running"
                     => InTurn(t) \/ t \in orphaned \/ Unwritten(t)

(* The reaper locks itself out only because of an openfang task or of one
   whose dispatch was cut off or whose outcome was not written: the clients
   of the other paths give up long before the stuck timeout.  (Once the lake
   is locked every row ages.)  And a retry-pending does, only when it has
   something to reset. *)
StuckHasCause ==
  /\ Stuck # {} => \/ lock = "retry"
                   \/ \E t \in Stuck : \/ Kind[t] = "openfang"
                                        \/ t \in orphaned \/ Unwritten(t)
  /\ lock = "retry" =>
       ops > 0 /\ \E t \in Tasks : rows[t].status \in {"running", "failed"}

(* The counter is exact but for the slots that panics leaked, and a panic
   needs a prompt that cannot be logged: no other end of a dispatch, in any
   interleaving, keeps its slot or gives it back twice. *)
SlotsLeakOnlyByPanic ==
  inFlight # Cardinality(Busy) =>
    inFlight > Cardinality(Busy) /\ orphaned \cap Panicky # {}

(* A task that an agent path completed is metered, or a dispatch of it is
   about to meter it, or metering it failed, or a crash came in between: no
   retry, late dispatch or failure elsewhere makes a finished turn free. *)
UnbilledHasCause ==
  \A t \in Tasks : rows[t].status = "done" /\ Kind[t] # "forward"
                     /\ billed[t] = 0
    => \/ crashes > 0 \/ <<t, "bill">> \in dropped
       \/ \E s \in Slots : flights[s].task = t /\ At(s, "completed")

(* As long as the outcome of every turn gets written, the lake is never
   locked out for good. *)
LakeStaysUsable == (\A t \in Tasks : ~Unwritten(t)) => lock = "free"

(* "we never re-enter a task that's mid-flight" (worker.rs:19): no two
   dispatches of one task are in the air. *)
NeverReentered ==
  \A s1, s2 \in Busy : flights[s1].task = flights[s2].task => s1 = s2

(* "Persist the response text first so workflow advancers can see it"
   (dispatch.rs:185): without duplicates a task that went through an agent
   and is done has its response in the row, unless saving it failed. *)
DoneHasResponse ==
  \A t \in Tasks : rows[t].status = "done" /\ Kind[t] # "forward"
                     => rows[t].response \/ <<t, "response">> \in dropped

(* "Honor `not_before` so backed-off retries don't fire instantly"
   (store.rs:642): no dispatch is spawned for a row still backing off. *)
BackoffHonoured ==
  [][\A s \in Slots : s \notin Busy /\ s \in Busy'
                        => rows[flights'[s].task].wait = 0]_vars

(* Without operators, crashes and agent lookups a task is billed at most
   once, and only when it is done. *)
BilledOnceWhenDone ==
  \A t \in Tasks : /\ billed[t] <= 1
                   /\ billed[t] = 1 => rows[t].status = "done"

(* "Rows stuck `running` for >2 hours that survived previous restarts"
   (store.rs:190): those are all that the startup purge removes. *)
PurgeTakesOnlyExpired ==
  [][~up /\ up' => \A t \in Tasks : Exists(t) /\ ~Exists(t)'
                                      => rows[t].age >= PurgeAge]_vars

\* The lake is locked for good, and an outcome that was not written is why.
LockedByFault == lock # "free" /\ \E t \in Tasks : Unwritten(t)

(* Every submitted task settles, unless a failed statement lost its outcome
   or its row, or one lost another's and the reaper locked the lake on it. *)
TasksSettle ==
  \A t \in Tasks : (t \in submitted)
                     ~> \/ rows[t].status \in {"done", "failed"}
                        \/ Lost(t) \/ LockedByFault

(* A finished agent turn is metered, unless that fails or the lake is locked
   on an outcome that was lost. *)
DoneIsBilled ==
  \A t \in Tasks : (rows[t].status = "done" /\ Kind[t] # "forward")
                     ~> (billed[t] > 0 \/ <<t, "bill">> \in dropped
                                       \/ LockedByFault)

(* "Force-fail tasks stuck in `running` after 15 minutes" (worker.rs:36). *)
StuckTaskIsFailed ==
  \A t \in Tasks : (t \in Stuck) ~> (rows[t].status # "running")

(* What the queue promises when every dispatch reaches `running` before the
   next poll: the life of a task, one attempt at a time. *)
Lifecycle == INSTANCE TaskLifecycle WITH
               status <- [t \in Tasks |-> IF Lost(t) THEN "lost"
                                                     ELSE rows[t].status],
               retry  <- [t \in Tasks |-> rows[t].retry]
LifecycleSpec == Lifecycle!Spec

(* What the queue is to those who poll it, whatever operators, crashes and
   failing statements do: `running` is pending to them, and a settled task
   changes only while a second dispatch of it is in the air. *)
Seen(st) == IF st = "running" THEN "pending" ELSE st
Late == {t \in Tasks :
           /\ rows[t].status \in {"done", "failed"}
           /\ \E s \in Slots : /\ flights[s].task = t
                               /\ flights[s].pc \in {"starting", "turn", "saved"}}
Service == INSTANCE TaskService WITH
             Texts  <- {TRUE},
             NoText <- FALSE,
             status <- [t \in Tasks |-> Seen(rows[t].status)],
             text   <- [t \in Tasks |-> rows[t].response],
             late   <- Late,
             used   <- submitted,
             calls  <- ops,
             epoch  <- <<crashes, up>>
ServiceSpec == Service!Spec
=============================================================================
