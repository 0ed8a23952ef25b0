------------------------------ MODULE Scheduler ------------------------------
(***************************************************************************)
(* Cron schedules: the worker that wakes every 30 seconds, lists the due   *)
(* rows, submits a task for each and advances next_run_at, and the callers *)
(* that create, replace and delete schedules meanwhile.  now counts        *)
(* minutes, the grain of a cron expression.  A lake call is an action; the *)
(* worker works on the copy of the rows it listed.                         *)
(***************************************************************************)
EXTENDS Naturals, FiniteSets

CONSTANTS
  Schedules,   \* schedule ids
  Crons,       \* cron expressions
  Matches,     \* Matches[c]: the minutes that c matches
  Horizon,     \* bound: the last minute
  MaxOps,      \* bound: replacements and deletions
  MaxCrashes,  \* bound: crashes
  MaxFails     \* bound: lake calls of the worker that fail

ASSUME SchedulerAssumption ==
  /\ Horizon \in Nat \ {0}
  /\ Crons # {}
  /\ Matches \in [Crons -> SUBSET (1..Horizon)]
  /\ MaxOps \in Nat /\ MaxCrashes \in Nat /\ MaxFails \in Nat

NoOne == "no one"
ASSUME NoOneAssumption == NoOne \notin Schedules

VARIABLES
  now, up,
  rows,      \* the schedules table
  due,       \* ids listed in this tick and not handled yet
  snap,      \* the rows as listed
  firing,    \* the id that is submitted and not advanced yet
  waiting,   \* due ids that are left to the next tick
  fired,     \* fired[s][m]: tasks submitted for match m of s (history)
  total,     \* tasks submitted for s (history)
  since,     \* of these, since a caller last wrote s whole (history)
  afterOff,  \* tasks submitted since s was disabled (history)
  owed,      \* matches that came while s was enabled (history)
  unsaved,   \* firings whose advance failed (history)
  ops, crashes, fails

workerVars  == <<due, snap, firing>>
historyVars == <<fired, total, since, afterOff, owed>>
tableVars   == <<rows, historyVars>>
boundVars   == <<unsaved, ops, crashes, fails>>
vars == <<now, up, waiting, tableVars, workerVars, boundVars>>

Times == 1..Horizon
Row == [status : {"none", "on", "off"}, cron : Crons, next : Times, fires : Nat]

TypeOK ==
  /\ now \in 0..Horizon /\ up \in BOOLEAN
  /\ rows \in [Schedules -> Row]
  /\ snap \in [Schedules -> Row]
  /\ due \subseteq Schedules
  /\ firing \in due \cup {NoOne}
  /\ waiting \subseteq Schedules
  /\ fired \in [Schedules -> [Times -> Nat]]
  /\ total \in [Schedules -> Nat] /\ since \in [Schedules -> Nat]
  /\ afterOff \in [Schedules -> Nat]
  /\ owed \in [Schedules -> SUBSET Times]
  /\ ops \in 0..MaxOps /\ crashes \in 0..MaxCrashes
  /\ unsaved \in Nat /\ fails \in 0..MaxFails

NoRow == [status |-> "none", cron |-> CHOOSE c \in Crons : TRUE,
          next |-> 1, fires |-> 0]

Init ==
  /\ now = 0 /\ up = TRUE
  /\ rows = [s \in Schedules |-> NoRow] /\ snap = rows
  /\ due = {} /\ firing = NoOne /\ waiting = {}
  /\ fired = [s \in Schedules |-> [m \in Times |-> 0]]
  /\ total = [s \in Schedules |-> 0] /\ since = total
  /\ afterOff = [s \in Schedules |-> 0]
  /\ owed = [s \in Schedules |-> {}]
  /\ unsaved = 0 /\ ops = 0 /\ crashes = 0 /\ fails = 0

Earliest(M) == {m \in M : \A n \in M : m <= n}

\* Faulty variant: not strictly after.
NextAfter_Inclusive(c, t) == Earliest({m \in Matches[c] : m >= t})

\* cron_util::next_after: {the next match}, or {} when there is none.
NextAfter(c, t) == Earliest({m \in Matches[c] : m > t})

-----------------------------------------------------------------------------
(* The callers.                                                            *)

\* upsert_schedule: UPDATE, or INSERT when there is no such row.
UpsertSchedule(s, row) == rows' = [rows EXCEPT ![s] = row]

\* POST /api/schedules.
CreateSchedule(s) ==
  /\ up
  /\ rows[s].status # "none" => ops < MaxOps
  /\ ops' = IF rows[s].status = "none" THEN ops ELSE ops + 1
  /\ \E c \in Crons, st \in {"on", "off"} : \E next \in NextAfter(c, now) :
       UpsertSchedule(s, [status |-> st, cron |-> c, next |-> next, fires |-> 0])
  /\ since' = [since EXCEPT ![s] = 0]
  /\ afterOff' = [afterOff EXCEPT ![s] = 0]
  /\ UNCHANGED <<now, up, waiting, workerVars, fired, total, owed, unsaved,
                 crashes, fails>>

\* DELETE /api/schedules/:id sets enabled to false.
DeleteSchedule(s) ==
  /\ up /\ ops < MaxOps
  /\ rows[s].status = "on"
  /\ rows' = [rows EXCEPT ![s].status = "off"]
  /\ ops' = ops + 1
  /\ UNCHANGED <<now, up, waiting, workerVars, historyVars, unsaved, crashes,
                 fails>>

-----------------------------------------------------------------------------
(* The worker's tick.                                                      *)

\* Faulty variant: the enabled column is not read.
DueSchedules_Disabled ==
  {s \in Schedules : rows[s].status # "none" /\ rows[s].next <= now}

DueSchedules == {s \in Schedules : rows[s].status = "on" /\ rows[s].next <= now}

ListDue ==
  /\ up /\ due = {}
  /\ DueSchedules # {}
  /\ due' = DueSchedules /\ snap' = rows
  /\ UNCHANGED <<now, up, waiting, firing, tableVars, boundVars>>

\* due_schedules fails, and with it the tick.
ListFails ==
  /\ up /\ due = {}
  /\ DueSchedules # {} /\ fails < MaxFails
  /\ waiting' = DueSchedules
  /\ fails' = fails + 1
  /\ UNCHANGED <<now, up, workerVars, tableVars, unsaved, ops, crashes>>

\* ORDER BY next_run_at ASC
IsFirst(s) == s \in due /\ \A r \in due : snap[s].next <= snap[r].next

\* bus.submit, for the row as it was listed.
Fire(s) ==
  /\ up /\ firing = NoOne
  /\ IsFirst(s)
  /\ firing' = s
  /\ fired' = [fired EXCEPT ![s][snap[s].next] = @ + 1]
  /\ total' = [total EXCEPT ![s] = @ + 1]
  /\ since' = [since EXCEPT ![s] = @ + 1]
  /\ afterOff' = [afterOff EXCEPT ![s] = IF rows[s].status = "off"
                                         THEN @ + 1 ELSE @]
  /\ UNCHANGED <<now, up, waiting, rows, due, snap, owed, boundVars>>

Handled(s) == due' = due \ {s} /\ firing' = NoOne /\ snap' = snap

\* bus.submit fails: the row stays due and waits for the next tick.
SubmitFails(s) ==
  /\ up /\ firing = NoOne
  /\ IsFirst(s) /\ fails < MaxFails
  /\ Handled(s) /\ waiting' = waiting \cup {s}
  /\ fails' = fails + 1
  /\ UNCHANGED <<now, up, tableVars, unsaved, ops, crashes>>

\* The lake call after the submit fails, advance_schedule or upsert_schedule:
\* a warning at most, and the row stays due for the next tick.
AdvanceFails(s) ==
  /\ up /\ firing = s
  /\ fails < MaxFails
  /\ Handled(s) /\ waiting' = waiting \cup {s}
  /\ fails' = fails + 1 /\ unsaved' = unsaved + 1
  /\ UNCHANGED <<now, up, tableVars, ops, crashes>>

\* Faulty variants: fire_count is forgotten; the first match is skipped;
\* an expression without a match gives time zero.
Advance_NoCount(s) ==
  /\ up /\ firing = s
  /\ \E next \in NextAfter(snap[s].cron, now) :
       rows' = [rows EXCEPT ![s].next = next]
  /\ Handled(s)
  /\ UNCHANGED <<now, up, waiting, historyVars, boundVars>>

Advance_SkipsOne(s) ==
  /\ up /\ firing = s
  /\ \E next \in NextAfter(snap[s].cron, now + 1) :
       rows' = [rows EXCEPT ![s].next = next, ![s].fires = @ + 1]
  /\ Handled(s)
  /\ UNCHANGED <<now, up, waiting, historyVars, boundVars>>

Advance_Zero(s) ==
  /\ up /\ firing = s
  /\ \E next \in NextAfter(snap[s].cron, now) \cup {0} :
       rows' = [rows EXCEPT ![s].next = next, ![s].fires = @ + 1]
  /\ Handled(s)
  /\ UNCHANGED <<now, up, waiting, historyVars, boundVars>>

\* advance_schedule, with the expression as it was listed.
Advance(s) ==
  /\ up /\ firing = s
  /\ \E next \in NextAfter(snap[s].cron, now) :
       rows' = [rows EXCEPT ![s].next = next, ![s].fires = @ + 1]
  /\ Handled(s)
  /\ UNCHANGED <<now, up, waiting, historyVars, boundVars>>

\* Faulty variant: the tick never gets past an expression without a match.
DisableBroken_Hangs(s) ==
  /\ up /\ firing = s
  /\ NextAfter(snap[s].cron, now) = {}
  /\ UNCHANGED vars

\* No match is left: the row is written back as it was listed, but disabled.
\* What it was just fired is not counted, what callers wrote since is undone.
DisableBroken(s) ==
  /\ up /\ firing = s
  /\ NextAfter(snap[s].cron, now) = {}
  /\ UpsertSchedule(s, [snap[s] EXCEPT !.status = "off"])
  /\ Handled(s)
  /\ UNCHANGED <<now, up, waiting, historyVars, boundVars>>

-----------------------------------------------------------------------------
Crash ==
  /\ up /\ crashes < MaxCrashes
  /\ up' = FALSE /\ crashes' = crashes + 1
  /\ due' = {} /\ firing' = NoOne /\ snap' = rows
  /\ UNCHANGED <<now, waiting, tableVars, unsaved, ops, fails>>

Restart ==
  /\ ~up /\ up' = TRUE
  /\ waiting' = DueSchedules
  /\ UNCHANGED <<now, workerVars, tableVars, boundVars>>

\* A tick comes every thirty seconds: while the process runs no minute passes
\* without one, but a row that waits for the next tick may see it pass.
Minute ==
  /\ now < Horizon
  /\ up => due = {} /\ DueSchedules \subseteq waiting
  /\ now' = now + 1 /\ waiting' = {}
  /\ owed' = [s \in Schedules |->
                IF rows[s].status = "on" /\ now' \in Matches[rows[s].cron]
                THEN owed[s] \cup {now'} ELSE owed[s]]
  /\ UNCHANGED <<up, workerVars, rows, fired, total, since, afterOff, boundVars>>

Worker == \/ ListDue \/ ListFails
          \/ \E s \in Schedules : \/ Fire(s) \/ SubmitFails(s)
                               \/ Advance(s) \/ DisableBroken(s) \/ AdvanceFails(s)

Next == \/ \E s \in Schedules : CreateSchedule(s) \/ DeleteSchedule(s)
        \/ Worker
        \/ Crash \/ Restart \/ Minute

Spec == Init /\ [][Next]_vars

\* The worker ticks for as long as the process lives, which is restarted.
FairSpec == Spec /\ WF_vars(Worker) /\ WF_vars(Restart)

-----------------------------------------------------------------------------
(* Properties.                                                             *)

(* "up to one extra invocation per crash" (scheduler.rs:9): no match of a
   schedule is fired more than once plus once per crash and per advance that
   failed, whatever callers do to the row meanwhile. *)
FiredOncePerMatch ==
  \A s \in Schedules, m \in Times : fired[s][m] <= 1 + crashes + unsaved

(* A schedule disabled after the worker listed it fires once more, and then
   never again. *)
OneFireAfterDelete == \A s \in Schedules : afterOff[s] <= 1

(* fire_count never exceeds the submissions, even where a stale worker writes
   over a caller's replacement; and it falls behind those since the last one
   only by the firing in hand, by those that a crash or a failed advance cut
   off, and by the last of a row that was disabled. *)
FireCountFollows ==
  \A s \in Schedules :
    /\ rows[s].fires <= total[s]
    /\ since[s] <= rows[s].fires + crashes + unsaved
                     + (IF firing = s THEN 1 ELSE 0)
                     + (IF rows[s].status = "off" THEN 1 ELSE 0)

(* "never silently drops a schedule ... missed runs are not [recoverable]"
   (scheduler.rs:11): while the process stays up and nobody replaces the row,
   a match of an enabled schedule is passed over without a task only for a
   lake call of the worker that failed, one match for each. *)
Missed(s) == {m \in owed[s] : /\ fired[s][m] = 0
                              /\ m < rows[s].next \/ rows[s].status = "off"}
MatchesFireWhileUp ==
  ops = 0 /\ crashes = 0 =>
    \A s \in Schedules : Cardinality(Missed(s)) <= fails

(* A due row is advanced or disabled, crashes or not. *)
DueIsHandled ==
  \A s \in Schedules :
    (rows[s].status = "on" /\ rows[s].next <= now)
      ~> (rows[s].status = "off" \/ rows[s].next > now)
=============================================================================
