--------------------------- MODULE SchedulerProofs ---------------------------
(***************************************************************************)
(* Theorems about Scheduler for every value of its constants.              *)
(***************************************************************************)
EXTENDS Scheduler, FiniteSetTheorems, TLAPS

\* What was fired was due, and what was listed is due.
FiredWasDue == \A s \in Schedules, m \in Times : fired[s][m] > 0 => m <= now
ListedIsDue == \A s \in due : snap[s].next <= now

\* A match that is still to be fired was fired at most once per crash and
\* failed advance: listed and not submitted, or at the head of an enabled row.
Pending(s) == s \in due /\ s # firing
ListedIsFresh == \A s \in Schedules : Pending(s) => fired[s][snap[s].next] <= crashes + unsaved
RowIsFresh == \A s \in Schedules :
  rows[s].status = "on" /\ ~(firing = s /\ rows[s].next = snap[s].next)
    => fired[s][rows[s].next] <= crashes + unsaved

\* An enabled or a listed row was not yet fired after it was disabled.
DisabledLast == \A s \in Schedules :
  /\ afterOff[s] <= 1
  /\ Pending(s) \/ rows[s].status = "on" => afterOff[s] = 0

SchedulerInv == /\ TypeOK
                /\ FiredOncePerMatch /\ FiredWasDue
                /\ ListedIsDue /\ ListedIsFresh /\ RowIsFresh
                /\ DisabledLast

-----------------------------------------------------------------------------
(* The next firing time is a minute of the model and lies in the future. *)
LEMMA NextAfterIsLater ==
  ASSUME NEW c \in Crons, NEW t \in Nat, NEW m \in NextAfter(c, t)
  PROVE  m \in Times /\ m > t
BY SchedulerAssumption DEF NextAfter, Earliest, Times

(* One column of one row is rewritten. *)
LEMMA ColumnUpdate ==
  ASSUME NEW R \in [Schedules -> Row], NEW s \in Schedules, NEW row \in Row
  PROVE  /\ [R EXCEPT ![s] = row] \in [Schedules -> Row]
         /\ [R EXCEPT ![s] = row][s] = row
         /\ \A r \in Schedules : r # s => [R EXCEPT ![s] = row][r] = R[r]
OBVIOUS

(* The listed row with its next firing time and its count advanced. *)
LEMMA AdvancedRow ==
  ASSUME NEW r \in Row, NEW next \in Times
  PROVE  LET row == [r EXCEPT !.next = next, !.fires = @ + 1]
         IN  row \in Row /\ row.next = next /\ row.status = r.status
<1>1. r.fires + 1 \in Nat
  BY DEF Row
<1>2. ASSUME NEW k \in Nat
      PROVE  LET row == [r EXCEPT !.next = next, !.fires = k]
             IN  row \in Row /\ row.next = next /\ row.status = r.status
  BY DEF Row
<1>3. QED
  BY <1>1, <1>2

(* What lies ahead of the clock was not fired. *)
LEMMA NotFiredAhead ==
  ASSUME TypeOK, FiredWasDue, NEW s \in Schedules, NEW m \in Times, m > now
  PROVE  fired[s][m] = 0
<1>1. fired[s] \in [Times -> Nat]
  BY DEF TypeOK
<1>2. fired[s][m] \in Nat
  BY <1>1
<1>3. m \in Nat /\ now \in Nat
  BY SchedulerAssumption DEF TypeOK, Times
<1>4. ~(fired[s][m] > 0)
  BY <1>3 DEF FiredWasDue
<1>5. QED
  BY <1>2, <1>4

LEMMA SchedulerInvInit == Init => SchedulerInv
<1> SUFFICES ASSUME Init PROVE SchedulerInv
  OBVIOUS
<1>1. NoRow \in Row
  BY SchedulerAssumption DEF NoRow, Row, Times
<1>2. TypeOK
  BY <1>1, SchedulerAssumption DEF Init, TypeOK
<1>3. QED
  BY <1>1, <1>2, SchedulerAssumption
     DEF Init, SchedulerInv, FiredOncePerMatch, FiredWasDue, ListedIsDue,
         ListedIsFresh, RowIsFresh, DisabledLast, Pending, NoRow, Row

(* Each action keeps the invariant. *)
LEMMA SchedulerInvNext == SchedulerInv /\ [Next]_vars => SchedulerInv'
<1> SUFFICES ASSUME SchedulerInv, [Next]_vars PROVE SchedulerInv'
  OBVIOUS
<1> USE DEF SchedulerInv
<1>0. crashes \in Nat /\ unsaved \in Nat /\ now \in Nat
  BY SchedulerAssumption DEF TypeOK
<1>1. ASSUME NEW s \in Schedules, CreateSchedule(s) PROVE SchedulerInv'
  <2>1. PICK c \in Crons, st \in {"on", "off"} : \E next \in NextAfter(c, now) :
          rows' = [rows EXCEPT ![s] = [status |-> st, cron |-> c,
                                       next |-> next, fires |-> 0]]
    BY <1>1 DEF CreateSchedule, UpsertSchedule
  <2>2. PICK next \in NextAfter(c, now) :
          rows' = [rows EXCEPT ![s] = [status |-> st, cron |-> c,
                                       next |-> next, fires |-> 0]]
    BY <2>1
  <2>3. next \in Times /\ next > now
    BY <1>0, NextAfterIsLater
  <2>4. [status |-> st, cron |-> c, next |-> next, fires |-> 0] \in Row
    BY <2>3 DEF Row
  <2>5. TypeOK'
    BY <1>1, <2>2, <2>4, SchedulerAssumption
       DEF CreateSchedule, TypeOK, workerVars
  <2>6. fired[s][next] = 0
    BY <2>3, NotFiredAhead
  <2>7. RowIsFresh'
    BY <1>0, <1>1, <2>2, <2>6 DEF CreateSchedule, RowIsFresh, TypeOK, workerVars
  <2>8. DisabledLast'
    BY <1>1, <2>2 DEF CreateSchedule, DisabledLast, Pending, TypeOK, workerVars
  <2>9. FiredOncePerMatch' /\ FiredWasDue' /\ ListedIsDue' /\ ListedIsFresh'
    BY <1>1 DEF CreateSchedule, FiredOncePerMatch, FiredWasDue, ListedIsDue,
                ListedIsFresh, Pending, workerVars
  <2>10. QED
    BY <2>5, <2>7, <2>8, <2>9
<1>2. ASSUME NEW s \in Schedules, DeleteSchedule(s) PROVE SchedulerInv'
  <2>0. /\ rows' = [rows EXCEPT ![s] = [rows[s] EXCEPT !.status = "off"]]
        /\ [rows[s] EXCEPT !.status = "off"] \in Row
    BY <1>2 DEF DeleteSchedule, TypeOK, Row
  <2>1. TypeOK'
    <3>1. rows' \in [Schedules -> Row]
      BY <2>0, ColumnUpdate DEF TypeOK
    <3>2. ops' \in 0..MaxOps
      BY <1>2, SchedulerAssumption DEF DeleteSchedule, TypeOK
    <3>3. QED
      BY <1>2, <3>1, <3>2 DEF DeleteSchedule, TypeOK, workerVars, historyVars
  <2>2. \A r \in Schedules : /\ rows'[r].next = rows[r].next
                             /\ rows'[r].status = "on" => rows[r].status = "on"
    BY <1>2 DEF DeleteSchedule, TypeOK, Row
  <2>3. RowIsFresh' /\ DisabledLast'
    BY <1>2, <2>2 DEF DeleteSchedule, RowIsFresh, DisabledLast, Pending,
                     workerVars, historyVars
  <2>4. FiredOncePerMatch' /\ FiredWasDue' /\ ListedIsDue' /\ ListedIsFresh'
    BY <1>2 DEF DeleteSchedule, FiredOncePerMatch, FiredWasDue, ListedIsDue,
                ListedIsFresh, Pending, workerVars, historyVars
  <2>5. QED
    BY <2>1, <2>3, <2>4
<1>3. CASE ListDue
  <2>1. firing = NoOne
    BY <1>3 DEF ListDue, TypeOK
  <2>2. \A s \in Schedules : s # firing
    BY <2>1, NoOneAssumption
  <2>3. TypeOK'
    BY <1>3, <2>1 DEF ListDue, TypeOK, DueSchedules, tableVars, historyVars, boundVars
  <2>4. ListedIsDue' /\ ListedIsFresh'
    BY <1>3, <2>2 DEF ListDue, DueSchedules, ListedIsDue, ListedIsFresh,
                      Pending, RowIsFresh, tableVars, historyVars, boundVars
  <2>5. RowIsFresh' /\ DisabledLast'
    BY <1>3, <2>2 DEF ListDue, DueSchedules, RowIsFresh, DisabledLast, Pending,
                      tableVars, historyVars, boundVars
  <2>6. FiredOncePerMatch' /\ FiredWasDue'
    BY <1>3 DEF ListDue, FiredOncePerMatch, FiredWasDue, tableVars, historyVars, boundVars
  <2>7. QED
    BY <2>3, <2>4, <2>5, <2>6
<1>4. ASSUME NEW s \in Schedules, Fire(s) PROVE SchedulerInv'
  <2> DEFINE m == snap[s].next
  <2>1. /\ m \in Times /\ m <= now /\ Pending(s)
        /\ fired[s][m] \in Nat /\ fired[s][m] <= crashes + unsaved
    <3>1. s \in due /\ Pending(s)
      BY <1>4, NoOneAssumption DEF Fire, IsFirst, Pending
    <3>2. m \in Times /\ fired[s] \in [Times -> Nat]
      BY DEF TypeOK, Row
    <3>3. fired[s][m] \in Nat
      BY <3>2
    <3>4. m <= now /\ fired[s][m] <= crashes + unsaved
      BY <3>1 DEF ListedIsDue, ListedIsFresh
    <3>5. QED
      BY <3>1, <3>2, <3>3, <3>4
  <2>2. /\ \A r \in Schedules, n \in Times :
             fired'[r][n] = IF r = s /\ n = m THEN fired[s][m] + 1 ELSE fired[r][n]
        /\ fired' \in [Schedules -> [Times -> Nat]]
    <3>1. fired' = [fired EXCEPT ![s] = [fired[s] EXCEPT ![m] = fired[s][m] + 1]]
      BY <1>4 DEF Fire
    <3> HIDE DEF m
    <3>2. QED
      BY <2>1, <3>1 DEF TypeOK
  <2> HIDE DEF m
  <2>3. firing' = s /\ UNCHANGED <<now, rows, due, snap, crashes, unsaved>>
    BY <1>4 DEF Fire, boundVars
  <2>4. FiredOncePerMatch' /\ FiredWasDue'
    BY <1>0, <2>1, <2>2, <2>3 DEF FiredOncePerMatch, FiredWasDue
  <2>5. ListedIsDue'
    BY <2>3 DEF ListedIsDue
  <2>6. firing = NoOne /\ \A r \in Schedules : r # firing
    BY <1>4, NoOneAssumption DEF Fire
  <2>7. ListedIsFresh'
    <3> SUFFICES ASSUME NEW r \in Schedules, r \in due, r # s
                 PROVE  fired'[r][snap[r].next] <= crashes + unsaved
      BY <2>3 DEF ListedIsFresh, Pending
    <3>1. snap[r].next \in Times
      BY DEF TypeOK, Row
    <3>2. QED
      BY <2>2, <2>6, <3>1 DEF ListedIsFresh, Pending
  <2>8. RowIsFresh'
    <3> SUFFICES ASSUME NEW r \in Schedules, rows[r].status = "on",
                        ~(s = r /\ rows[r].next = snap[r].next)
                 PROVE  fired'[r][rows[r].next] <= crashes + unsaved
      BY <2>3 DEF RowIsFresh
    <3>1. rows[r].next \in Times
      BY DEF TypeOK, Row
    <3>2. QED
      BY <2>2, <2>6, <3>1 DEF RowIsFresh, m
  <2>9. DisabledLast'
    BY <1>4, <2>1, <2>3, <2>6 DEF Fire, DisabledLast, Pending, TypeOK
  <2>10. TypeOK'
    <3>1. total' \in [Schedules -> Nat] /\ since' \in [Schedules -> Nat]
      BY <1>4 DEF Fire, TypeOK
    <3> QED
      BY <1>4, <2>2, <2>3, <3>1 DEF Fire, IsFirst, TypeOK, boundVars
  <2>11. QED
    BY <2>4, <2>5, <2>7, <2>8, <2>9, <2>10
<1>5. ASSUME NEW s \in Schedules, Advance(s) PROVE SchedulerInv'
  <2>1. PICK next \in NextAfter(snap[s].cron, now) :
          rows' = [rows EXCEPT ![s].next = next, ![s].fires = @ + 1]
    BY <1>5 DEF Advance
  <2>2. next \in Times /\ next > now
    BY <1>0, NextAfterIsLater DEF TypeOK, Row
  <2>3. /\ rows' \in [Schedules -> Row]
        /\ rows'[s].next = next /\ rows'[s].status = rows[s].status
        /\ \A r \in Schedules : r # s => rows'[r] = rows[r]
    <3> DEFINE row == [rows[s] EXCEPT !.next = next, !.fires = @ + 1]
    <3>1. row \in Row /\ row.next = next /\ row.status = rows[s].status
      BY <2>2, AdvancedRow DEF TypeOK
    <3>2. rows' = [rows EXCEPT ![s] = row]
      BY <2>1 DEF TypeOK, Row
    <3> HIDE DEF row
    <3>3. QED
      BY <3>1, <3>2, ColumnUpdate DEF TypeOK
  <2>4. /\ due' = due \ {s} /\ firing = s /\ firing' = NoOne
        /\ UNCHANGED <<now, up, waiting, snap, fired, total, since, afterOff,
                        owed, boundVars>>
    BY <1>5 DEF Advance, Handled, historyVars
  <2>5. TypeOK'
    BY <2>3, <2>4 DEF TypeOK, boundVars
  <2>6. fired[s][next] = 0
    BY <2>2, NotFiredAhead
  <2>7. RowIsFresh'
    BY <1>0, <2>3, <2>4, <2>6, NoOneAssumption DEF RowIsFresh, boundVars
  <2>8. ListedIsFresh' /\ DisabledLast'
    BY <2>3, <2>4, NoOneAssumption DEF ListedIsFresh, DisabledLast, Pending, boundVars
  <2>9. FiredOncePerMatch' /\ FiredWasDue' /\ ListedIsDue'
    BY <2>4 DEF FiredOncePerMatch, FiredWasDue, ListedIsDue, boundVars
  <2>10. QED
    BY <2>5, <2>7, <2>8, <2>9
<1>6. ASSUME NEW s \in Schedules, DisableBroken(s) PROVE SchedulerInv'
  <2>1. /\ rows' \in [Schedules -> Row]
        /\ rows'[s].status = "off"
        /\ \A r \in Schedules : r # s => rows'[r] = rows[r]
    BY <1>6 DEF DisableBroken, UpsertSchedule, TypeOK, Row
  <2>2. /\ due' = due \ {s} /\ firing = s /\ firing' = NoOne
        /\ UNCHANGED <<now, up, waiting, snap, fired, total, since, afterOff,
                        owed, boundVars>>
    BY <1>6 DEF DisableBroken, Handled, historyVars
  <2>4. TypeOK'
    BY <2>1, <2>2 DEF TypeOK, boundVars
  <2>5. RowIsFresh' /\ ListedIsFresh' /\ DisabledLast'
    BY <2>1, <2>2, NoOneAssumption
       DEF RowIsFresh, ListedIsFresh, DisabledLast, Pending, boundVars
  <2>6. FiredOncePerMatch' /\ FiredWasDue' /\ ListedIsDue'
    BY <2>2 DEF FiredOncePerMatch, FiredWasDue, ListedIsDue, boundVars
  <2>7. QED
    BY <2>4, <2>5, <2>6
<1>7. CASE Crash
  <2>1. /\ due' = {} /\ firing' = NoOne /\ snap' = rows /\ up' = FALSE
        /\ crashes' = crashes + 1 /\ crashes < MaxCrashes
        /\ UNCHANGED <<now, waiting, rows, fired, total, since, afterOff, owed,
                        unsaved, ops, fails>>
    BY <1>7 DEF Crash, tableVars, historyVars
  <2>2. TypeOK'
    <3>1. crashes' \in 0..MaxCrashes
      BY <1>0, <2>1, SchedulerAssumption
    <3>2. QED
      BY <2>1, <3>1 DEF TypeOK
  <2>3. FiredOncePerMatch' /\ FiredWasDue' /\ ListedIsDue' /\ ListedIsFresh'
    BY <1>0, <2>1 DEF FiredOncePerMatch, FiredWasDue, ListedIsDue, ListedIsFresh,
                      Pending, TypeOK
  <2>4. RowIsFresh'
    BY <1>0, <2>1 DEF FiredOncePerMatch, RowIsFresh, TypeOK, Row
  <2>5. DisabledLast'
    BY <2>1 DEF DisabledLast, Pending
  <2>6. QED
    BY <2>2, <2>3, <2>4, <2>5
<1>8. CASE Restart
  BY <1>8 DEF Restart, DueSchedules, TypeOK, FiredOncePerMatch, FiredWasDue, ListedIsDue,
              ListedIsFresh, RowIsFresh, DisabledLast, Pending, workerVars,
              tableVars, historyVars, boundVars
<1>9. CASE Minute
  <2>1. /\ now' = now + 1 /\ now < Horizon /\ waiting' = {}
        /\ UNCHANGED <<up, due, snap, firing, rows, fired, total, since, afterOff,
                        unsaved, ops, crashes, fails>>
    BY <1>9 DEF Minute, workerVars, boundVars
  <2>2. owed' \in [Schedules -> SUBSET Times]
    <3>1. now + 1 \in Times
      BY <1>0, <2>1, SchedulerAssumption DEF Times
    <3>2. QED
      BY <1>9, <2>1, <3>1 DEF Minute, TypeOK
  <2>3. now' \in 0..Horizon
    BY <1>0, <2>1, SchedulerAssumption
  <2>4. TypeOK'
    BY <2>1, <2>2, <2>3 DEF TypeOK
  <2>5. FiredWasDue' /\ ListedIsDue'
    <3>1. \A m \in Times : m \in Nat
      BY SchedulerAssumption DEF Times
    <3>2. \A s \in due : snap[s].next \in Times
      BY DEF TypeOK, Row
    <3>3. FiredWasDue'
      BY <1>0, <2>1, <3>1 DEF FiredWasDue
    <3>4. ListedIsDue'
      BY <1>0, <2>1, <3>1, <3>2 DEF ListedIsDue
    <3>5. QED
      BY <3>3, <3>4
  <2>6. FiredOncePerMatch' /\ ListedIsFresh' /\ RowIsFresh' /\ DisabledLast'
    BY <2>1 DEF FiredOncePerMatch, ListedIsFresh, RowIsFresh, DisabledLast, Pending
  <2>7. QED
    BY <2>4, <2>5, <2>6
<1>10. ASSUME NEW s \in Schedules, SubmitFails(s) PROVE SchedulerInv'
  <2>1. /\ due' = due \ {s} /\ firing = NoOne /\ firing' = NoOne
        /\ waiting' = waiting \cup {s}
        /\ UNCHANGED <<now, up, snap, tableVars, unsaved, ops, crashes>>
    BY <1>10 DEF SubmitFails, Handled
  <2>2. fails' \in 0..MaxFails
    BY <1>10, SchedulerAssumption DEF SubmitFails, TypeOK
  <2>3. TypeOK'
    BY <2>1, <2>2 DEF TypeOK, tableVars, historyVars
  <2>4. ListedIsFresh' /\ RowIsFresh' /\ DisabledLast'
    BY <2>1 DEF ListedIsFresh, RowIsFresh, DisabledLast, Pending, tableVars, historyVars
  <2>5. FiredOncePerMatch' /\ FiredWasDue' /\ ListedIsDue'
    BY <2>1 DEF FiredOncePerMatch, FiredWasDue, ListedIsDue, tableVars, historyVars
  <2>6. QED
    BY <2>3, <2>4, <2>5
<1>11. ASSUME NEW s \in Schedules, AdvanceFails(s) PROVE SchedulerInv'
  <2>1. /\ due' = due \ {s} /\ firing = s /\ firing' = NoOne
        /\ unsaved' = unsaved + 1 /\ waiting' = waiting \cup {s}
        /\ UNCHANGED <<now, up, snap, rows, fired, total, since, afterOff, owed,
                        ops, crashes>>
    BY <1>11 DEF AdvanceFails, Handled, tableVars, historyVars
  <2>2. fails' \in 0..MaxFails
    BY <1>11, SchedulerAssumption DEF AdvanceFails, TypeOK
  <2>3. TypeOK'
    BY <1>0, <2>1, <2>2 DEF TypeOK
  <2>4. \A r \in Schedules, m \in Times :
          fired[r][m] \in Nat /\ fired[r][m] <= crashes + unsaved'
    BY <1>0, <2>1 DEF FiredOncePerMatch, TypeOK
  <2>5. \A r \in Schedules : rows[r].next \in Times /\ snap[r].next \in Times
    BY DEF TypeOK, Row
  <2>6. FiredOncePerMatch' /\ ListedIsFresh' /\ RowIsFresh'
    BY <1>0, <2>1, <2>4, <2>5 DEF FiredOncePerMatch, ListedIsFresh, RowIsFresh
  <2>7. FiredWasDue' /\ ListedIsDue' /\ DisabledLast'
    BY <2>1, NoOneAssumption DEF FiredWasDue, ListedIsDue, DisabledLast, Pending
  <2>8. QED
    BY <2>3, <2>6, <2>7
<1>13. ASSUME UNCHANGED <<now, up, rows, due, snap, firing, fired, total, since,
                          afterOff, owed, unsaved, ops, crashes>>,
             waiting' \subseteq Schedules, fails' \in 0..MaxFails
       PROVE  SchedulerInv'
  <2>1. TypeOK'
    BY <1>13 DEF TypeOK
  <2>2. FiredOncePerMatch' /\ FiredWasDue' /\ ListedIsDue' /\ ListedIsFresh'
    BY <1>13 DEF FiredOncePerMatch, FiredWasDue, ListedIsDue, ListedIsFresh, Pending
  <2>3. RowIsFresh' /\ DisabledLast'
    BY <1>13 DEF RowIsFresh, DisabledLast, Pending
  <2>4. QED
    BY <2>1, <2>2, <2>3
<1>12. CASE UNCHANGED vars
  <2>1. waiting' \subseteq Schedules /\ fails' \in 0..MaxFails
    BY <1>12 DEF vars, boundVars, TypeOK
  <2>2. QED
    BY <1>12, <1>13, <2>1 DEF vars, workerVars, tableVars, historyVars, boundVars
<1>14. CASE ListFails
  <2>1. waiting' \subseteq Schedules /\ fails' \in 0..MaxFails
    BY <1>14, SchedulerAssumption DEF ListFails, DueSchedules, TypeOK
  <2>2. QED
    BY <1>13, <1>14, <2>1 DEF ListFails, workerVars, tableVars, historyVars
<1>15. QED
  BY <1>1, <1>2, <1>3, <1>4, <1>5, <1>6, <1>7, <1>8, <1>9, <1>10, <1>11, <1>12,
     <1>14 DEF Next, Worker

(* The schedule table, the worker's copy and the counters keep their types. *)
THEOREM SchedulerTypeCorrect == Spec => []TypeOK
<1>1. SchedulerInv => TypeOK
  BY DEF SchedulerInv
<1>2. QED
  BY <1>1, SchedulerInvInit, SchedulerInvNext, PTL DEF Spec

(* No match is fired more than once plus once per crash and per advance that
   failed, whatever callers do to the schedule while the worker has it in hand. *)
THEOREM MatchesFireOnce == Spec => []FiredOncePerMatch
<1>1. SchedulerInv => FiredOncePerMatch
  BY DEF SchedulerInv
<1>2. QED
  BY <1>1, SchedulerInvInit, SchedulerInvNext, PTL DEF Spec

(* A disabled schedule fires at most once more. *)
THEOREM DisabledFiresOnceMore == Spec => []OneFireAfterDelete
<1>1. SchedulerInv => OneFireAfterDelete
  BY DEF SchedulerInv, DisabledLast, OneFireAfterDelete
<1>2. QED
  BY <1>1, SchedulerInvInit, SchedulerInvNext, PTL DEF Spec

-----------------------------------------------------------------------------
(* The counts of firings.                                                  *)

InHand(s) == IF firing = s THEN 1 ELSE 0
Off(s) == IF rows[s].status = "off" THEN 1 ELSE 0

\* A listed row may be replaced, but a row is never removed.
ListedExists == \A s \in due : rows[s].status # "none"

\* The firing in hand was counted by total and will be by the row, and what
\* holds of the row holds of the copy that may be written over it.
CountsFollow == \A s \in Schedules :
  /\ rows[s].fires + InHand(s) <= total[s]
  /\ snap[s].fires <= total[s]
  /\ since[s] <= rows[s].fires + crashes + unsaved + InHand(s) + Off(s)
  /\ s \in due => since[s] <= snap[s].fires + crashes + unsaved + InHand(s)

AccountInv == ListedExists /\ CountsFollow

LEMMA AccountTypes ==
  ASSUME TypeOK
  PROVE  /\ ops \in Nat /\ crashes \in Nat /\ unsaved \in Nat /\ now \in Nat
         /\ fails \in Nat
         /\ rows \in [Schedules -> Row] /\ snap \in [Schedules -> Row]
         /\ \A s \in Schedules :
              /\ rows[s].fires \in Nat /\ snap[s].fires \in Nat
              /\ total[s] \in Nat /\ since[s] \in Nat
              /\ InHand(s) \in {0, 1} /\ Off(s) \in {0, 1}
              /\ rows[s].next \in Nat /\ rows[s].next \in Times
<1>1. Times \subseteq Nat
  BY SchedulerAssumption DEF Times
<1>2. ASSUME NEW s \in Schedules
      PROVE  /\ rows[s].fires \in Nat /\ rows[s].next \in Times
             /\ snap[s].fires \in Nat
             /\ total[s] \in Nat /\ since[s] \in Nat
             /\ InHand(s) \in {0, 1} /\ Off(s) \in {0, 1}
  <2>1. rows[s] \in Row /\ snap[s] \in Row /\ total[s] \in Nat /\ since[s] \in Nat
    BY DEF TypeOK
  <2>2. rows[s].fires \in Nat /\ rows[s].next \in Times /\ snap[s].fires \in Nat
    BY <2>1 DEF Row
  <2> QED
    BY <2>1, <2>2 DEF InHand, Off
<1>3. /\ ops \in Nat /\ crashes \in Nat /\ unsaved \in Nat /\ now \in Nat
      /\ fails \in Nat
  BY SchedulerAssumption DEF TypeOK
<1>4. rows \in [Schedules -> Row] /\ snap \in [Schedules -> Row]
  BY DEF TypeOK
<1> QED
  BY <1>1, <1>2, <1>3, <1>4

\* What a step does to the counts of a schedule that it does not touch.
LEMMA CountsStay ==
  ASSUME TypeOK, CountsFollow, NEW s \in Schedules,
         crashes' \in {crashes, crashes + 1}, unsaved' \in {unsaved, unsaved + 1},
         rows'[s].fires = rows[s].fires, Off(s)' >= Off(s), Off(s)' \in Nat,
         total'[s] = total[s], since'[s] = since[s],
         snap'[s] = snap[s] \/ snap'[s].fires = rows[s].fires,
         s \in due' => \/ s \in due /\ snap'[s] = snap[s]
                       \/ Off(s) = 0 /\ snap'[s].fires = rows[s].fires,
         \/ InHand(s)' = InHand(s)
         \/ InHand(s)' = 0 /\ (crashes' = crashes + 1 \/ unsaved' = unsaved + 1)
  PROVE  /\ rows'[s].fires + InHand(s)' <= total'[s]
         /\ snap'[s].fires <= total'[s]
         /\ since'[s] <= rows'[s].fires + crashes' + unsaved' + InHand(s)' + Off(s)'
         /\ s \in due' =>
              since'[s] <= snap'[s].fires + crashes' + unsaved' + InHand(s)'
<1>1. /\ rows[s].fires + InHand(s) <= total[s]
      /\ snap[s].fires <= total[s]
      /\ since[s] <= rows[s].fires + crashes + unsaved + InHand(s) + Off(s)
      /\ s \in due => since[s] <= snap[s].fires + crashes + unsaved + InHand(s)
  BY DEF CountsFollow
<1>2. /\ crashes \in Nat /\ unsaved \in Nat /\ rows[s].fires \in Nat
      /\ snap[s].fires \in Nat /\ total[s] \in Nat /\ since[s] \in Nat
      /\ InHand(s) \in {0, 1} /\ Off(s) \in {0, 1}
  BY AccountTypes
<1>3. /\ InHand(s)' \in {0, 1} /\ InHand(s)' <= InHand(s)
      /\ crashes + unsaved + InHand(s) <= crashes' + unsaved' + InHand(s)'
  BY <1>2
<1>4. rows'[s].fires + InHand(s)' <= total'[s]
  BY <1>1, <1>2, <1>3
<1>5. snap'[s].fires <= total'[s]
  <2>1. CASE snap'[s] = snap[s]
    BY <1>1, <2>1
  <2>2. CASE snap'[s].fires = rows[s].fires
    BY <1>1, <1>2, <2>2
  <2> QED
    BY <2>1, <2>2
<1>6. since'[s] <= rows'[s].fires + crashes' + unsaved' + InHand(s)' + Off(s)'
  BY <1>1, <1>2, <1>3
<1>7. ASSUME s \in due'
      PROVE  since'[s] <= snap'[s].fires + crashes' + unsaved' + InHand(s)'
  <2>1. CASE s \in due /\ snap'[s] = snap[s]
    BY <1>1, <1>2, <1>3, <2>1
  <2>2. CASE Off(s) = 0 /\ snap'[s].fires = rows[s].fires
    BY <1>1, <1>2, <1>3, <2>2
  <2> QED
    BY <1>7, <2>1, <2>2
<1> QED
  BY <1>4, <1>5, <1>6, <1>7

LEMMA AccountStep ==
  ASSUME SchedulerInv, AccountInv, [Next]_vars
  PROVE  AccountInv'
<1>0. TypeOK /\ CountsFollow /\ ListedExists
  BY DEF SchedulerInv, AccountInv
<1>1. ASSUME NEW s \in Schedules, CreateSchedule(s)
      PROVE  AccountInv'
  <2>1. PICK row : /\ rows' = [rows EXCEPT ![s] = row]
                   /\ row.status # "none" /\ row.fires = 0
    <3>1. PICK c \in Crons, st \in {"on", "off"} : \E next \in NextAfter(c, now) :
            rows' = [rows EXCEPT ![s] = [status |-> st, cron |-> c,
                                         next |-> next, fires |-> 0]]
      BY <1>1 DEF CreateSchedule, UpsertSchedule
    <3>2. PICK next \in NextAfter(c, now) :
            rows' = [rows EXCEPT ![s] = [status |-> st, cron |-> c,
                                         next |-> next, fires |-> 0]]
      BY <3>1
    <3>3. PICK row : row = [status |-> st, cron |-> c, next |-> next, fires |-> 0]
      OBVIOUS
    <3>4. row.status # "none" /\ row.fires = 0
      BY <3>3
    <3> QED
      BY <3>2, <3>3, <3>4
  <2>2. /\ since' = [since EXCEPT ![s] = 0]
        /\ UNCHANGED <<due, snap, firing, total, unsaved, crashes>>
    BY <1>1 DEF CreateSchedule, workerVars
  <2>3. /\ rows'[s] = row /\ since'[s] = 0
        /\ \A q \in Schedules : q # s => rows'[q] = rows[q] /\ since'[q] = since[q]
    BY <1>0, <2>1, <2>2 DEF TypeOK
  <2>4. ListedExists'
    BY <1>0, <2>1, <2>2, <2>3 DEF ListedExists, TypeOK
  <2>6. CountsFollow'
    <3> SUFFICES ASSUME NEW q \in Schedules
                 PROVE  /\ rows'[q].fires + InHand(q)' <= total'[q]
                        /\ snap'[q].fires <= total'[q]
                        /\ since'[q] <= rows'[q].fires + crashes' + unsaved'
                                          + InHand(q)' + Off(q)'
                        /\ q \in due' => since'[q] <= snap'[q].fires + crashes'
                                                        + unsaved' + InHand(q)'
      BY DEF CountsFollow
    <3>1. InHand(q)' = InHand(q)
      BY <2>2 DEF InHand
    <3>2. CASE q # s
      <4>1. Off(q)' = Off(q) /\ Off(q) \in {0, 1}
        BY <2>3, <3>2 DEF Off
      <4> QED
        BY <1>0, <2>2, <2>3, <3>1, <3>2, <4>1, CountsStay
    <3>3. CASE q = s
      <4>1. /\ rows[s].fires + InHand(s) <= total[s] /\ snap[s].fires <= total[s]
        BY <1>0 DEF CountsFollow
      <4>2. Off(s)' \in {0, 1} /\ rows'[s].fires = 0
        BY <2>1, <2>3 DEF Off
      <4>3. /\ crashes \in Nat /\ unsaved \in Nat /\ rows[s].fires \in Nat
            /\ snap[s].fires \in Nat /\ total[s] \in Nat /\ InHand(s) \in {0, 1}
        BY <1>0, AccountTypes
      <4> QED
        BY <2>2, <2>3, <3>1, <3>3, <4>1, <4>2, <4>3
    <3> QED
      BY <3>2, <3>3
  <2> QED
    BY <2>4, <2>6 DEF AccountInv
<1>2. ASSUME NEW s \in Schedules, DeleteSchedule(s)
      PROVE  AccountInv'
  <2>1. /\ \A q \in Schedules : /\ rows'[q].fires = rows[q].fires
                                /\ rows'[q].status = "none" => rows[q].status = "none"
                                /\ rows[q].status = "off" => rows'[q].status = "off"
        /\ UNCHANGED <<due, snap, firing, total, since, unsaved, crashes>>
    BY <1>0, <1>2 DEF DeleteSchedule, workerVars, historyVars, TypeOK, Row
  <2>2. \A q \in Schedules : /\ InHand(q)' = InHand(q)
                             /\ Off(q)' \in Nat /\ Off(q)' >= Off(q)
    BY <2>1 DEF InHand, Off
  <2>3. CountsFollow'
    BY <1>0, <2>1, <2>2, CountsStay DEF CountsFollow
  <2> QED
    BY <1>0, <2>1, <2>3 DEF AccountInv, ListedExists, TypeOK
<1>3. ASSUME UNCHANGED <<rows, total, since, firing>>,
             \/ due' \subseteq due /\ snap' = snap
             \/ due' = DueSchedules /\ snap' = rows,
             crashes' = crashes /\ unsaved' = unsaved
      PROVE  AccountInv'
  <2>1. \A q \in Schedules : /\ InHand(q)' = InHand(q)
                             /\ Off(q)' = Off(q) /\ Off(q) \in {0, 1}
                             /\ q \in DueSchedules => Off(q) = 0
    BY <1>3 DEF InHand, Off, DueSchedules
  <2>2. CountsFollow'
    <3> SUFFICES ASSUME NEW q \in Schedules
                 PROVE  /\ rows'[q].fires + InHand(q)' <= total'[q]
                        /\ snap'[q].fires <= total'[q]
                        /\ since'[q] <= rows'[q].fires + crashes' + unsaved'
                                          + InHand(q)' + Off(q)'
                        /\ q \in due' => since'[q] <= snap'[q].fires + crashes'
                                                        + unsaved' + InHand(q)'
      BY DEF CountsFollow
    <3> QED
      BY <1>0, <1>3, <2>1, CountsStay
  <2>3. ListedExists'
    BY <1>0, <1>3 DEF ListedExists, DueSchedules
  <2> QED
    BY <2>2, <2>3 DEF AccountInv
<1>4. ASSUME NEW s \in Schedules, Fire(s)
      PROVE  AccountInv'
  <2>1. /\ firing = NoOne /\ firing' = s /\ total' = [total EXCEPT ![s] = @ + 1]
        /\ since' = [since EXCEPT ![s] = @ + 1]
        /\ UNCHANGED <<rows, due, snap, crashes, unsaved>>
    BY <1>4 DEF Fire, boundVars
  <2>2. /\ InHand(s) = 0 /\ InHand(s)' = 1
        /\ total'[s] = total[s] + 1 /\ since'[s] = since[s] + 1
        /\ \A q \in Schedules : q # s => /\ total'[q] = total[q]
                                        /\ since'[q] = since[q]
                                        /\ InHand(q)' = InHand(q)
    BY <1>0, <2>1, NoOneAssumption DEF InHand, TypeOK
  <2>3. \A q \in Schedules : Off(q)' = Off(q) /\ Off(q) \in {0, 1}
    BY <2>1 DEF Off
  <2>4. CountsFollow'
    <3> SUFFICES ASSUME NEW q \in Schedules
                 PROVE  /\ rows'[q].fires + InHand(q)' <= total'[q]
                        /\ snap'[q].fires <= total'[q]
                        /\ since'[q] <= rows'[q].fires + crashes' + unsaved'
                                          + InHand(q)' + Off(q)'
                        /\ q \in due' => since'[q] <= snap'[q].fires + crashes'
                                                        + unsaved' + InHand(q)'
      BY DEF CountsFollow
    <3>1. CASE q # s
      BY <1>0, <2>1, <2>2, <2>3, <3>1, CountsStay
    <3>2. CASE q = s
      <4>1. /\ rows[s].fires + InHand(s) <= total[s] /\ snap[s].fires <= total[s]
            /\ since[s] <= rows[s].fires + crashes + unsaved + InHand(s) + Off(s)
            /\ s \in due => since[s] <= snap[s].fires + crashes + unsaved + InHand(s)
        BY <1>0 DEF CountsFollow
      <4>2. /\ crashes \in Nat /\ unsaved \in Nat /\ rows[s].fires \in Nat
            /\ snap[s].fires \in Nat /\ total[s] \in Nat /\ since[s] \in Nat
        BY <1>0, AccountTypes
      <4> QED
        BY <2>1, <2>2, <2>3, <3>2, <4>1, <4>2
    <3> QED
      BY <3>1, <3>2
  <2> QED
    BY <1>0, <2>1, <2>4 DEF AccountInv, ListedExists
<1>5. ASSUME NEW s \in Schedules, Advance(s)
      PROVE  AccountInv'
  <2>1. PICK next \in NextAfter(snap[s].cron, now) :
          rows' = [rows EXCEPT ![s].next = next, ![s].fires = @ + 1]
    BY <1>5 DEF Advance
  <2>2. /\ firing = s /\ firing' = NoOne /\ due' = due \ {s}
        /\ UNCHANGED <<snap, total, since, crashes, unsaved>>
    BY <1>5 DEF Advance, Handled, historyVars, boundVars
  <2>3. /\ rows'[s].fires = rows[s].fires + 1 /\ rows'[s].status = rows[s].status
        /\ \A q \in Schedules : q # s => rows'[q] = rows[q]
    <3> PICK k : k = rows[s].fires + 1
      OBVIOUS
    <3> PICK row : row = [rows[s] EXCEPT !.next = next, !.fires = k]
      OBVIOUS
    <3>1. rows' = [rows EXCEPT ![s] = row]
      BY <1>0, <2>1 DEF TypeOK
    <3>2. row.fires = k /\ row.status = rows[s].status
      BY <1>0 DEF TypeOK, Row
    <3> QED
      BY <1>0, <3>1, <3>2 DEF TypeOK
  <2>4. /\ InHand(s) = 1 /\ InHand(s)' = 0
        /\ \A q \in Schedules : q # s => InHand(q)' = InHand(q)
    BY <2>2, NoOneAssumption DEF InHand
  <2>7. \A q \in Schedules : Off(q)' = Off(q) /\ Off(q) \in {0, 1}
    BY <2>3 DEF Off
  <2>5. CountsFollow'
    <3> SUFFICES ASSUME NEW q \in Schedules
                 PROVE  /\ rows'[q].fires + InHand(q)' <= total'[q]
                        /\ snap'[q].fires <= total'[q]
                        /\ since'[q] <= rows'[q].fires + crashes' + unsaved'
                                          + InHand(q)' + Off(q)'
                        /\ q \in due' => since'[q] <= snap'[q].fires + crashes'
                                                        + unsaved' + InHand(q)'
      BY DEF CountsFollow
    <3>1. CASE q # s
      BY <1>0, <2>2, <2>3, <2>4, <2>7, <3>1, CountsStay
    <3>2. CASE q = s
      <4>1. /\ rows[s].fires + InHand(s) <= total[s] /\ snap[s].fires <= total[s]
            /\ since[s] <= rows[s].fires + crashes + unsaved + InHand(s) + Off(s)
        BY <1>0 DEF CountsFollow
      <4>2. /\ crashes \in Nat /\ unsaved \in Nat /\ rows[s].fires \in Nat
            /\ snap[s].fires \in Nat /\ total[s] \in Nat /\ since[s] \in Nat
        BY <1>0, AccountTypes
      <4> QED
        BY <2>2, <2>3, <2>4, <2>7, <3>2, <4>1, <4>2
    <3> QED
      BY <3>1, <3>2
  <2>6. ListedExists'
    BY <1>0, <2>2, <2>3 DEF ListedExists, TypeOK
  <2> QED
    BY <2>5, <2>6 DEF AccountInv
<1>6. ASSUME NEW s \in Schedules, DisableBroken(s)
      PROVE  AccountInv'
  <2>1. /\ rows' = [rows EXCEPT ![s] = [snap[s] EXCEPT !.status = "off"]]
        /\ firing = s /\ firing' = NoOne /\ due' = due \ {s} /\ s \in due
        /\ UNCHANGED <<snap, total, since, crashes, unsaved>>
    BY <1>0, <1>6, NoOneAssumption
       DEF DisableBroken, UpsertSchedule, Handled, historyVars, boundVars, TypeOK
  <2>2. /\ rows'[s].fires = snap[s].fires /\ rows'[s].status = "off"
        /\ \A q \in Schedules : q # s => rows'[q] = rows[q]
    BY <1>0, <2>1 DEF TypeOK, Row
  <2>3. /\ InHand(s) = 1 /\ InHand(s)' = 0
        /\ \A q \in Schedules : q # s => InHand(q)' = InHand(q)
    BY <2>1, NoOneAssumption DEF InHand
  <2>6. Off(s)' = 1 /\ \A q \in Schedules : q # s => /\ Off(q)' = Off(q)
                                                     /\ Off(q) \in {0, 1}
    BY <2>2 DEF Off
  <2>4. CountsFollow'
    <3> SUFFICES ASSUME NEW q \in Schedules
                 PROVE  /\ rows'[q].fires + InHand(q)' <= total'[q]
                        /\ snap'[q].fires <= total'[q]
                        /\ since'[q] <= rows'[q].fires + crashes' + unsaved'
                                          + InHand(q)' + Off(q)'
                        /\ q \in due' => since'[q] <= snap'[q].fires + crashes'
                                                        + unsaved' + InHand(q)'
      BY DEF CountsFollow
    <3>1. CASE q # s
      BY <1>0, <2>1, <2>2, <2>3, <2>6, <3>1, CountsStay
    <3>2. CASE q = s
      <4>1. /\ snap[s].fires <= total[s]
            /\ since[s] <= snap[s].fires + crashes + unsaved + InHand(s)
        BY <1>0, <2>1 DEF CountsFollow
      <4>2. /\ crashes \in Nat /\ unsaved \in Nat
            /\ snap[s].fires \in Nat /\ total[s] \in Nat /\ since[s] \in Nat
        BY <1>0, AccountTypes
      <4> QED
        BY <2>1, <2>2, <2>3, <2>6, <3>2, <4>1, <4>2
    <3> QED
      BY <3>1, <3>2
  <2>5. ListedExists'
    BY <1>0, <2>1, <2>2 DEF ListedExists, TypeOK
  <2> QED
    BY <2>4, <2>5 DEF AccountInv
<1>7. ASSUME UNCHANGED <<rows, total, since>>, firing' = NoOne, due' \subseteq due,
             snap' = snap \/ (due' = {} /\ snap' = rows),
             \/ crashes' = crashes + 1 /\ unsaved' = unsaved
             \/ crashes' = crashes /\ unsaved' = unsaved + 1
      PROVE  AccountInv'
  <2>1. \A q \in Schedules : /\ InHand(q)' = 0
                             /\ Off(q)' = Off(q) /\ Off(q) \in {0, 1}
    BY <1>7, NoOneAssumption DEF InHand, Off
  <2>2. CountsFollow'
    <3> SUFFICES ASSUME NEW q \in Schedules
                 PROVE  /\ rows'[q].fires + InHand(q)' <= total'[q]
                        /\ snap'[q].fires <= total'[q]
                        /\ since'[q] <= rows'[q].fires + crashes' + unsaved'
                                          + InHand(q)' + Off(q)'
                        /\ q \in due' => since'[q] <= snap'[q].fires + crashes'
                                                        + unsaved' + InHand(q)'
      BY DEF CountsFollow
    <3> QED
      BY <1>0, <1>7, <2>1, CountsStay
  <2> QED
    BY <1>0, <1>7, <2>2 DEF AccountInv, ListedExists
<1>8. ASSUME NEW s \in Schedules, AdvanceFails(s)
      PROVE  AccountInv'
  BY <1>7, <1>8 DEF AdvanceFails, Handled, tableVars, historyVars
<1>9. ASSUME NEW s \in Schedules, SubmitFails(s)
      PROVE  AccountInv'
  <2>1. firing' = firing
    BY <1>9 DEF SubmitFails, Handled
  <2> QED
    BY <1>3, <1>9, <2>1 DEF SubmitFails, Handled, tableVars, historyVars
<1>10. CASE ListDue
  BY <1>3, <1>10 DEF ListDue, tableVars, historyVars, boundVars
<1>11. CASE Crash
  BY <1>7, <1>11 DEF Crash, tableVars, historyVars
<1>12. CASE Restart
  BY <1>3, <1>12 DEF Restart, workerVars, tableVars, historyVars, boundVars
<1>13. CASE Minute
  BY <1>3, <1>13 DEF Minute, workerVars, boundVars
<1>14. CASE UNCHANGED vars
  BY <1>3, <1>14 DEF vars, workerVars, tableVars, historyVars, boundVars
<1>15. CASE ListFails
  BY <1>3, <1>15 DEF ListFails, workerVars, tableVars, historyVars
<1> QED
  BY <1>1, <1>2, <1>4, <1>5, <1>6, <1>8, <1>9, <1>10, <1>11, <1>12, <1>13, <1>14,
     <1>15 DEF Next, Worker

LEMMA AccountInit == Init => AccountInv
BY NoOneAssumption
   DEF Init, AccountInv, ListedExists, CountsFollow, InHand, Off, NoRow

(* scheduler.rs:49 to 87: fire_count never runs ahead of the submissions, not
   even where DisableBroken writes a stale copy over a caller's row, and falls
   behind those since the row was last written whole only by the firing in
   hand, by those that a crash or a failed advance cut off, and by the last one
   of a row that was disabled, which scheduler.rs:75 to 78 does not count. *)
THEOREM CountsFollowFirings == Spec => []FireCountFollows
<1>1. SchedulerInv /\ AccountInv => FireCountFollows
  <2> SUFFICES ASSUME SchedulerInv, AccountInv, NEW s \in Schedules
               PROVE  /\ rows[s].fires <= total[s]
                      /\ since[s] <= rows[s].fires + crashes + unsaved
                                       + (IF firing = s THEN 1 ELSE 0)
                                       + (IF rows[s].status = "off" THEN 1 ELSE 0)
    BY DEF FireCountFollows
  <2>1. /\ rows[s].fires + InHand(s) <= total[s]
        /\ since[s] <= rows[s].fires + crashes + unsaved + InHand(s) + Off(s)
    BY DEF AccountInv, CountsFollow
  <2>2. TypeOK
    BY DEF SchedulerInv
  <2>3. rows[s].fires <= total[s]
    BY <2>1, <2>2, AccountTypes
  <2> QED
    BY <2>1, <2>3 DEF InHand, Off
<1>2. Init => SchedulerInv /\ AccountInv
  BY SchedulerInvInit, AccountInit
<1>3. SchedulerInv /\ AccountInv /\ [Next]_vars => (SchedulerInv /\ AccountInv)'
  BY SchedulerInvNext, AccountStep
<1> QED
  BY <1>1, <1>2, <1>3, PTL DEF Spec

-----------------------------------------------------------------------------
(* The matches that were due while the process stayed up.                  *)

Undisturbed == ops = 0 /\ crashes = 0

\* The worker's copy is the table, and what it submitted was fired.
Copied == \A s \in due : snap[s] = rows[s] /\ rows[s].status = "on"
InHandFired == firing # NoOne => fired[firing][rows[firing].next] > 0

\* The time of an enabled row passes over no match to come.
Punctual == \A s \in Schedules : rows[s].status = "on" =>
              \A m \in Matches[rows[s].cron] : m > now => m >= rows[s].next

OwedPast == \A s \in Schedules : \A m \in owed[s] : m <= now

\* A row that is off was never on, or was fired for its last match.
OffFired == \A s \in Schedules :
              /\ rows[s].status = "none" => owed[s] = {}
              /\ rows[s].status = "off" =>
                   owed[s] = {} \/ fired[s][rows[s].next] > 0

\* The matches that the row is past, or will be with its next task; a row that
\* waits for the next tick may lose one more.  A failed call pays for each.
Skipped(s) == {m \in owed[s] : fired[s][m] = 0 /\ m # rows[s].next}
Credit(s) == IF s \in waiting THEN 1 ELSE 0
ChargedFor(s) == Cardinality(Skipped(s)) + Credit(s) <= fails
Charged == \A s \in Schedules : ChargedFor(s)

TimelyInv ==
  /\ crashes = 0 => up
  /\ Undisturbed => /\ Copied /\ InHandFired /\ Punctual
                    /\ OwedPast /\ OffFired /\ Charged

LEMMA SkippedFinite ==
  ASSUME TypeOK, NEW s \in Schedules
  PROVE  /\ IsFiniteSet(Skipped(s))
         /\ Cardinality(Skipped(s)) \in Nat
         /\ \A S : S \subseteq Skipped(s) =>
              /\ IsFiniteSet(S) /\ Cardinality(S) \in Nat
              /\ Cardinality(S) <= Cardinality(Skipped(s))
<1>1. IsFiniteSet(Times)
  BY FS_Interval, SchedulerAssumption DEF Times
<1>2. Skipped(s) \subseteq Times
  BY DEF TypeOK, Skipped
<1>3. IsFiniteSet(Skipped(s))
  BY <1>1, <1>2, FS_Subset
<1> QED
  BY <1>3, FS_Subset, FS_CardinalityType

\* A call that fails pays for the row that it leaves to the next tick.
LEMMA ChargeStays ==
  ASSUME TypeOK, NEW s \in Schedules, ChargedFor(s),
         Skipped(s)' \subseteq Skipped(s),
         fails' \in {fails, fails + 1},
         s \in waiting' => s \in waiting \/ fails' = fails + 1
  PROVE  ChargedFor(s)'
<1>1. /\ Cardinality(Skipped(s)') \in Nat /\ Cardinality(Skipped(s)) \in Nat
      /\ Cardinality(Skipped(s)') <= Cardinality(Skipped(s))
  BY SkippedFinite
<1>2. fails \in Nat
  BY SchedulerAssumption DEF TypeOK
<1>3. Credit(s) \in {0, 1} /\ Credit(s)' \in {0, 1}
  BY DEF Credit
<1>4. Credit(s)' = 1 => Credit(s) = 1 \/ fails' = fails + 1
  BY DEF Credit
<1>5. Cardinality(Skipped(s)) + Credit(s) <= fails
  BY DEF ChargedFor
<1>6. Cardinality(Skipped(s)') + Credit(s)' <= fails'
  BY <1>1, <1>2, <1>3, <1>4, <1>5
<1> QED
  BY <1>6 DEF ChargedFor

\* A step that leaves clock, table and history alone.
LEMMA TimelyStays ==
  ASSUME TypeOK, TimelyInv,
         UNCHANGED <<now, rows, fired, owed, ops>>, crashes' = crashes => up' = up,
         crashes' \in {crashes, crashes + 1},
         \/ UNCHANGED snap /\ due' \subseteq due
         \/ due' \subseteq DueSchedules /\ snap' = rows,
         firing' \in {firing, NoOne},
         fails' \in {fails, fails + 1},
         fails' = fails => waiting' \subseteq waiting
  PROVE  TimelyInv'
<1>1. crashes \in Nat
  BY AccountTypes
<1>2. crashes' = 0 => crashes = 0 /\ up' = up
  BY <1>1
<1>3. Undisturbed' => Undisturbed
  BY <1>2 DEF Undisturbed
<1>4. Undisturbed' => Copied'
  BY <1>3 DEF TimelyInv, Copied, DueSchedules
<1>5. Undisturbed' => InHandFired'
  BY <1>3 DEF TimelyInv, InHandFired
<1>6. Undisturbed' => Punctual' /\ OwedPast' /\ OffFired'
  BY <1>3 DEF TimelyInv, Punctual, OwedPast, OffFired
<1>7. ASSUME Undisturbed'
      PROVE  Charged'
  <2>1. Charged
    BY <1>3, <1>7 DEF TimelyInv
  <2>2. ASSUME NEW s \in Schedules
        PROVE  ChargedFor(s)'
    <3>1. ChargedFor(s) /\ Skipped(s)' \subseteq Skipped(s)
      BY <2>1 DEF Charged, Skipped
    <3> QED
      BY <3>1, ChargeStays
  <2> QED
    BY <2>2 DEF Charged
<1> QED
  BY <1>2, <1>4, <1>5, <1>6, <1>7 DEF TimelyInv

LEMMA TimelyFire ==
  ASSUME TypeOK, TimelyInv, NEW s \in Schedules, Fire(s)
  PROVE  TimelyInv'
<1> DEFINE n == snap[s].next
<1>1. /\ s \in due /\ firing' = s
      /\ fired' = [fired EXCEPT ![s] = [fired[s] EXCEPT ![n] = fired[s][n] + 1]]
      /\ UNCHANGED <<now, up, rows, due, snap, waiting, owed, ops, crashes, fails>>
  BY DEF Fire, IsFirst, boundVars
<1>2. n \in Times /\ fired[s] \in [Times -> Nat] /\ fired \in [Schedules -> [Times -> Nat]]
  BY DEF TypeOK, Row
<1>3. \A q \in Schedules, m \in Times : fired[q][m] \in Nat
  BY <1>2
<1> HIDE DEF n
<1>4. /\ fired'[s][n] > 0
      /\ \A q \in Schedules, m \in Times :
           /\ fired'[q][m] \in Nat
           /\ fired[q][m] > 0 => fired'[q][m] > 0
  BY <1>1, <1>2, <1>3
<1>5. ASSUME Undisturbed'
      PROVE  /\ Copied' /\ InHandFired' /\ Punctual'
             /\ OwedPast' /\ OffFired' /\ Charged'
  <2>1. Copied /\ Punctual /\ OwedPast /\ OffFired /\ Charged
    BY <1>1, <1>5 DEF TimelyInv, Undisturbed
  <2>2. rows'[s].next = n
    BY <1>1, <2>1 DEF Copied, n
  <2>3. InHandFired'
    BY <1>1, <1>4, <2>2 DEF InHandFired
  <2>4. Copied' /\ Punctual' /\ OwedPast'
    BY <1>1, <2>1 DEF Copied, Punctual, OwedPast
  <2>5. \A q \in Schedules : rows[q].next \in Times /\ owed[q] \subseteq Times
    BY DEF TypeOK, Row
  <2>6. OffFired'
    BY <1>1, <1>4, <2>1, <2>5 DEF OffFired
  <2>7. ASSUME NEW q \in Schedules
        PROVE  ChargedFor(q)'
    <3>1. ASSUME NEW m \in Skipped(q)'
          PROVE  m \in Skipped(q)
      <4>1. m \in owed[q] /\ m # rows[q].next /\ fired'[q][m] = 0
        BY <1>1 DEF Skipped
      <4>2. ~(fired[q][m] > 0) /\ fired[q][m] \in Nat
        BY <1>3, <1>4, <2>5, <4>1
      <4> QED
        BY <4>1, <4>2 DEF Skipped
    <3>2. ChargedFor(q)
      BY <2>1 DEF Charged
    <3> QED
      BY <1>1, <3>1, <3>2, ChargeStays
  <2>8. Charged'
    BY <2>7 DEF Charged
  <2> QED
    BY <2>3, <2>4, <2>6, <2>8
<1> QED
  BY <1>1, <1>5 DEF TimelyInv

\* A row is written that passes over no match, of the past or to come.
LEMMA TimelyWrites ==
  ASSUME TypeOK, TimelyInv, NEW s \in Schedules, NEW row \in Row,
         rows' = [rows EXCEPT ![s] = row],
         UNCHANGED <<now, up, waiting, fired, owed, crashes, fails>>,
         ops' = 0 => ops = 0,
         UNCHANGED snap, due' \subseteq due, Undisturbed' => s \notin due',
         firing' = NoOne \/ (firing' = firing /\ firing' # s),
         Undisturbed' =>
           \A m \in owed[s] : fired[s][m] = 0 /\ m # row.next => m # rows[s].next,
         Undisturbed' /\ row.status = "on" =>
           \A m \in Matches[row.cron] : m > now => m >= row.next,
         Undisturbed' => row.status # "none",
         Undisturbed' /\ row.status = "off" =>
           owed[s] = {} \/ fired[s][row.next] > 0
  PROVE  TimelyInv'
<1>1. rows'[s] = row /\ \A q \in Schedules : q # s => rows'[q] = rows[q]
  BY DEF TypeOK
<1>2. ASSUME Undisturbed'
      PROVE  /\ Copied' /\ InHandFired' /\ Punctual'
             /\ OwedPast' /\ OffFired' /\ Charged'
  <2>1. Copied /\ InHandFired /\ Punctual /\ OwedPast /\ OffFired /\ Charged
    BY <1>2 DEF TimelyInv, Undisturbed
  <2>2. due \subseteq Schedules /\ firing \in due \cup {NoOne}
    BY DEF TypeOK
  <2>3. Copied'
    BY <1>1, <1>2, <2>1, <2>2 DEF Copied
  <2>4. InHandFired'
    BY <1>1, <2>1, <2>2 DEF InHandFired
  <2>5. Punctual' /\ OwedPast'
    BY <1>1, <1>2, <2>1 DEF Punctual, OwedPast
  <2>6. OffFired'
    BY <1>1, <1>2, <2>1 DEF OffFired
  <2>7. ASSUME NEW q \in Schedules
        PROVE  ChargedFor(q)'
    <3>1. Skipped(q)' \subseteq Skipped(q)
      <4>1. CASE q = s
        BY <1>1, <1>2, <4>1 DEF Skipped
      <4>2. CASE q # s
        BY <1>1, <4>2 DEF Skipped
      <4> QED
        BY <4>1, <4>2
    <3>2. ChargedFor(q)
      BY <2>1 DEF Charged
    <3> QED
      BY <3>1, <3>2, ChargeStays
  <2>8. Charged'
    BY <2>7 DEF Charged
  <2> QED
    BY <2>3, <2>4, <2>5, <2>6, <2>8
<1> QED
  BY <1>2 DEF TimelyInv

LEMMA TimelyAdvance ==
  ASSUME TypeOK, TimelyInv, NEW s \in Schedules, Advance(s)
  PROVE  TimelyInv'
<1>1. /\ due' = due \ {s} /\ firing = s /\ firing' = NoOne /\ s \in due
      /\ UNCHANGED <<now, up, waiting, snap, fired, owed, ops, crashes, fails>>
  BY NoOneAssumption DEF Advance, Handled, historyVars, boundVars, TypeOK
<1>2. PICK next \in NextAfter(snap[s].cron, now) :
        rows' = [rows EXCEPT ![s].next = next, ![s].fires = @ + 1]
  BY DEF Advance
<1>3. rows[s] \in Row /\ now \in Nat /\ snap[s].cron \in Crons
  BY AccountTypes DEF TypeOK, Row
<1>4. next \in Times
  BY <1>3, NextAfterIsLater
<1>5. \A m \in Matches[snap[s].cron] : m > now => m >= next
  BY <1>2 DEF NextAfter, Earliest
<1> PICK row : row = [rows[s] EXCEPT !.next = next, !.fires = @ + 1]
  OBVIOUS
<1>6. /\ row \in Row /\ row.next = next
      /\ row.cron = rows[s].cron /\ row.status = rows[s].status
  <2>1. row \in Row /\ row.next = next /\ row.status = rows[s].status
    BY <1>3, <1>4, AdvancedRow
  <2>2. PICK k : k = rows[s].fires + 1
    OBVIOUS
  <2>3. row = [rows[s] EXCEPT !.next = next, !.fires = k]
    BY <2>2
  <2>4. row.cron = rows[s].cron
    BY <1>3, <2>3 DEF Row
  <2> QED
    BY <2>1, <2>4
<1>7. rows' = [rows EXCEPT ![s] = row]
  BY <1>2 DEF TypeOK, Row
<1>8. ASSUME Undisturbed'
      PROVE  /\ row.status = "on"
             /\ \A m \in owed[s] : fired[s][m] = 0 => m # rows[s].next
             /\ \A m \in Matches[row.cron] : m > now => m >= row.next
  <2>1. Copied /\ InHandFired
    BY <1>1, <1>8 DEF TimelyInv, Undisturbed
  <2>2. snap[s] = rows[s] /\ rows[s].status = "on"
    BY <1>1, <2>1 DEF Copied
  <2>3. fired[s][rows[s].next] > 0
    BY <1>1, <2>1, NoOneAssumption DEF InHandFired
  <2> QED
    BY <1>5, <1>6, <2>2, <2>3
<1>9. s \notin due' /\ due' \subseteq due /\ (ops' = 0 => ops = 0)
  BY <1>1
<1>10. Undisturbed' => row.status = "on"
  BY <1>8
<1> QED
  BY <1>1, <1>6, <1>7, <1>8, <1>9, <1>10, TimelyWrites

LEMMA TimelyCreate ==
  ASSUME TypeOK, ListedExists, TimelyInv, NEW s \in Schedules, CreateSchedule(s)
  PROVE  TimelyInv'
<1>0. now \in Nat /\ ops \in Nat
  BY AccountTypes
<1>1. /\ UNCHANGED <<now, up, waiting, due, snap, firing, fired, owed, crashes, fails>>
      /\ ops' = IF rows[s].status = "none" THEN ops ELSE ops + 1
  BY DEF CreateSchedule, workerVars
<1>2. PICK c \in Crons, st \in {"on", "off"} : \E next \in NextAfter(c, now) :
        rows' = [rows EXCEPT ![s] = [status |-> st, cron |-> c,
                                     next |-> next, fires |-> 0]]
  BY DEF CreateSchedule, UpsertSchedule
<1>3. PICK next \in NextAfter(c, now) :
        rows' = [rows EXCEPT ![s] = [status |-> st, cron |-> c,
                                     next |-> next, fires |-> 0]]
  BY <1>2
<1>4. next \in Times
  BY <1>0, NextAfterIsLater
<1> PICK row : row = [status |-> st, cron |-> c, next |-> next, fires |-> 0]
  OBVIOUS
<1>5. /\ row \in Row /\ row.next = next /\ row.cron = c
      /\ row.status = st /\ st # "none"
  BY <1>4 DEF Row
<1>6. \A m \in Matches[row.cron] : m > now => m >= row.next
  BY <1>3, <1>5 DEF NextAfter, Earliest
<1>7. ASSUME Undisturbed'
      PROVE  rows[s].status = "none" /\ owed[s] = {}
  <2>1. rows[s].status = "none" /\ Undisturbed
    BY <1>0, <1>1, <1>7 DEF Undisturbed
  <2> QED
    BY <2>1 DEF TimelyInv, OffFired
<1>8. Undisturbed' => s \notin due /\ s # firing
  BY <1>7, NoOneAssumption DEF ListedExists, TypeOK
<1>9. ops' = 0 => ops = 0
  BY <1>0, <1>1
<1>10. CASE Undisturbed'
  <2>1. rows' = [rows EXCEPT ![s] = row]
    BY <1>3
  <2> QED
    BY <1>1, <1>5, <1>6, <1>7, <1>8, <1>9, <1>10, <2>1, TimelyWrites
<1>11. CASE ~Undisturbed'
  BY <1>1, <1>11 DEF TimelyInv
<1> QED
  BY <1>10, <1>11

LEMMA TimelyDisable ==
  ASSUME TypeOK, TimelyInv, NEW s \in Schedules, DisableBroken(s)
  PROVE  TimelyInv'
<1> PICK row : row = [snap[s] EXCEPT !.status = "off"]
  OBVIOUS
<1>1. /\ rows' = [rows EXCEPT ![s] = row]
      /\ firing = s /\ firing' = NoOne /\ due' = due \ {s}
      /\ UNCHANGED <<now, up, waiting, snap, fired, owed, ops, crashes, fails>>
  BY DEF DisableBroken, UpsertSchedule, Handled, historyVars, boundVars
<1>2. row \in Row /\ row.status = "off" /\ row.next = snap[s].next
  BY DEF TypeOK, Row
<1>3. s \notin due' /\ due' \subseteq due /\ (ops' = 0 => ops = 0)
  BY <1>1
<1>4. ASSUME Undisturbed'
      PROVE  row.next = rows[s].next /\ fired[s][row.next] > 0
  <2>1. Copied /\ InHandFired
    BY <1>1, <1>4 DEF TimelyInv, Undisturbed
  <2>2. s \in due
    BY <1>1, NoOneAssumption DEF TypeOK
  <2>3. row.next = rows[s].next
    BY <1>2, <2>1, <2>2 DEF Copied
  <2> QED
    BY <1>1, <2>1, <2>3, NoOneAssumption DEF InHandFired
<1> QED
  BY <1>1, <1>2, <1>3, <1>4, TimelyWrites

\* A minute passes when nothing is in hand, and only rows that wait are due.  It
\* costs a waiting row a match at most, and any other row none.
LEMMA TimelyMinute ==
  ASSUME TypeOK, TimelyInv, Minute
  PROVE  TimelyInv'
<1>1. /\ now' = now + 1 /\ (up => due = {} /\ DueSchedules \subseteq waiting)
      /\ waiting' = {}
      /\ owed' = [s \in Schedules |->
                    IF rows[s].status = "on" /\ now' \in Matches[rows[s].cron]
                    THEN owed[s] \cup {now'} ELSE owed[s]]
      /\ UNCHANGED <<up, due, snap, firing, rows, fired, ops, crashes, fails>>
  BY DEF Minute, workerVars, boundVars
<1>2. now \in Nat /\ fails \in Nat /\ \A s \in Schedules : rows[s].next \in Nat
  BY AccountTypes
<1>3. ASSUME NEW s \in Schedules
      PROVE  /\ owed'[s] \subseteq owed[s] \cup {now + 1}
             /\ rows[s].status # "on" => owed'[s] = owed[s]
             /\ now + 1 \in owed'[s] =>
                  \/ now + 1 \in owed[s]
                  \/ rows[s].status = "on" /\ now + 1 \in Matches[rows[s].cron]
  BY <1>1
<1>4. ASSUME Undisturbed'
      PROVE  /\ Copied' /\ InHandFired' /\ Punctual'
             /\ OwedPast' /\ OffFired' /\ Charged'
  <2>1. Undisturbed /\ DueSchedules \subseteq waiting
    BY <1>1, <1>4 DEF TimelyInv, Undisturbed
  <2>2. Copied /\ InHandFired /\ Punctual /\ OwedPast /\ OffFired /\ Charged
    BY <2>1 DEF TimelyInv
  <2>3. Copied' /\ InHandFired'
    BY <1>1, <2>2 DEF Copied, InHandFired
  <2>4. ASSUME NEW s \in Schedules
        PROVE  \A m \in Matches[rows[s].cron] \cup owed[s] : m \in Nat
    <3>1. rows[s].cron \in Crons /\ owed[s] \subseteq Times
      BY DEF TypeOK, Row
    <3> QED
      BY <3>1, SchedulerAssumption DEF Times
  <2>5. Punctual'
    <3> SUFFICES ASSUME NEW s \in Schedules, rows[s].status = "on",
                        NEW m \in Matches[rows[s].cron], m > now + 1
                 PROVE  m >= rows[s].next
      BY <1>1 DEF Punctual
    <3>1. m \in Nat
      BY <2>4
    <3> QED
      BY <1>2, <2>2, <3>1 DEF Punctual
  <2>6. OwedPast'
    <3> SUFFICES ASSUME NEW s \in Schedules, NEW m \in owed'[s]
                 PROVE  m <= now + 1
      BY <1>1 DEF OwedPast
    <3>1. CASE m \in owed[s]
      BY <1>2, <2>2, <2>4, <3>1 DEF OwedPast
    <3> QED
      BY <1>2, <1>3, <3>1
  <2>7. OffFired'
    BY <1>1, <1>3, <2>2 DEF OffFired
  <2>8. ASSUME NEW s \in Schedules
        PROVE  ChargedFor(s)'
    <3>1. ChargedFor(s)
      BY <2>2 DEF Charged
    <3>2. CASE s \in waiting
      <4>1. Skipped(s)' \subseteq Skipped(s) \cup {now + 1}
        BY <1>1, <1>3 DEF Skipped
      <4>2. /\ Cardinality(Skipped(s) \cup {now + 1}) <= Cardinality(Skipped(s)) + 1
            /\ IsFiniteSet(Skipped(s) \cup {now + 1})
            /\ Cardinality(Skipped(s)) \in Nat
        BY SkippedFinite, FS_AddElement
      <4>3. /\ Cardinality(Skipped(s)') <= Cardinality(Skipped(s) \cup {now + 1})
            /\ Cardinality(Skipped(s)') \in Nat
            /\ Cardinality(Skipped(s) \cup {now + 1}) \in Nat
        BY <4>1, <4>2, FS_Subset, FS_CardinalityType
      <4>4. Credit(s) = 1 /\ Credit(s)' = 0 /\ fails' = fails
        BY <1>1, <3>2 DEF Credit
      <4>5. Cardinality(Skipped(s)) + 1 <= fails
        BY <3>1, <4>4 DEF ChargedFor
      <4>6. Cardinality(Skipped(s)') + 0 <= fails
        BY <1>2, <4>2, <4>3, <4>5
      <4> QED
        BY <4>4, <4>6 DEF ChargedFor
    <3>3. CASE s \notin waiting
      <4>1. rows[s].status = "on" => rows[s].next >= now + 1
        BY <1>2, <2>1, <3>3 DEF DueSchedules
      <4>2. ASSUME now + 1 \in Skipped(s)'
            PROVE  now + 1 \in Skipped(s)
        <5>1. /\ now + 1 \in owed'[s] /\ fired[s][now + 1] = 0
              /\ now + 1 # rows[s].next
          BY <1>1, <4>2 DEF Skipped
        <5>2. CASE rows[s].status = "on" /\ now + 1 \in Matches[rows[s].cron]
          <6>1. now + 1 >= rows[s].next
            BY <1>2, <2>2, <5>2 DEF Punctual
          <6> QED
            BY <1>2, <4>1, <5>1, <5>2, <6>1
        <5> QED
          BY <1>3, <5>1, <5>2 DEF Skipped
      <4>3. Skipped(s)' \subseteq Skipped(s)
        BY <1>1, <1>3, <4>2 DEF Skipped
      <4> QED
        BY <1>1, <3>1, <4>3, ChargeStays
    <3> QED
      BY <3>2, <3>3
  <2>9. Charged'
    BY <2>8 DEF Charged
  <2> QED
    BY <2>3, <2>5, <2>6, <2>7, <2>9
<1> QED
  BY <1>1, <1>4 DEF TimelyInv

LEMMA TimelyStep ==
  ASSUME SchedulerInv, AccountInv, TimelyInv, [Next]_vars
  PROVE  TimelyInv'
<1>0. TypeOK /\ ListedExists
  BY DEF SchedulerInv, AccountInv
<1>1. ASSUME NEW s \in Schedules, DeleteSchedule(s)
      PROVE  TimelyInv'
  <2>1. ops' = ops + 1 /\ UNCHANGED <<up, crashes>>
    BY <1>1 DEF DeleteSchedule
  <2>2. ~Undisturbed'
    BY <1>0, <2>1, AccountTypes DEF Undisturbed
  <2> QED
    BY <2>1, <2>2 DEF TimelyInv
<1>2. ASSUME NEW s \in Schedules, SubmitFails(s) \/ AdvanceFails(s)
      PROVE  TimelyInv'
  <2>1. /\ UNCHANGED <<now, up, rows, fired, owed, ops, crashes, snap>>
        /\ due' \subseteq due /\ firing' = NoOne /\ fails' = fails + 1
    BY <1>2 DEF SubmitFails, AdvanceFails, Handled, tableVars, historyVars
  <2>2. fails' # fails
    BY <1>0, <2>1, AccountTypes
  <2> QED
    BY <1>0, <2>1, <2>2, TimelyStays
<1>3. CASE ListDue
  BY <1>0, <1>3, TimelyStays DEF ListDue, tableVars, historyVars, boundVars
<1>4. CASE ListFails
  <2>1. /\ UNCHANGED <<now, up, rows, fired, owed, ops, crashes, due, snap, firing>>
        /\ fails' = fails + 1
    BY <1>4 DEF ListFails, workerVars, tableVars, historyVars
  <2>2. fails' # fails
    BY <1>0, <2>1, AccountTypes
  <2> QED
    BY <1>0, <2>1, <2>2, TimelyStays
<1>5. CASE Crash
  <2>1. crashes' = crashes + 1 /\ crashes \in Nat
    BY <1>0, <1>5, AccountTypes DEF Crash
  <2> QED
    BY <2>1 DEF TimelyInv, Undisturbed
<1>6. CASE Restart
  <2>1. ~up /\ UNCHANGED crashes
    BY <1>6 DEF Restart, boundVars
  <2> QED
    BY <2>1 DEF TimelyInv, Undisturbed
<1>7. CASE UNCHANGED vars
  BY <1>0, <1>7, TimelyStays
     DEF vars, workerVars, tableVars, historyVars, boundVars
<1> QED
  BY <1>0, <1>1, <1>2, <1>3, <1>4, <1>5, <1>6, <1>7, TimelyFire, TimelyAdvance,
     TimelyCreate, TimelyDisable, TimelyMinute DEF Next, Worker

LEMMA TimelyInit == Init => TimelyInv
<1> SUFFICES ASSUME Init PROVE TimelyInv
  OBVIOUS
<1>1. NoRow.status = "none"
  BY DEF NoRow
<1>2. Copied /\ InHandFired /\ Punctual /\ OwedPast /\ OffFired /\ up
  BY <1>1 DEF Init, Copied, InHandFired, Punctual, OwedPast, OffFired
<1>3. ASSUME NEW s \in Schedules
      PROVE  ChargedFor(s)
  <2>1. Skipped(s) = {} /\ Credit(s) = 0 /\ fails = 0
    BY DEF Init, Skipped, Credit
  <2>2. Cardinality(Skipped(s)) = 0
    BY <2>1, FS_EmptySet
  <2> QED
    BY <2>1, <2>2 DEF ChargedFor
<1> QED
  BY <1>2, <1>3 DEF TimelyInv, Charged

(* "Missed runs are not [recoverable]" (scheduler.rs:11): while the process
   stays up and nobody replaces or deletes a schedule, no match of an enabled
   one is passed over without a task but for a lake call of the worker that
   failed, and each such call costs a schedule at most one match. *)
THEOREM NoMatchIsSkipped == Spec => []MatchesFireWhileUp
<1>1. SchedulerInv /\ TimelyInv => MatchesFireWhileUp
  <2> SUFFICES ASSUME SchedulerInv, TimelyInv, Undisturbed, NEW s \in Schedules
               PROVE  Cardinality(Missed(s)) <= fails
    BY DEF MatchesFireWhileUp, Undisturbed
  <2>1. TypeOK /\ OffFired /\ ChargedFor(s) /\ fails \in Nat
    BY AccountTypes DEF SchedulerInv, TimelyInv, Charged
  <2>2. rows[s].next \in Nat /\ owed[s] \subseteq Nat
    <3>1. rows[s].next \in Nat
      BY <2>1, AccountTypes
    <3>2. owed[s] \subseteq Times
      BY <2>1 DEF TypeOK
    <3>3. Times \subseteq Nat
      BY SchedulerAssumption DEF Times
    <3> QED
      BY <3>1, <3>2, <3>3
  <2>3. Missed(s) \subseteq Skipped(s)
    <3> SUFFICES ASSUME NEW m \in Missed(s) PROVE m # rows[s].next
      BY DEF Missed, Skipped
    <3>1. m \in owed[s] /\ m \in Nat /\ fired[s][m] = 0
      BY <2>2 DEF Missed
    <3>2. CASE m < rows[s].next
      BY <2>2, <3>1, <3>2
    <3>3. CASE rows[s].status = "off"
      BY <2>1, <3>1, <3>3 DEF OffFired
    <3> QED
      BY <3>2, <3>3 DEF Missed
  <2>4. /\ Cardinality(Missed(s)) \in Nat /\ Cardinality(Skipped(s)) \in Nat
        /\ Cardinality(Missed(s)) <= Cardinality(Skipped(s))
    BY <2>1, <2>3, SkippedFinite
  <2>5. Cardinality(Skipped(s)) + Credit(s) <= fails /\ Credit(s) \in {0, 1}
    BY <2>1 DEF ChargedFor, Credit
  <2> QED
    BY <2>1, <2>4, <2>5
<1>2. Init => SchedulerInv /\ AccountInv /\ TimelyInv
  BY SchedulerInvInit, AccountInit, TimelyInit
<1>3. SchedulerInv /\ AccountInv /\ TimelyInv /\ [Next]_vars
        => (SchedulerInv /\ AccountInv /\ TimelyInv)'
  BY SchedulerInvNext, AccountStep, TimelyStep
<1> QED
  BY <1>1, <1>2, <1>3, PTL DEF Spec
=============================================================================
