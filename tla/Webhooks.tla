------------------------------ MODULE Webhooks -------------------------------
(***************************************************************************)
(* Webhook triggers: the callers that register, replace and delete hooks,  *)
(* and the requests that fire them.  fire_webhook makes three calls to the *)
(* lake (get_webhook, insert_envelope, note_webhook_fired), each under the *)
(* connection mutex, so requests and callers interleave between them.      *)
(* What a task looks like is left out.                                     *)
(***************************************************************************)
EXTENDS Naturals, FiniteSets

CONSTANTS
  Hooks,       \* hook ids
  Requests,    \* names of the requests that are handled at a time
  MaxFires,    \* bound: requests of a behaviour
  MaxOps,      \* bound: registrations and deletions
  MaxCrashes   \* bound: crashes

ASSUME WebhookAssumption ==
  /\ IsFiniteSet(Requests)
  /\ MaxFires \in Nat /\ MaxOps \in Nat /\ MaxCrashes \in Nat

VARIABLES
  hooks,       \* the webhooks table
  reqs,        \* the requests: what they have done, and for which hook
  up,
  sent,        \* tasks submitted since the hook was registered (history)
  carried,     \* requests that were to be counted at that moment (history)
  admitted,    \* requests that had read the hook when it was disabled (history)
  late,        \* tasks submitted since then (history)
  uncounted,   \* tasks whose count could not be written (history)
  fires, ops, crashes

historyVars == <<sent, carried, admitted, late, uncounted>>
boundVars   == <<fires, ops, crashes>>
vars == <<hooks, reqs, up, sent, carried, admitted, late, uncounted,
          fires, ops, crashes>>

Hook == [status : {"none", "on", "off"}, count : Nat]
Request == [pc : {"idle", "read", "submitted"}, hook : Hooks]
NoHook == [status |-> "none", count |-> 0]

TypeOK ==
  /\ hooks \in [Hooks -> Hook]
  /\ reqs \in [Requests -> Request]
  /\ up \in BOOLEAN
  /\ sent \in [Hooks -> Nat] /\ carried \in [Hooks -> Nat]
  /\ admitted \in [Hooks -> Nat] /\ late \in [Hooks -> Nat]
  /\ uncounted \in [Hooks -> Nat]
  /\ fires \in 0..MaxFires /\ ops \in 0..MaxOps /\ crashes \in 0..MaxCrashes

Zero == [h \in Hooks |-> 0]

Init ==
  /\ hooks = [h \in Hooks |-> NoHook]
  /\ reqs \in [Requests -> [pc : {"idle"}, hook : Hooks]]
  /\ up = TRUE
  /\ sent = Zero /\ carried = Zero /\ admitted = Zero /\ late = Zero
  /\ uncounted = Zero
  /\ fires = 0 /\ ops = 0 /\ crashes = 0

At(pc, h) == {r \in Requests : reqs[r].pc = pc /\ reqs[r].hook = h}
GoTo(r, pc) == reqs' = [reqs EXCEPT ![r].pc = pc]

-----------------------------------------------------------------------------
(* The callers.                                                            *)

\* upsert_webhook: DELETE, then INSERT of a fresh row.
Upsert(h, status) ==
  /\ hooks' = [hooks EXCEPT ![h] = [status |-> status, count |-> 0]]
  /\ sent' = [sent EXCEPT ![h] = 0]
  /\ carried' = [carried EXCEPT ![h] = Cardinality(At("submitted", h))]
  /\ uncounted' = [uncounted EXCEPT ![h] = 0]

\* From now on the requests that have read h are its admitted ones.
Closes(h) ==
  /\ admitted' = [admitted EXCEPT ![h] = Cardinality(At("read", h))]
  /\ late' = [late EXCEPT ![h] = 0]

\* POST /api/webhooks.  The requests that were admitted to the old hook
\* count as admitted to the new one.
CreateWebhook(h) ==
  /\ up /\ ops < MaxOps
  /\ \E status \in {"on", "off"} : Upsert(h, status)
  /\ Closes(h)
  /\ ops' = ops + 1
  /\ UNCHANGED <<reqs, up, fires, crashes>>

\* The INSERT fails after the DELETE: an error, and the old hook is gone.
CreateFails(h) ==
  /\ up /\ ops < MaxOps
  /\ hooks[h].status # "none"
  /\ hooks' = [hooks EXCEPT ![h] = NoHook]
  /\ Closes(h)
  /\ ops' = ops + 1
  /\ UNCHANGED <<reqs, up, sent, carried, uncounted, fires, crashes>>

\* Faulty variant: a mark that the other handlers do not know.
DeleteWebhook_Marks(h) ==
  /\ up /\ ops < MaxOps
  /\ hooks[h].status # "none"
  /\ hooks' = [hooks EXCEPT ![h].status = "deleted"]
  /\ Closes(h)
  /\ ops' = ops + 1
  /\ UNCHANGED <<reqs, up, sent, carried, uncounted, fires, crashes>>

\* DELETE /api/webhooks/:hook_id sets enabled to false.
DeleteWebhook(h) ==
  /\ up /\ ops < MaxOps
  /\ hooks[h].status # "none"
  /\ hooks' = [hooks EXCEPT ![h].status = "off"]
  /\ Closes(h)
  /\ ops' = ops + 1
  /\ UNCHANGED <<reqs, up, sent, carried, uncounted, fires, crashes>>

-----------------------------------------------------------------------------
(* POST /webhooks/:hook_id.  A request for a hook that is disabled or not  *)
(* there is refused and changes nothing.                                   *)

\* Faulty variant: `if w.enabled` is dropped.
GetWebhook_Any(r, h) ==
  /\ up /\ fires < MaxFires
  /\ reqs[r].pc = "idle" /\ hooks[h].status # "none"
  /\ reqs' = [reqs EXCEPT ![r] = [pc |-> "read", hook |-> h]]
  /\ fires' = fires + 1
  /\ UNCHANGED <<hooks, up, historyVars, ops, crashes>>

GetWebhook(r, h) ==
  /\ up /\ fires < MaxFires
  /\ reqs[r].pc = "idle" /\ hooks[h].status = "on"
  /\ reqs' = [reqs EXCEPT ![r] = [pc |-> "read", hook |-> h]]
  /\ fires' = fires + 1
  /\ UNCHANGED <<hooks, up, historyVars, ops, crashes>>

\* bus.submit: from here on there is a task, whatever becomes of the hook.
Submit(r) ==
  LET h == reqs[r].hook IN
  /\ up /\ reqs[r].pc = "read"
  /\ GoTo(r, "submitted")
  /\ sent' = [sent EXCEPT ![h] = @ + 1]
  /\ late' = [late EXCEPT ![h] = IF hooks[h].status = "on" THEN @ ELSE @ + 1]
  /\ UNCHANGED <<hooks, up, carried, admitted, uncounted, boundVars>>

\* bus.submit fails: an error for the caller, and nothing is counted.
SubmitFails(r) ==
  /\ up /\ reqs[r].pc = "read"
  /\ GoTo(r, "idle")
  /\ UNCHANGED <<hooks, up, historyVars, boundVars>>

\* Faulty variant: a hook that was disabled meanwhile is not counted.
NoteFired_Enabled(r) ==
  LET h == reqs[r].hook IN
  /\ up /\ reqs[r].pc = "submitted"
  /\ hooks' = IF hooks[h].status = "on"
              THEN [hooks EXCEPT ![h].count = @ + 1] ELSE hooks
  /\ GoTo(r, "idle")
  /\ UNCHANGED <<up, historyVars, boundVars>>

\* note_webhook_fired: the UPDATE changes nothing when the row is gone.
NoteFired(r) ==
  LET h == reqs[r].hook IN
  /\ up /\ reqs[r].pc = "submitted"
  /\ hooks' = IF hooks[h].status # "none"
              THEN [hooks EXCEPT ![h].count = @ + 1] ELSE hooks
  /\ GoTo(r, "idle")
  /\ UNCHANGED <<up, historyVars, boundVars>>

\* `let _ =`: the caller is told ACCEPTED all the same.
NoteFails(r) ==
  /\ up /\ reqs[r].pc = "submitted"
  /\ GoTo(r, "idle")
  /\ uncounted' = [uncounted EXCEPT ![reqs[r].hook] = @ + 1]
  /\ UNCHANGED <<hooks, up, sent, carried, admitted, late, boundVars>>

-----------------------------------------------------------------------------
(* Crashes.  The statements of upsert_webhook autocommit.                  *)

Down ==
  /\ up /\ crashes < MaxCrashes
  /\ up' = FALSE /\ crashes' = crashes + 1
  /\ reqs' = [r \in Requests |-> [reqs[r] EXCEPT !.pc = "idle"]]
  /\ UNCHANGED <<historyVars, fires, ops>>

Crash == Down /\ UNCHANGED hooks

\* ... between the DELETE and the INSERT.
CrashInUpsert(h) ==
  /\ ops < MaxOps /\ hooks[h].status # "none"
  /\ hooks' = [hooks EXCEPT ![h] = NoHook]
  /\ Down

Restart ==
  /\ ~up /\ up' = TRUE
  /\ UNCHANGED <<hooks, reqs, historyVars, boundVars>>

Next ==
  \/ \E h \in Hooks : CreateWebhook(h) \/ CreateFails(h) \/ DeleteWebhook(h)
  \/ \E r \in Requests : \/ \E h \in Hooks : GetWebhook(r, h)
                         \/ Submit(r) \/ SubmitFails(r)
                         \/ NoteFired(r) \/ NoteFails(r)
  \/ Crash \/ \E h \in Hooks : CrashInUpsert(h)
  \/ Restart

Spec == Init /\ [][Next]_vars

-----------------------------------------------------------------------------
(* Properties.                                                             *)

(* A webhook that was deleted or replaced by a disabled one produces at most
   the tasks of the requests that had passed the `enabled` check by then:
   the check and the submit are two calls, and no more than that leaks. *)
OnlyAdmittedFireLate ==
  \A h \in Hooks : hooks[h].status # "on" => late[h] <= admitted[h]

(* fire_count, written by a call of its own after the submit, follows the
   tasks of the hook: it lacks the requests in hand, those whose count could
   not be written and those a crash cut off, and has those that were in hand
   when the hook was replaced. *)
FireCountFollows ==
  \A h \in Hooks :
    LET counted == hooks[h].count + uncounted[h] + Cardinality(At("submitted", h)) IN
    hooks[h].status # "none" =>
      /\ counted <= sent[h] + carried[h]
      /\ crashes = 0 => counted = sent[h] + carried[h]
=============================================================================
