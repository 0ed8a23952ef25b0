---------------------------- MODULE WebhookProofs ----------------------------
(***************************************************************************)
(* Theorems about Webhooks for every value of its constants.               *)
(***************************************************************************)
EXTENDS Webhooks, FiniteSetTheorems, TLAPS

\* How many requests of R are at pc for hook h.
Who(R, pc, h)  == {r \in Requests : R[r].pc = pc /\ R[r].hook = h}
Many(R, pc, h) == Cardinality(Who(R, pc, h))

\* Whoever may still fire a hook that is not enabled was admitted and has
\* not fired yet; nothing is late while it is enabled.
Admission ==
  \A h \in Hooks : IF hooks[h].status = "on" THEN late[h] = 0
                   ELSE late[h] + Many(reqs, "read", h) <= admitted[h]

\* FireCountFollows, in these terms.
Counting ==
  \A h \in Hooks :
    LET counted == hooks[h].count + uncounted[h] + Many(reqs, "submitted", h) IN
    hooks[h].status # "none" =>
      /\ counted <= sent[h] + carried[h]
      /\ crashes = 0 => counted = sent[h] + carried[h]

WebhookInv == TypeOK /\ Admission /\ Counting

-----------------------------------------------------------------------------
(* How many requests stand somewhere is a number. *)
LEMMA ManyIsNat ==
  ASSUME NEW R, NEW pc, NEW h
  PROVE  IsFiniteSet(Who(R, pc, h)) /\ Many(R, pc, h) \in Nat
<1>1. Who(R, pc, h) \in SUBSET Requests
  BY DEF Who
<1>2. QED
  BY <1>1, FS_Subset, FS_CardinalityType, WebhookAssumption DEF Many

\* How request r going to `to` changes a count.
Moved(R, R1, r, to, pc, h) ==
  LET was == R[r].pc = pc /\ R[r].hook = h
      is  == to.pc = pc /\ to.hook = h
  IN  /\ Many(R, pc, h) \in Nat /\ Many(R1, pc, h) \in Nat
      /\ was /\ ~is => Many(R, pc, h) = Many(R1, pc, h) + 1
      /\ ~was /\ is => Many(R1, pc, h) = Many(R, pc, h) + 1
      /\ (was <=> is) => Many(R1, pc, h) = Many(R, pc, h)

(* One request moves: it leaves one place and enters another, and nothing
   else changes. *)
LEMMA ManyAfterMove ==
  ASSUME NEW R \in [Requests -> Request], NEW r \in Requests,
         NEW to \in Request, NEW R1, R1 = [R EXCEPT ![r] = to],
         NEW pc, NEW h
  PROVE  Moved(R, R1, r, to, pc, h)
<1> DEFINE was == R[r].pc = pc /\ R[r].hook = h
           is  == to.pc = pc /\ to.hook = h
           W   == Who(R, pc, h)
           W1  == Who(R1, pc, h)
<1>1. W1 = IF is THEN W \cup {r} ELSE W \ {r}
  BY DEF Who
<1>2. was <=> r \in W
  BY DEF Who
<1>3. /\ IsFiniteSet(W) /\ Cardinality(W) \in Nat
      /\ IsFiniteSet(W1) /\ Cardinality(W1) \in Nat
  BY ManyIsNat DEF Many
<1> HIDE DEF was, is, W, W1
<1>4. ASSUME was, ~is PROVE Cardinality(W) = Cardinality(W1) + 1
  <2>1. W1 = W \ {r} /\ r \in W
    BY <1>1, <1>2, <1>4
  <2>2. Cardinality(W1) = Cardinality(W) - 1
    BY <1>3, <2>1, FS_RemoveElement
  <2>3. QED
    BY <1>3, <2>2
<1>5. ASSUME ~was, is PROVE Cardinality(W1) = Cardinality(W) + 1
  BY <1>1, <1>2, <1>3, <1>5, FS_AddElement
<1>6. ASSUME was <=> is PROVE W1 = W
  BY <1>1, <1>2, <1>6
<1>7. QED
  BY <1>3, <1>4, <1>5, <1>6 DEF was, is, W, W1, Many, Moved

LEMMA WebhookInvInit == Init => WebhookInv
<1> SUFFICES ASSUME Init PROVE WebhookInv
  OBVIOUS
<1>1. TypeOK
  BY WebhookAssumption DEF Init, TypeOK, Request, Hook, NoHook, Zero
<1>2. \A h \in Hooks : Many(reqs, "read", h) = 0
  <2>1. \A h \in Hooks : Who(reqs, "read", h) = {}
    BY DEF Init, Who
  <2>2. QED
    BY <2>1, FS_EmptySet DEF Many
<1>3. QED
  BY <1>1, <1>2 DEF Init, WebhookInv, Admission, Counting, NoHook, Zero

(* What a crash leaves: nobody stands anywhere. *)
LEMMA DownEmpties ==
  ASSUME TypeOK, Down
  PROVE  /\ reqs' \in [Requests -> Request] /\ crashes' \in 0..MaxCrashes
         /\ crashes' > 0
         /\ \A h \in Hooks : Many(reqs', "read", h) = 0
                          /\ Many(reqs', "submitted", h) = 0
<1>1. \A r \in Requests : reqs'[r].pc = "idle" /\ reqs'[r] \in Request
  BY DEF Down, TypeOK, Request
<1>2. \A h \in Hooks : Who(reqs', "read", h) = {} /\ Who(reqs', "submitted", h) = {}
  BY <1>1 DEF Who
<1>3. reqs' \in [Requests -> Request]
  BY <1>1 DEF Down
<1>4. crashes' \in 0..MaxCrashes /\ crashes' > 0
  BY WebhookAssumption DEF Down, TypeOK
<1>5. QED
  BY <1>2, <1>3, <1>4, FS_EmptySet DEF Many

(* A crash keeps what the counts say, of the hooks it does not lose. *)
LEMMA DownKeepsCounts ==
  ASSUME WebhookInv, Down,
         \A h \in Hooks : hooks'[h] = hooks[h] \/ hooks'[h].status = "none"
  PROVE  Admission' /\ Counting'
<1>1. /\ UNCHANGED <<sent, carried, admitted, late, uncounted>>
      /\ crashes' # 0
      /\ \A h \in Hooks : Many(reqs', "read", h) = 0
                       /\ Many(reqs', "submitted", h) = 0
  <2>1. TypeOK
    BY DEF WebhookInv
  <2>2. UNCHANGED <<sent, carried, admitted, late, uncounted>>
    BY DEF Down, historyVars
  <2>3. /\ crashes' > 0 /\ crashes' \in 0..MaxCrashes
        /\ \A h \in Hooks : Many(reqs', "read", h) = 0
                         /\ Many(reqs', "submitted", h) = 0
    BY <2>1, DownEmpties
  <2>4. crashes' # 0
    BY <2>3
  <2>5. QED
    BY <2>2, <2>3, <2>4
<1>2. \A h \in Hooks :
        /\ Many(reqs, "read", h) \in Nat /\ Many(reqs, "submitted", h) \in Nat
        /\ late[h] \in Nat /\ admitted[h] \in Nat
        /\ hooks[h].count + uncounted[h] \in Nat
        /\ sent[h] + carried[h] \in Nat
  BY ManyIsNat DEF WebhookInv, TypeOK, Hook
<1>3. \A h \in Hooks : hooks'[h].status # "none" =>
        hooks'[h].count + uncounted'[h] + Many(reqs', "submitted", h)
          <= sent'[h] + carried'[h]
  <2> SUFFICES ASSUME NEW h \in Hooks, hooks'[h].status # "none"
               PROVE  hooks'[h].count + uncounted'[h] + Many(reqs', "submitted", h)
                        <= sent'[h] + carried'[h]
    OBVIOUS
  <2>1. hooks'[h] = hooks[h] /\ hooks[h].status # "none"
    OBVIOUS
  <2>2. hooks[h].count + uncounted[h] + Many(reqs, "submitted", h)
          <= sent[h] + carried[h]
    BY <2>1 DEF WebhookInv, Counting
  <2>3. QED
    BY <1>1, <1>2, <2>1, <2>2
<1>4. \A h \in Hooks : IF hooks'[h].status = "on" THEN late'[h] = 0
                       ELSE late'[h] + Many(reqs', "read", h) <= admitted'[h]
  <2> SUFFICES ASSUME NEW h \in Hooks
               PROVE  IF hooks'[h].status = "on" THEN late'[h] = 0
                      ELSE late'[h] + Many(reqs', "read", h) <= admitted'[h]
    OBVIOUS
  <2>1. CASE hooks'[h] = hooks[h]
    BY <1>1, <1>2, <2>1 DEF WebhookInv, Admission
  <2>2. CASE hooks'[h].status = "none" /\ hooks[h].status # "on"
    BY <1>1, <1>2, <2>2 DEF WebhookInv, Admission
  <2>3. CASE hooks'[h].status = "none" /\ hooks[h].status = "on"
    BY <1>1, <1>2, <2>3 DEF WebhookInv, Admission
  <2>4. QED
    BY <2>1, <2>2, <2>3
<1>5. QED
  BY <1>1, <1>3, <1>4 DEF Admission, Counting

(* Each action keeps the invariant. *)
LEMMA WebhookInvNext == WebhookInv /\ [Next]_vars => WebhookInv'
<1> SUFFICES ASSUME WebhookInv, [Next]_vars PROVE WebhookInv'
  OBVIOUS
<1> USE DEF WebhookInv
<1>0. \A h \in Hooks : /\ Many(reqs, "read", h) \in Nat
                       /\ Many(reqs, "submitted", h) \in Nat
                       /\ Cardinality(At("read", h)) = Many(reqs, "read", h)
                       /\ Cardinality(At("submitted", h)) = Many(reqs, "submitted", h)
  <2>1. \A h \in Hooks : /\ Many(reqs, "read", h) \in Nat
                         /\ Many(reqs, "submitted", h) \in Nat
    BY ManyIsNat
  <2>2. QED
    BY <2>1 DEF Many, Who, At
<1>1. ASSUME NEW h \in Hooks, CreateWebhook(h) PROVE WebhookInv'
  <2>1. PICK status \in {"on", "off"} : Upsert(h, status)
    BY <1>1 DEF CreateWebhook
  <2>2. TypeOK'
    <3>1. [status |-> status, count |-> 0] \in Hook
      BY DEF Hook
    <3>2. hooks' \in [Hooks -> Hook] /\ sent' \in [Hooks -> Nat]
          /\ carried' \in [Hooks -> Nat] /\ uncounted' \in [Hooks -> Nat]
      BY <1>0, <2>1, <3>1 DEF Upsert, TypeOK
    <3>3. admitted' \in [Hooks -> Nat] /\ late' \in [Hooks -> Nat]
      BY <1>0, <1>1 DEF CreateWebhook, Closes, TypeOK
    <3>4. ops' \in 0..MaxOps
      BY <1>1, WebhookAssumption DEF CreateWebhook, TypeOK
    <3>5. QED
      BY <1>1, <3>2, <3>3, <3>4 DEF CreateWebhook, TypeOK
  <2>3. reqs' = reqs /\ crashes' = crashes
    BY <1>1 DEF CreateWebhook
  <2>4. Admission'
    BY <1>0, <1>1, <2>1, <2>3 DEF CreateWebhook, Closes, Upsert, Admission, TypeOK
  <2>5. Counting'
    BY <1>0, <2>1, <2>3 DEF Upsert, Counting, TypeOK, Hook
  <2>6. QED
    BY <2>2, <2>4, <2>5
<1>2. ASSUME NEW h \in Hooks, DeleteWebhook(h) PROVE WebhookInv'
  <2>1. /\ hooks' \in [Hooks -> Hook]
        /\ \A g \in Hooks : /\ hooks'[g].count = hooks[g].count
                            /\ g # h => hooks'[g] = hooks[g]
        /\ hooks'[h].status = "off" /\ hooks[h].status # "none"
    BY <1>2 DEF DeleteWebhook, TypeOK, Hook
  <2>2. TypeOK'
    <3>1. admitted' \in [Hooks -> Nat] /\ late' \in [Hooks -> Nat]
      BY <1>0, <1>2 DEF DeleteWebhook, Closes, TypeOK
    <3>2. ops' \in 0..MaxOps
      BY <1>2, WebhookAssumption DEF DeleteWebhook, TypeOK
    <3>3. QED
      BY <1>2, <2>1, <3>1, <3>2 DEF DeleteWebhook, TypeOK
  <2>3. UNCHANGED <<reqs, sent, carried, uncounted, crashes>>
    BY <1>2 DEF DeleteWebhook
  <2>4. Admission'
    BY <1>0, <1>2, <2>1, <2>3 DEF DeleteWebhook, Closes, Admission, TypeOK
  <2>5. Counting'
    BY <2>1, <2>3 DEF Counting
  <2>6. QED
    BY <2>2, <2>4, <2>5
<1>3. ASSUME NEW r \in Requests, NEW h \in Hooks, GetWebhook(r, h)
      PROVE  WebhookInv'
  <2> DEFINE to == [pc |-> "read", hook |-> h]
  <2>1. /\ reqs' = [reqs EXCEPT ![r] = to] /\ to \in Request
        /\ reqs[r].pc = "idle" /\ hooks[h].status = "on"
        /\ UNCHANGED <<hooks, up, historyVars, ops, crashes>>
    BY <1>3 DEF GetWebhook, Request
  <2>2. TypeOK'
    <3>1. fires' \in 0..MaxFires
      BY <1>3, WebhookAssumption DEF GetWebhook, TypeOK
    <3>2. QED
      BY <2>1, <3>1 DEF TypeOK, historyVars
  <2>3. \A g \in Hooks : /\ g # h => Many(reqs', "read", g) = Many(reqs, "read", g)
                         /\ Many(reqs', "submitted", g) = Many(reqs, "submitted", g)
    <3> HIDE DEF to
    <3>1. reqs \in [Requests -> Request] /\ to.pc = "read" /\ to.hook = h
      BY DEF TypeOK, to
    <3>0. \A g \in Hooks, pc \in {"read", "submitted"} :
            Moved(reqs, reqs', r, to, pc, g)
      BY <2>1, <3>1, ManyAfterMove
    <3>2. \A g \in Hooks : g # h => Many(reqs', "read", g) = Many(reqs, "read", g)
      BY <2>1, <3>0, <3>1 DEF Moved
    <3>3. \A g \in Hooks : Many(reqs', "submitted", g) = Many(reqs, "submitted", g)
      BY <2>1, <3>0, <3>1 DEF Moved
    <3>4. QED
      BY <3>2, <3>3
  <2>4. Admission' /\ Counting'
    BY <2>1, <2>3 DEF Admission, Counting, historyVars
  <2>5. QED
    BY <2>2, <2>4
<1>4. ASSUME NEW r \in Requests, Submit(r) PROVE WebhookInv'
  <2> DEFINE h  == reqs[r].hook
             to == [reqs[r] EXCEPT !.pc = "submitted"]
  <2>1. /\ h \in Hooks /\ to \in Request
        /\ reqs[r].pc = "read" /\ to.pc = "submitted" /\ to.hook = h
    BY <1>4 DEF Submit, TypeOK, Request
  <2>2. reqs' = [reqs EXCEPT ![r] = to] /\ reqs' \in [Requests -> Request]
    BY <1>4, <2>1 DEF Submit, GoTo, TypeOK
  <2>3. \A g \in Hooks :
          /\ Many(reqs', "read", g) \in Nat /\ Many(reqs', "submitted", g) \in Nat
          /\ g = h => /\ Many(reqs, "read", g) = Many(reqs', "read", g) + 1
                      /\ Many(reqs', "submitted", g) = Many(reqs, "submitted", g) + 1
          /\ g # h => /\ Many(reqs', "read", g) = Many(reqs, "read", g)
                      /\ Many(reqs', "submitted", g) = Many(reqs, "submitted", g)
    <3>1. reqs \in [Requests -> Request] /\ h = reqs[r].hook
      BY DEF TypeOK
    <3> HIDE DEF h, to
    <3>0. \A g \in Hooks, pc \in {"read", "submitted"} :
            Moved(reqs, reqs', r, to, pc, g)
      BY <2>1, <2>2, <3>1, ManyAfterMove
    <3>2. \A g \in Hooks :
            /\ Many(reqs', "read", g) \in Nat
            /\ g = h => Many(reqs, "read", g) = Many(reqs', "read", g) + 1
            /\ g # h => Many(reqs', "read", g) = Many(reqs, "read", g)
      BY <2>1, <3>0, <3>1 DEF Moved
    <3>3. \A g \in Hooks :
            /\ Many(reqs', "submitted", g) \in Nat
            /\ g = h => Many(reqs', "submitted", g) = Many(reqs, "submitted", g) + 1
            /\ g # h => Many(reqs', "submitted", g) = Many(reqs, "submitted", g)
      BY <2>1, <3>0, <3>1 DEF Moved
    <3>4. QED
      BY <3>2, <3>3
  <2>4. /\ sent' = [sent EXCEPT ![h] = sent[h] + 1]
        /\ late' = [late EXCEPT ![h] = IF hooks[h].status = "on" THEN late[h]
                                       ELSE late[h] + 1]
        /\ UNCHANGED <<hooks, up, carried, admitted, uncounted, boundVars>>
    BY <1>4 DEF Submit
  <2> HIDE DEF h, to
  <2>5. TypeOK'
    BY <2>1, <2>2, <2>4 DEF TypeOK, boundVars
  <2>6. Admission'
    BY <1>0, <2>1, <2>3, <2>4 DEF Admission, TypeOK
  <2>7. Counting'
    BY <1>0, <2>1, <2>3, <2>4 DEF Counting, TypeOK, Hook, boundVars
  <2>8. QED
    BY <2>5, <2>6, <2>7
<1>5. ASSUME NEW r \in Requests, SubmitFails(r) PROVE WebhookInv'
  <2> DEFINE to == [reqs[r] EXCEPT !.pc = "idle"]
  <2>1. /\ to \in Request /\ to.pc = "idle" /\ reqs[r].pc = "read"
        /\ reqs' = [reqs EXCEPT ![r] = to]
        /\ UNCHANGED <<hooks, up, historyVars, boundVars>>
    BY <1>5 DEF SubmitFails, GoTo, TypeOK, Request
  <2> HIDE DEF to
  <2>2. TypeOK'
    BY <2>1 DEF TypeOK, historyVars, boundVars
  <2>3. \A g \in Hooks :
          /\ Many(reqs', "read", g) \in Nat
          /\ Many(reqs', "read", g) <= Many(reqs, "read", g)
          /\ Many(reqs', "submitted", g) = Many(reqs, "submitted", g)
    <3>1. reqs \in [Requests -> Request]
      BY DEF TypeOK
    <3>0. \A g \in Hooks, pc \in {"read", "submitted"} :
            Moved(reqs, reqs', r, to, pc, g)
      BY <2>1, <3>1, ManyAfterMove
    <3>2. \A g \in Hooks : /\ Many(reqs', "read", g) \in Nat
                           /\ \/ Many(reqs', "read", g) = Many(reqs, "read", g)
                              \/ Many(reqs, "read", g) = Many(reqs', "read", g) + 1
      BY <2>1, <3>0, <3>1 DEF Moved
    <3>3. \A g \in Hooks : Many(reqs', "submitted", g) = Many(reqs, "submitted", g)
      BY <2>1, <3>0, <3>1 DEF Moved
    <3>4. QED
      BY <1>0, <3>2, <3>3
  <2>4. Admission'
    <3> SUFFICES ASSUME NEW g \in Hooks, hooks[g].status # "on"
                 PROVE  late[g] + Many(reqs', "read", g) <= admitted[g]
      BY <2>1 DEF Admission, historyVars
    <3>1. late[g] + Many(reqs, "read", g) <= admitted[g]
      BY DEF Admission
    <3>2. late[g] \in Nat /\ admitted[g] \in Nat
      BY DEF TypeOK
    <3>3. QED
      BY <1>0, <2>3, <3>1, <3>2
  <2>5. Counting'
    BY <2>1, <2>3 DEF Counting, historyVars, boundVars
  <2>6. QED
    BY <2>2, <2>4, <2>5
<1>6. ASSUME NEW r \in Requests, NoteFired(r) PROVE WebhookInv'
  <2> DEFINE h  == reqs[r].hook
             to == [reqs[r] EXCEPT !.pc = "idle"]
  <2>1. /\ h \in Hooks /\ to \in Request /\ to.pc = "idle"
        /\ reqs[r].pc = "submitted" /\ reqs' = [reqs EXCEPT ![r] = to]
        /\ UNCHANGED <<up, historyVars, boundVars>>
    BY <1>6 DEF NoteFired, GoTo, TypeOK, Request
  <2>2. /\ hooks' \in [Hooks -> Hook]
        /\ \A g \in Hooks :
             /\ hooks'[g].status = hooks[g].status
             /\ hooks[g].status # "none" =>
                  hooks'[g].count = IF g = h THEN hooks[g].count + 1
                                    ELSE hooks[g].count
    <3>1. hooks[h].count + 1 \in Nat
      BY <2>1 DEF TypeOK, Hook
    <3>2. hooks' = IF hooks[h].status # "none"
                   THEN [hooks EXCEPT ![h] = [hooks[h] EXCEPT
                                                !.count = hooks[h].count + 1]]
                   ELSE hooks
      BY <1>6 DEF NoteFired
    <3> HIDE DEF h
    <3>3. QED
      BY <2>1, <3>1, <3>2 DEF TypeOK, Hook
  <2>3. \A g \in Hooks :
          /\ Many(reqs', "submitted", g) \in Nat
          /\ Many(reqs', "read", g) = Many(reqs, "read", g)
          /\ g = h => Many(reqs, "submitted", g) = Many(reqs', "submitted", g) + 1
          /\ g # h => Many(reqs', "submitted", g) = Many(reqs, "submitted", g)
    <3>1. reqs \in [Requests -> Request] /\ h = reqs[r].hook
      BY DEF TypeOK
    <3> HIDE DEF h, to
    <3>0. \A g \in Hooks, pc \in {"read", "submitted"} :
            Moved(reqs, reqs', r, to, pc, g)
      BY <2>1, <3>1, ManyAfterMove
    <3>2. \A g \in Hooks : Many(reqs', "read", g) = Many(reqs, "read", g)
      BY <2>1, <3>0, <3>1 DEF Moved
    <3>3. \A g \in Hooks :
            /\ Many(reqs', "submitted", g) \in Nat
            /\ g = h => Many(reqs, "submitted", g) = Many(reqs', "submitted", g) + 1
            /\ g # h => Many(reqs', "submitted", g) = Many(reqs, "submitted", g)
      BY <2>1, <3>0, <3>1 DEF Moved
    <3>4. QED
      BY <3>2, <3>3
  <2> HIDE DEF h, to
  <2>4. TypeOK'
    BY <2>1, <2>2 DEF TypeOK, historyVars, boundVars
  <2>5. Admission'
    BY <2>1, <2>2, <2>3 DEF Admission, historyVars
  <2>6. Counting'
    <3>1. UNCHANGED <<sent, carried, uncounted, crashes>>
      BY <2>1 DEF historyVars, boundVars
    <3>2. ASSUME NEW g \in Hooks, hooks[g].status # "none"
          PROVE  hooks'[g].count + uncounted[g] + Many(reqs', "submitted", g)
                   = hooks[g].count + uncounted[g] + Many(reqs, "submitted", g)
      <4>1. hooks[g].count \in Nat /\ uncounted[g] \in Nat
        BY DEF TypeOK, Hook
      <4>2. CASE g = h
        BY <1>0, <2>2, <2>3, <3>2, <4>1, <4>2
      <4>3. CASE g # h
        BY <2>2, <2>3, <3>2, <4>3
      <4>4. QED
        BY <4>2, <4>3
    <3>3. QED
      BY <2>2, <3>1, <3>2 DEF Counting
  <2>7. QED
    BY <2>4, <2>5, <2>6
<1>7. CASE Crash
  <2>1. TypeOK'
    BY <1>7, DownEmpties DEF Crash, Down, TypeOK, historyVars
  <2>2. \A g \in Hooks : hooks'[g] = hooks[g]
    BY <1>7 DEF Crash
  <2>3. Admission' /\ Counting'
    BY <1>7, <2>2, DownKeepsCounts DEF Crash
  <2>4. QED
    BY <2>1, <2>3
<1>8. ASSUME NEW h \in Hooks, CrashInUpsert(h) PROVE WebhookInv'
  <2>1. /\ hooks' \in [Hooks -> Hook]
        /\ \A g \in Hooks : hooks'[g] = hooks[g] \/ hooks'[g].status = "none"
    BY <1>8 DEF CrashInUpsert, TypeOK, Hook, NoHook
  <2>2. Down
    BY <1>8 DEF CrashInUpsert
  <2>3. TypeOK'
    BY <2>1, <2>2, DownEmpties DEF Down, TypeOK, historyVars
  <2>4. Admission' /\ Counting'
    BY <2>1, <2>2, DownKeepsCounts
  <2>5. QED
    BY <2>3, <2>4
<1>9. CASE Restart
  BY <1>9 DEF Restart, TypeOK, Admission, Counting, historyVars, boundVars
<1>10. CASE UNCHANGED vars
  BY <1>10 DEF vars, TypeOK, Admission, Counting
<1>11. ASSUME NEW h \in Hooks, CreateFails(h) PROVE WebhookInv'
  <2>1. /\ hooks' \in [Hooks -> Hook]
        /\ hooks'[h].status = "none"
        /\ \A g \in Hooks : g # h => hooks'[g] = hooks[g]
    BY <1>11 DEF CreateFails, NoHook, TypeOK, Hook
  <2>2. TypeOK'
    <3>1. admitted' \in [Hooks -> Nat] /\ late' \in [Hooks -> Nat]
      BY <1>0, <1>11 DEF CreateFails, Closes, TypeOK
    <3>2. ops' \in 0..MaxOps
      BY <1>11, WebhookAssumption DEF CreateFails, TypeOK
    <3>3. QED
      BY <1>11, <2>1, <3>1, <3>2 DEF CreateFails, TypeOK
  <2>3. UNCHANGED <<reqs, sent, carried, uncounted, crashes>>
    BY <1>11 DEF CreateFails
  <2>4. Admission'
    BY <1>0, <1>11, <2>1, <2>3 DEF CreateFails, Closes, Admission, TypeOK
  <2>5. Counting'
    BY <2>1, <2>3 DEF Counting
  <2>6. QED
    BY <2>2, <2>4, <2>5
<1>12. ASSUME NEW r \in Requests, NoteFails(r) PROVE WebhookInv'
  <2> DEFINE h  == reqs[r].hook
             to == [reqs[r] EXCEPT !.pc = "idle"]
  <2>1. /\ h \in Hooks /\ to \in Request /\ to.pc = "idle"
        /\ reqs[r].pc = "submitted" /\ reqs' = [reqs EXCEPT ![r] = to]
        /\ UNCHANGED <<hooks, up, sent, carried, admitted, late, boundVars>>
    BY <1>12 DEF NoteFails, GoTo, TypeOK, Request
  <2>2. uncounted' = [uncounted EXCEPT ![h] = uncounted[h] + 1]
    BY <1>12 DEF NoteFails
  <2>3. \A g \in Hooks :
          /\ Many(reqs', "submitted", g) \in Nat
          /\ Many(reqs', "read", g) = Many(reqs, "read", g)
          /\ g = h => Many(reqs, "submitted", g) = Many(reqs', "submitted", g) + 1
          /\ g # h => Many(reqs', "submitted", g) = Many(reqs, "submitted", g)
    <3>1. reqs \in [Requests -> Request] /\ h = reqs[r].hook
      BY DEF TypeOK
    <3> HIDE DEF h, to
    <3>0. \A g \in Hooks, pc \in {"read", "submitted"} :
            Moved(reqs, reqs', r, to, pc, g)
      BY <2>1, <3>1, ManyAfterMove
    <3>2. \A g \in Hooks : Many(reqs', "read", g) = Many(reqs, "read", g)
      BY <2>1, <3>0, <3>1 DEF Moved
    <3>3. \A g \in Hooks :
            /\ Many(reqs', "submitted", g) \in Nat
            /\ g = h => Many(reqs, "submitted", g) = Many(reqs', "submitted", g) + 1
            /\ g # h => Many(reqs', "submitted", g) = Many(reqs, "submitted", g)
      BY <2>1, <3>0, <3>1 DEF Moved
    <3>4. QED
      BY <3>2, <3>3
  <2> HIDE DEF h, to
  <2>4. TypeOK'
    BY <2>1, <2>2 DEF TypeOK, boundVars
  <2>5. Admission'
    BY <2>1, <2>3 DEF Admission
  <2>6. Counting'
    <3>1. ASSUME NEW g \in Hooks
          PROVE  hooks[g].count + uncounted'[g] + Many(reqs', "submitted", g)
                   = hooks[g].count + uncounted[g] + Many(reqs, "submitted", g)
      <4>1. hooks[g].count \in Nat /\ uncounted[g] \in Nat
        BY DEF TypeOK, Hook
      <4>2. uncounted'[g] = IF g = h THEN uncounted[g] + 1 ELSE uncounted[g]
        BY <2>2 DEF TypeOK
      <4>3. CASE g = h
        BY <1>0, <2>3, <4>1, <4>2, <4>3
      <4>4. CASE g # h
        BY <2>3, <4>2, <4>4
      <4>5. QED
        BY <4>3, <4>4
    <3>2. QED
      BY <2>1, <3>1 DEF Counting, boundVars
  <2>7. QED
    BY <2>4, <2>5, <2>6
<1>13. QED
  BY <1>1, <1>2, <1>3, <1>4, <1>5, <1>6, <1>7, <1>8, <1>9, <1>10, <1>11, <1>12
     DEF Next

(* The table, the requests and the counters keep their types. *)
THEOREM WebhookTypeCorrect == Spec => []TypeOK
<1>1. WebhookInv => TypeOK
  BY DEF WebhookInv
<1>2. QED
  BY <1>1, WebhookInvInit, WebhookInvNext, PTL DEF Spec

(* A disabled hook produces no more tasks than the requests it had admitted. *)
THEOREM OnlyAdmittedFire == Spec => []OnlyAdmittedFireLate
<1>1. WebhookInv => OnlyAdmittedFireLate
  BY ManyIsNat DEF WebhookInv, Admission, OnlyAdmittedFireLate, TypeOK
<1>2. QED
  BY <1>1, WebhookInvInit, WebhookInvNext, PTL DEF Spec

(* fire_count follows the tasks of a hook through replacements and crashes. *)
THEOREM FireCountIsRight == Spec => []FireCountFollows
<1>1. WebhookInv => FireCountFollows
  BY DEF WebhookInv, Counting, FireCountFollows, Many, Who, At
<1>2. QED
  BY <1>1, WebhookInvInit, WebhookInvNext, PTL DEF Spec
=============================================================================
