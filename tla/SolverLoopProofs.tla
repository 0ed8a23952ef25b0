-------------------------- MODULE SolverLoopProofs --------------------------
(***************************************************************************)
(* Proofs about the learning loop, for every set of protocols, analyzers   *)
(* and operators and every bound: the types, which rules are active, and   *)
(* what a finished analysis has replaced.                                  *)
(***************************************************************************)
EXTENDS SolverLoop, FiniteSetTheorems, TLAPS

USE SolverAssumption

-----------------------------------------------------------------------------
(* Types. *)

(* A page's rows of one protocol can be counted, and there is one if their
   number is not zero. *)
LEMMA PageCounts ==
  ASSUME TypeOK, NEW p \in Protocols
  PROVE  /\ Cardinality(OnPage(p)) \in Nat
         /\ Cardinality(OnPage(p)) > 0 => OnPage(p) # {}
<1>1. Len(outcomes) \in Nat
  BY DEF TypeOK
<1>2. IsFiniteSet(1..Len(outcomes))
  BY <1>1, FS_Interval
<1>3. IsFiniteSet(OnPage(p))
  BY <1>2, FS_Subset DEF OnPage
<1> QED
  BY <1>3, FS_CardinalityType, FS_EmptySet

LEMMA PcType ==
  ASSUME TypeOK, NEW c \in Clients,
         NEW pc \in {"idle", "work", "wait", "accepted", "refused", "done", "dead"}
  PROVE  [client EXCEPT ![c].pc = pc] \in [Clients -> Client]
<1>1. client \in [Clients -> Client]
  BY DEF TypeOK
<1>2. client[c] \in Client
  BY <1>1
<1>3. [client[c] EXCEPT !.pc = pc] \in Client
  BY <1>2 DEF Client
<1> QED
  BY <1>1, <1>3

LEMMA AnswerType ==
  ASSUME TypeOK, NEW q \in requests, NEW pc \in {"accepted", "refused"},
         Answer(q, pc)
  PROVE  /\ requests' \subseteq Request
         /\ client' \in [Clients -> Client]
<1>1. requests' \subseteq requests
  BY DEF Answer
<1>2. q.by \in Clients
  BY DEF TypeOK, Request
<1>3. client' \in [Clients -> Client]
  BY <1>2, PcType DEF Answer, TypeOK
<1> QED
  BY <1>1, <1>3 DEF TypeOK

LEMMA ReplaceType ==
  ASSUME TypeOK, NEW q \in requests, NEW k \in 0..MaxRules, Replace(q, k)
  PROVE  /\ active' \in [Protocols -> SUBSET Rule]
         /\ served' \in [Protocols -> Seq(Publication)]
<1>1. q \in Request
  BY DEF TypeOK
<1>2. q.by \in Clients /\ q.to \in Protocols /\ q.size \in 0..MaxRules
  BY <1>1 DEF Request
<1>3. Rules(q.by, k) \subseteq Rule
  BY <1>2 DEF Rules, Rule
<1>4. [by |-> q.by, size |-> q.size, kept |-> k] \in Publication
  BY <1>2 DEF Publication
<1>5. served[q.to] \in Seq(Publication)
  BY <1>2 DEF TypeOK
<1>6. Append(served[q.to], [by |-> q.by, size |-> q.size, kept |-> k])
        \in Seq(Publication)
  BY <1>4, <1>5
<1> QED
  BY <1>2, <1>3, <1>6 DEF Replace, TypeOK

LEMMA PostType ==
  ASSUME TypeOK, NEW c \in Clients, NEW p \in Protocols,
         NEW size \in 0..MaxRules, NEW heard \in {"rules", "nothing"},
         Post(c, p, size, heard)
  PROVE  TypeOK'
<1>1. [by |-> c, to |-> p, size |-> size, heard |-> heard] \in Request
  BY DEF Request
<1>2. requests' \subseteq Request
  BY <1>1 DEF Post, TypeOK
<1>4. client' \in [Clients -> Client]
  <2>1. client[c] \in Client
    BY DEF TypeOK
  <2>2. [client[c] EXCEPT !.pc = "wait", !.left = @ \ {p}] \in Client
    BY <2>1 DEF Client
  <2>3. client' = [client EXCEPT ![c] =
                     [client[c] EXCEPT !.pc = "wait", !.left = @ \ {p}]]
    BY DEF Post, TypeOK
  <2> QED
    BY <2>2, <2>3 DEF TypeOK
<1> QED
  BY <1>2, <1>4 DEF Post, TypeOK, lakeVars, serverVars

LEMMA TypeStep == TypeOK /\ [Next]_vars => TypeOK'
<1> SUFFICES ASSUME TypeOK, [Next]_vars PROVE TypeOK'
  OBVIOUS
<1>1. ASSUME NEW p \in Protocols, IngestOutcome(p) PROVE TypeOK'
  <2>1. PICK i \in 0..Len(outcomes) :
          outcomes' = SubSeq(outcomes, 1, i) \o <<p>>
                        \o SubSeq(outcomes, i + 1, Len(outcomes))
    BY <1>1 DEF IngestOutcome
  <2>2. outcomes \in Seq(Protocols)
    BY DEF TypeOK
  <2>3. SubSeq(outcomes, 1, i) \in Seq(Protocols)
    BY <2>2
  <2>4. SubSeq(outcomes, i + 1, Len(outcomes)) \in Seq(Protocols)
    BY <2>2
  <2>5. <<p>> \in Seq(Protocols)
    OBVIOUS
  <2>6. outcomes' \in Seq(Protocols)
    BY <2>1, <2>3, <2>4, <2>5
  <2> QED
    BY <1>1, <2>6 DEF IngestOutcome, TypeOK, serverVars
<1>2. ASSUME NEW a \in Analyzers, FetchOutcomes(a) PROVE TypeOK'
  <2> DEFINE n == [p \in Protocols |-> Cardinality(OnPage(p))]
             left == {p \in Protocols : OnPage(p) # {}}
             pc == IF outcomes = << >> THEN "done" ELSE "work"
  <2>1. n \in [Protocols -> Nat]
    BY PageCounts
  <2>2. client' = [client EXCEPT ![a] = [pc |-> pc, n |-> n, left |-> left]]
    BY <1>2 DEF FetchOutcomes
  <2>3. [pc |-> pc, n |-> n, left |-> left] \in Client
    BY <2>1 DEF Client
  <2>4. client' \in [Clients -> Client]
    BY <2>2, <2>3 DEF TypeOK, Clients
  <2>5. before' \in [Analyzers -> SUBSET Analyzers]
    BY <1>2 DEF FetchOutcomes, TypeOK
  <2> QED
    BY <1>2, <2>4, <2>5 DEF FetchOutcomes, TypeOK, lakeVars, serverVars
<1>3. ASSUME NEW a \in Analyzers, Work(a) PROVE TypeOK'
  <2>1. a \in Clients
    BY DEF Clients
  <2>2. PICK p \in Protocols : PublishNothing(a, p) \/ PublishProposal(a, p)
    BY <1>3 DEF Work
  <2>3. CASE PublishNothing(a, p)
    <3>1. Post(a, p, 0, "nothing")
      BY <2>3 DEF PublishNothing
    <3>2. 0 \in 0..MaxRules
      OBVIOUS
    <3> QED
      BY <2>1, <3>1, <3>2, PostType
  <2>4. CASE PublishProposal(a, p)
    <3>1. PICK answer \in Answers :
            Post(a, p, ProposeRules(answer),
                 IF answer.rules > 0 THEN "rules" ELSE "nothing")
      BY <2>4 DEF PublishProposal
    <3>2. answer.rules \in 0..MaxRules
      BY DEF Answers
    <3>3. ProposeRules(answer) \in 0..MaxRules
      BY <3>2 DEF ProposeRules, LeastOf
    <3> QED
      BY <2>1, <3>1, <3>3, PostType
  <2> QED
    BY <2>2, <2>3, <2>4
<1>4. ASSUME NEW o \in Operators, NEW p \in Protocols, OperatorPublishes(o, p)
      PROVE TypeOK'
  <2>1. o \in Clients /\ o \notin Analyzers
    BY DEF Clients
  <2> QED
    BY <1>4, <2>1, PostType DEF OperatorPublishes
<1>5. ASSUME NEW c \in Clients, Hear(c) PROVE TypeOK'
  <2>1. client' \in [Clients -> Client]
    <3>1. \/ GoTo(c, "done") \/ GoTo(c, "work") \/ GoTo(c, "dead")
      BY <1>5 DEF Hear, CarryOn, GiveUp
    <3> QED
      BY <3>1, PcType DEF GoTo
  <2> QED
    BY <1>5, <2>1 DEF Hear, CarryOn, GiveUp, TypeOK, lakeVars, serverVars
<1>6. ASSUME NEW q \in requests, Serve(q) PROVE TypeOK'
  <2>1. CASE Reject(q)
    BY <2>1, AnswerType DEF Reject, TypeOK, lakeVars, serverVars
  <2>2. CASE Publish(q)
    <3>1. q.size \in 0..MaxRules
      BY DEF TypeOK, Request
    <3>2. /\ active' \in [Protocols -> SUBSET Rule]
          /\ served' \in [Protocols -> Seq(Publication)]
      BY <2>2, <3>1, ReplaceType DEF Publish
    <3> QED
      BY <2>2, <3>2, AnswerType DEF Publish, TypeOK, serverVars
  <2>3. CASE PublishFails(q)
    <3>1. /\ active' \in [Protocols -> SUBSET Rule]
          /\ served' \in [Protocols -> Seq(Publication)]
      BY <2>3, ReplaceType DEF PublishFails, TypeOK
    <3>2. troubles' \in 0..MaxTroubles
      BY <2>3 DEF PublishFails, TypeOK
    <3> QED
      BY <2>3, <3>1, <3>2, AnswerType DEF PublishFails, TypeOK
  <2> QED
    BY <1>6, <2>1, <2>2, <2>3 DEF Serve
<1>7. ASSUME Crash PROVE TypeOK'
  <2>1. /\ active' \in [Protocols -> SUBSET Rule]
        /\ served' \in [Protocols -> Seq(Publication)]
    BY <1>7, ReplaceType DEF Crash, TypeOK
  <2>2. client' \in [Clients -> Client]
    <3>1. ASSUME NEW c \in Clients
          PROVE  /\ client[c] \in Client
                 /\ [client[c] EXCEPT !.pc = "dead"] \in Client
      <4>1. client[c] \in Client
        BY DEF TypeOK
      <4> QED
        BY <4>1 DEF Client
    <3>2. PICK callers \in SUBSET {c \in Clients : At(c, "work")} :
            client' = [c \in Clients |->
                         IF At(c, "wait") \/ c \in callers
                         THEN [client[c] EXCEPT !.pc = "dead"] ELSE client[c]]
      BY <1>7 DEF Crash
    <3>3. ASSUME NEW c \in Clients PROVE client'[c] \in Client
      <4>1. client'[c] = IF At(c, "wait") \/ c \in callers
                         THEN [client[c] EXCEPT !.pc = "dead"] ELSE client[c]
        BY <3>2, Zenon
      <4> QED
        BY <4>1, <3>1, Zenon
    <3> QED
      BY <3>2, <3>3, Zenon
  <2>3. troubles' \in 0..MaxTroubles /\ keys' \in KeySets
    BY <1>7 DEF Crash, TypeOK
  <2> QED
    BY <1>7, <2>1, <2>2, <2>3 DEF Crash, TypeOK
<1>8. CASE UNCHANGED vars
  BY <1>8 DEF vars, TypeOK
<1> QED
  BY <1>1, <1>2, <1>3, <1>4, <1>5, <1>6, <1>7, <1>8 DEF Next

LEMMA TypeInit == Init => TypeOK
BY DEF Init, TypeOK, NewClient, Client

(* The outcomes, the rules, the requests and the clients keep their types,
   and the keys stay those of the environment through every restart. *)
THEOREM SolverTypeCorrect == Spec => []TypeOK
BY TypeInit, TypeStep, PTL DEF Spec
-----------------------------------------------------------------------------
(* The invariant: who has a request in flight waits for it or is dead, and *)
(* has one only; what an analysis has to handle is still to do, done, or   *)
(* in flight; publishers have begun; what was done before an analysis      *)
(* began is done.                                                          *)
InFlightWaits == \A q \in requests : client[q.by].pc \in {"wait", "dead"}

OneRequestEach == \A q, r \in requests : q.by = r.by => q = r

InFlight(c, p) == \E q \in requests : q.by = c /\ q.to = p

PageHandled ==
  \A a \in Analyzers :
    /\ At(a, "done") => client[a].left = {}
    /\ \A p \in Protocols : client[a].n[p] > 0 =>
         \/ client[a].pc \in {"idle", "refused", "dead"}
         \/ p \in client[a].left
         \/ ReplacedBy(a, p)
         \/ At(a, "wait") /\ InFlight(a, p)

PublishersBegan ==
  \A p \in Protocols : \A i \in DOMAIN served[p] : ~At(served[p][i].by, "idle")

BeforeIsDone == \A a \in Analyzers : \A b \in before[a] : At(b, "done")

LoopInv == /\ TypeOK
           /\ InFlightWaits /\ OneRequestEach /\ PageHandled
           /\ PublishersBegan /\ BeforeIsDone
           /\ NewerAnalysisWins

(* What a change of one client's pc leaves alone. *)
LEMMA PcFields ==
  ASSUME TypeOK, NEW c \in Clients, NEW pc,
         client' = [client EXCEPT ![c].pc = pc]
  PROVE  \A d \in Clients : /\ client'[d].pc = IF d = c THEN pc ELSE client[d].pc
                            /\ client'[d].n = client[d].n
                            /\ client'[d].left = client[d].left
<1>1. client \in [Clients -> Client]
  BY DEF TypeOK
<1>2. ASSUME NEW d \in Clients
      PROVE  /\ client'[d].pc = IF d = c THEN pc ELSE client[d].pc
             /\ client'[d].n = client[d].n
             /\ client'[d].left = client[d].left
  <2>1. client[d] \in Client
    BY <1>1
  <2>2. CASE d = c
    <3>1. client'[d] = [client[d] EXCEPT !.pc = pc]
      BY <1>1, <2>2
    <3> QED
      BY <2>1, <2>2, <3>1 DEF Client
  <2>3. CASE d # c
    BY <1>1, <2>3
  <2> QED
    BY <2>2, <2>3
<1> QED
  BY <1>2

LEMMA RequestFields ==
  ASSUME TypeOK, NEW q \in requests
  PROVE  q.by \in Clients /\ q.to \in Protocols /\ q.size \in 0..MaxRules
BY DEF TypeOK, Request

LEMMA ServedFields ==
  ASSUME TypeOK, NEW p \in Protocols
  PROVE  /\ served[p] \in Seq(Publication)
         /\ \A i \in DOMAIN served[p] : served[p][i].by \in Clients
<1>1. served[p] \in Seq(Publication)
  BY DEF TypeOK
<1>2. \A i \in DOMAIN served[p] : served[p][i] \in Publication
  BY <1>1
<1> QED
  BY <1>1, <1>2 DEF Publication

LEMMA FetchKeeps ==
  ASSUME LoopInv, NEW a \in Analyzers, FetchOutcomes(a)
  PROVE  /\ InFlightWaits' /\ OneRequestEach' /\ PageHandled'
         /\ PublishersBegan' /\ BeforeIsDone' /\ NewerAnalysisWins'
<1> USE DEF LoopInv
<1> DEFINE n == [p \in Protocols |-> Cardinality(OnPage(p))]
           left == {p \in Protocols : OnPage(p) # {}}
           pc == IF outcomes = << >> THEN "done" ELSE "work"
<1>1. a \in Clients /\ client \in [Clients -> Client]
  BY DEF Clients, TypeOK
<1>2. client' = [client EXCEPT ![a] = [pc |-> pc, n |-> n, left |-> left]]
  BY DEF FetchOutcomes
<1>3. /\ client'[a] = [pc |-> pc, n |-> n, left |-> left]
      /\ \A c \in Clients : c # a => client'[c] = client[c]
  BY <1>1, <1>2
<1>4. /\ At(a, "idle") /\ requests' = requests /\ served' = served
      /\ before' = [before EXCEPT ![a] = {b \in Analyzers : At(b, "done")}]
  BY DEF FetchOutcomes, lakeVars
<1>5. \A q \in requests : q.by \in Clients /\ q.by # a
  BY <1>4, RequestFields DEF InFlightWaits, At
<1>6. InFlightWaits' /\ OneRequestEach'
  BY <1>3, <1>4, <1>5 DEF InFlightWaits, OneRequestEach
<1>7. PageHandled'
  <2>1. ASSUME NEW p \in Protocols, n[p] > 0 PROVE p \in left
    BY <2>1, PageCounts
  <2>2. outcomes = << >> => left = {}
    BY DEF OnPage
  <2>3. At(a, "done")' => client'[a].left = {}
    BY <1>3, <2>2 DEF At
  <2>4. \A p \in Protocols : client'[a].n[p] > 0 => p \in client'[a].left
    BY <1>3, <2>1
  <2>5. ASSUME NEW b \in Analyzers, b # a
        PROVE  client'[b] = client[b]
    BY <1>3, <2>5 DEF Clients
  <2>6. \A c, p : InFlight(c, p)' = InFlight(c, p) /\ ReplacedBy(c, p)' = ReplacedBy(c, p)
    BY <1>4 DEF InFlight, ReplacedBy
  <2> QED
    BY <2>3, <2>4, <2>5, <2>6 DEF PageHandled, At
<1>8. \A p \in Protocols : \A i \in DOMAIN served[p] :
        served[p][i].by \in Clients /\ served[p][i].by # a
  BY <1>4, ServedFields DEF PublishersBegan
<1>9. PublishersBegan'
  BY <1>3, <1>4, <1>8 DEF PublishersBegan, At
<1>10. BeforeIsDone'
  <2>1. ASSUME NEW b \in Analyzers, At(b, "done") PROVE At(b, "done")'
    BY <1>3, <1>4, <2>1 DEF At, Clients
  <2>2. before \in [Analyzers -> SUBSET Analyzers]
    BY DEF TypeOK
  <2> QED
    BY <1>4, <2>1, <2>2 DEF BeforeIsDone
<1>11. NewerAnalysisWins'
  <2>1. before \in [Analyzers -> SUBSET Analyzers]
    BY DEF TypeOK
  <2>2. \A b \in Analyzers : b # a => before'[b] = before[b]
    BY <1>4, <2>1
  <2> QED
    BY <1>4, <1>8, <2>2 DEF NewerAnalysisWins
<1> QED
  BY <1>6, <1>7, <1>9, <1>10, <1>11

LEMMA PostKeeps ==
  ASSUME LoopInv, NEW c \in Clients, NEW p \in Protocols, NEW size, NEW heard,
         client[c].pc \in {"idle", "work"},
         c \in Analyzers => client[c].pc = "work",
         Post(c, p, size, heard)
  PROVE  /\ InFlightWaits' /\ OneRequestEach' /\ PageHandled'
         /\ PublishersBegan' /\ BeforeIsDone' /\ NewerAnalysisWins'
<1> USE DEF LoopInv
<1> DEFINE new == [by |-> c, to |-> p, size |-> size, heard |-> heard]
<1>1. /\ requests' = requests \cup {new}
      /\ served' = served /\ before' = before
      /\ client' = [client EXCEPT ![c].pc = "wait", ![c].left = @ \ {p}]
  BY DEF Post, lakeVars
<1>2. client \in [Clients -> Client] /\ client[c] \in Client
  BY DEF TypeOK
<1>3. client'[c] = [client[c] EXCEPT !.pc = "wait", !.left = @ \ {p}]
  BY <1>1, <1>2
<1>4. /\ client'[c].pc = "wait"
      /\ client'[c].n = client[c].n
      /\ client'[c].left = client[c].left \ {p}
  BY <1>2, <1>3 DEF Client
<1>5. \A d \in Clients : d # c => client'[d] = client[d]
  BY <1>1, <1>2
<1>6. \A q \in requests : q.by \in Clients /\ q.by # c
  BY RequestFields DEF InFlightWaits
<1>7. new.by = c /\ new.to = p
  OBVIOUS
<1> HIDE DEF new
<1>8. InFlightWaits' /\ OneRequestEach'
  <2>1. InFlightWaits'
    BY <1>1, <1>4, <1>5, <1>6, <1>7 DEF InFlightWaits
  <2>2. ASSUME NEW q \in requests', NEW r \in requests', q.by = r.by
        PROVE  q = r
    BY <1>1, <1>6, <1>7, <2>2 DEF OneRequestEach
  <2> QED
    BY <2>1, <2>2 DEF OneRequestEach
<1>9. \A d, u : ReplacedBy(d, u)' = ReplacedBy(d, u)
  BY <1>1 DEF ReplacedBy
<1>10. \A d, u : InFlight(d, u) => InFlight(d, u)'
  BY <1>1 DEF InFlight
<1>11. InFlight(c, p)'
  BY <1>1, <1>7 DEF InFlight
<1>12. PageHandled'
  <2>1. ASSUME NEW a \in Analyzers, a # c PROVE client'[a] = client[a]
    BY <1>5, <2>1 DEF Clients
  <2>2. ASSUME c \in Analyzers, NEW u \in Protocols, client'[c].n[u] > 0
        PROVE  \/ u \in client'[c].left
               \/ ReplacedBy(c, u)'
               \/ InFlight(c, u)'
    BY <1>4, <1>9, <1>11, <2>2 DEF PageHandled, At
  <2> QED
    BY <1>4, <1>9, <1>10, <2>1, <2>2 DEF PageHandled, At
<1>13. PublishersBegan'
  <2>1. ASSUME NEW u \in Protocols, NEW i \in DOMAIN served[u]
        PROVE  client'[served[u][i].by].pc # "idle"
    BY <1>4, <1>5, ServedFields DEF PublishersBegan, At
  <2> QED
    BY <1>1, <2>1 DEF PublishersBegan, At
<1>14. BeforeIsDone'
  <2>1. before \in [Analyzers -> SUBSET Analyzers]
    BY DEF TypeOK
  <2> QED
    BY <1>1, <1>5, <2>1 DEF BeforeIsDone, At, Clients
<1>15. NewerAnalysisWins'
  BY <1>1 DEF NewerAnalysisWins
<1> QED
  BY <1>8, <1>12, <1>13, <1>14, <1>15

LEMMA HearKeeps ==
  ASSUME LoopInv, NEW c \in Clients, Hear(c)
  PROVE  /\ InFlightWaits' /\ OneRequestEach' /\ PageHandled'
         /\ PublishersBegan' /\ BeforeIsDone' /\ NewerAnalysisWins'
<1> USE DEF LoopInv
<1>1. requests' = requests /\ served' = served /\ before' = before
  BY DEF Hear, CarryOn, GiveUp, lakeVars
<1>2. PICK pc :
        /\ client' = [client EXCEPT ![c].pc = pc]
        /\ \/ pc = "dead" /\ client[c].pc \in {"wait", "accepted", "refused"}
           \/ pc = "work" /\ At(c, "accepted")
           \/ pc = "done" /\ At(c, "accepted") /\ client[c].left = {}
  BY DEF Hear, CarryOn, GiveUp, GoTo
<1>3. \A d \in Clients : /\ client'[d].pc = IF d = c THEN pc ELSE client[d].pc
                         /\ client'[d].n = client[d].n
                         /\ client'[d].left = client[d].left
  BY <1>2, PcFields
<1>4. At(c, "accepted") => \A q \in requests : q.by # c
  BY DEF InFlightWaits, At
<1>5. InFlightWaits' /\ OneRequestEach'
  BY <1>1, <1>2, <1>3, <1>4, RequestFields DEF InFlightWaits, OneRequestEach
<1>6. PageHandled'
  <2>1. \A d, u : /\ ReplacedBy(d, u)' = ReplacedBy(d, u)
                 /\ InFlight(d, u)' = InFlight(d, u)
    BY <1>1 DEF ReplacedBy, InFlight
  <2> QED
    BY <1>2, <1>3, <2>1 DEF PageHandled, At, Clients
<1>7. PublishersBegan'
  <2>1. ASSUME NEW u \in Protocols, NEW i \in DOMAIN served[u]
        PROVE  client'[served[u][i].by].pc # "idle"
    BY <1>2, <1>3, ServedFields DEF PublishersBegan, At
  <2> QED
    BY <1>1, <2>1 DEF PublishersBegan, At
<1>8. BeforeIsDone'
  <2>1. before \in [Analyzers -> SUBSET Analyzers]
    BY DEF TypeOK
  <2> QED
    BY <1>1, <1>2, <1>3, <2>1 DEF BeforeIsDone, At, Clients
<1>9. NewerAnalysisWins'
  BY <1>1 DEF NewerAnalysisWins
<1> QED
  BY <1>5, <1>6, <1>7, <1>8, <1>9

(* A replacement adds one publication, at the end of what was served. *)
LEMMA ReplaceServes ==
  ASSUME TypeOK, NEW q \in requests, NEW k, Replace(q, k)
  PROVE  /\ \A p \in Protocols : p # q.to => served'[p] = served[p]
         /\ Len(served'[q.to]) = Len(served[q.to]) + 1
         /\ DOMAIN served'[q.to] = 1..(Len(served[q.to]) + 1)
         /\ \A i \in 1..Len(served[q.to]) : served'[q.to][i] = served[q.to][i]
         /\ served'[q.to][Len(served[q.to]) + 1]
              = [by |-> q.by, size |-> q.size, kept |-> k]
<1>1. q.to \in Protocols
  BY RequestFields
<1>2. served[q.to] \in Seq(Publication)
  BY <1>1, ServedFields
<1>3. served'[q.to] = Append(served[q.to],
                             [by |-> q.by, size |-> q.size, kept |-> k])
  BY <1>1 DEF Replace, TypeOK
<1>4. \A p \in Protocols : p # q.to => served'[p] = served[p]
  BY <1>1 DEF Replace, TypeOK
<1> QED
  BY <1>2, <1>3, <1>4

(* Serving one request of a client that is not idle and not done keeps what
   the invariant says of the publications. *)
LEMMA ReplaceKeeps ==
  ASSUME LoopInv, NEW q \in requests, NEW k, Replace(q, k),
         before' = before
  PROVE  /\ \A p \in Protocols : \A i \in DOMAIN served'[p] :
              /\ served'[p][i].by \in Clients
              /\ ~At(served'[p][i].by, "idle")
         /\ \A a, p : p \in Protocols /\ ReplacedBy(a, p) => ReplacedBy(a, p)'
         /\ ReplacedBy(q.by, q.to)'
         /\ NewerAnalysisWins'
<1> USE DEF LoopInv
<1> DEFINE len == Len(served[q.to])
           new == [by |-> q.by, size |-> q.size, kept |-> k]
<1>1. q.by \in Clients /\ q.to \in Protocols
  BY RequestFields
<1>2. /\ served[q.to] \in Seq(Publication)
      /\ len \in Nat /\ DOMAIN served[q.to] = 1..len
  BY <1>1, ServedFields
<1>3. /\ \A p \in Protocols : p # q.to => served'[p] = served[p]
      /\ DOMAIN served'[q.to] = 1..(len + 1)
      /\ \A i \in 1..len : served'[q.to][i] = served[q.to][i]
      /\ served'[q.to][len + 1] = new
  BY ReplaceServes
<1>4. new.by = q.by /\ new.size = q.size /\ new.kept = k
  OBVIOUS
<1> HIDE DEF len, new
<1>5. client[q.by].pc \in {"wait", "dead"}
  BY DEF InFlightWaits
<1>6. ASSUME NEW p \in Protocols, NEW i \in DOMAIN served'[p]
      PROVE  /\ served'[p][i].by \in Clients
             /\ ~At(served'[p][i].by, "idle")
  <2>1. CASE p = q.to /\ i = len + 1
    BY <1>1, <1>3, <1>4, <1>5, <2>1 DEF At
  <2>2. CASE ~(p = q.to /\ i = len + 1)
    <3>1. i \in DOMAIN served[p] /\ served'[p][i] = served[p][i]
      BY <1>2, <1>3, <2>2
    <3> QED
      BY <3>1, ServedFields DEF PublishersBegan
  <2> QED
    BY <2>1, <2>2
<1>7. ASSUME NEW a, NEW p \in Protocols, ReplacedBy(a, p)
      PROVE  ReplacedBy(a, p)'
  <2>1. PICK i \in DOMAIN served[p] : served[p][i].by = a
    BY <1>7 DEF ReplacedBy
  <2>2. i \in DOMAIN served'[p] /\ served'[p][i] = served[p][i]
    BY <1>2, <1>3, <2>1
  <2> QED
    BY <2>1, <2>2 DEF ReplacedBy
<1>8. ReplacedBy(q.by, q.to)'
  <2>1. len + 1 \in DOMAIN served'[q.to]
    BY <1>2, <1>3
  <2> QED
    BY <1>3, <1>4, <2>1 DEF ReplacedBy
<1>9. NewerAnalysisWins'
  <2> SUFFICES ASSUME NEW p \in Protocols,
                      NEW i \in DOMAIN served'[p], NEW j \in DOMAIN served'[p],
                      i < j, served'[p][i].by \in Analyzers
               PROVE  served'[p][j].by \notin before[served'[p][i].by]
    BY DEF NewerAnalysisWins
  <2>1. CASE p = q.to /\ j = len + 1
    <3>1. served'[p][j].by = q.by
      BY <1>3, <1>4, <2>1
    <3>2. ~At(q.by, "done")
      BY <1>5 DEF At
    <3> QED
      BY <3>1, <3>2 DEF BeforeIsDone
  <2>2. CASE ~(p = q.to /\ j = len + 1)
    <3>1. j \in DOMAIN served[p] /\ served'[p][j] = served[p][j]
      BY <1>2, <1>3, <2>2
    <3>2. i \in DOMAIN served[p] /\ served'[p][i] = served[p][i]
      <4>1. CASE p = q.to
        BY <1>2, <1>3, <2>2, <4>1, <3>1
      <4>2. CASE p # q.to
        BY <1>3, <4>2
      <4> QED
        BY <4>1, <4>2
    <3> QED
      BY <3>1, <3>2 DEF NewerAnalysisWins
  <2> QED
    BY <2>1, <2>2
<1> QED
  BY <1>6, <1>7, <1>8, <1>9

LEMMA AnswerKeeps ==
  ASSUME LoopInv, NEW q \in requests, NEW pc \in {"accepted", "refused"},
         Answer(q, pc), before' = before,
         \A p \in Protocols : \A i \in DOMAIN served'[p] :
           served'[p][i].by \in Clients /\ ~At(served'[p][i].by, "idle"),
         \A a, p : p \in Protocols /\ ReplacedBy(a, p) => ReplacedBy(a, p)',
         pc = "accepted" => ReplacedBy(q.by, q.to)'
  PROVE  /\ InFlightWaits' /\ OneRequestEach' /\ PageHandled'
         /\ PublishersBegan' /\ BeforeIsDone'
<1> USE DEF LoopInv
<1>1. q.by \in Clients /\ q.to \in Protocols
  BY RequestFields
<1>2. requests' = requests \ {q}
  BY DEF Answer
<1>3. client[q.by].pc \in {"wait", "dead"}
  BY DEF InFlightWaits
<1>4. \A r \in requests : r.by \in Clients /\ (r.by = q.by => r = q)
  BY RequestFields DEF OneRequestEach
<1>5. \A d \in Clients :
        /\ client'[d].pc = IF d = q.by /\ At(d, "wait") THEN pc ELSE client[d].pc
        /\ client'[d].n = client[d].n
        /\ client'[d].left = client[d].left
  <2>1. CASE At(q.by, "wait")
    <3>1. client' = [client EXCEPT ![q.by].pc = pc]
      BY <2>1 DEF Answer
    <3> QED
      <4>1. \A d \in Clients :
              /\ client'[d].pc = IF d = q.by THEN pc ELSE client[d].pc
              /\ client'[d].n = client[d].n
              /\ client'[d].left = client[d].left
        BY <1>1, <3>1, PcFields
      <4> QED
        BY <2>1, <4>1 DEF At
  <2>2. CASE ~At(q.by, "wait")
    BY <2>2 DEF Answer
  <2> QED
    BY <2>1, <2>2
<1>6. InFlightWaits'
  BY <1>2, <1>4, <1>5 DEF InFlightWaits
<1>7. OneRequestEach'
  BY <1>2 DEF OneRequestEach
<1>8. PageHandled'
  <2>1. ASSUME NEW a \in Analyzers, NEW p \in Protocols, InFlight(a, p)
        PROVE  InFlight(a, p)' \/ (a = q.by /\ p = q.to)
    BY <1>2, <1>4, <2>1 DEF InFlight
  <2>2. ASSUME NEW a \in Analyzers
        PROVE  /\ a \in Clients
               /\ At(a, "done")' => client'[a].left = {}
    BY <1>3, <1>5 DEF PageHandled, At, Clients
  <2>3. ASSUME NEW a \in Analyzers, NEW p \in Protocols, client'[a].n[p] > 0
        PROVE  \/ client'[a].pc \in {"idle", "refused", "dead"}
               \/ p \in client'[a].left
               \/ ReplacedBy(a, p)'
               \/ At(a, "wait")' /\ InFlight(a, p)'
    <3>1. CASE a = q.by /\ At(a, "wait")
      <4>1. \A u : InFlight(a, u) => u = q.to
        BY <1>4, <3>1 DEF InFlight
      <4> QED
        BY <1>5, <2>2, <2>3, <3>1, <4>1 DEF PageHandled, At
    <3>2. CASE ~(a = q.by /\ At(a, "wait"))
      <4>1. client'[a].pc = client[a].pc
        BY <1>5, <2>2, <3>2
      <4> QED
        BY <1>5, <2>1, <2>2, <2>3, <3>2, <4>1 DEF PageHandled, At
    <3> QED
      BY <3>1, <3>2
  <2> QED
    BY <2>2, <2>3 DEF PageHandled
<1>9. PublishersBegan'
  <2>1. ASSUME NEW u \in Protocols, NEW i \in DOMAIN served'[u]
        PROVE  client'[served'[u][i].by].pc # "idle"
    BY <1>5 DEF At
  <2> QED
    BY <2>1 DEF PublishersBegan, At
<1>10. BeforeIsDone'
  <2>1. before \in [Analyzers -> SUBSET Analyzers]
    BY DEF TypeOK
  <2>2. ASSUME NEW b \in Analyzers, At(b, "done") PROVE At(b, "done")'
    BY <1>5, <2>2 DEF At, Clients
  <2> QED
    BY <2>1, <2>2 DEF BeforeIsDone
<1> QED
  BY <1>6, <1>7, <1>8, <1>9, <1>10

LEMMA ServedUnchanged ==
  ASSUME LoopInv, served' = served, before' = before
  PROVE  /\ \A p \in Protocols : \A i \in DOMAIN served'[p] :
              served'[p][i].by \in Clients /\ ~At(served'[p][i].by, "idle")
         /\ \A a, p : p \in Protocols /\ ReplacedBy(a, p) => ReplacedBy(a, p)'
         /\ NewerAnalysisWins'
BY ServedFields DEF LoopInv, PublishersBegan, ReplacedBy, NewerAnalysisWins

LEMMA ServeKeeps ==
  ASSUME LoopInv, NEW q \in requests, Serve(q)
  PROVE  /\ InFlightWaits' /\ OneRequestEach' /\ PageHandled'
         /\ PublishersBegan' /\ BeforeIsDone' /\ NewerAnalysisWins'
<1>1. before' = before
  BY DEF Serve, Reject, Publish, PublishFails
<1>2. CASE Answer(q, "refused") /\ served' = served
  BY <1>1, <1>2, ServedUnchanged, AnswerKeeps
<1>3. CASE Answer(q, "accepted") /\ Replace(q, q.size)
  BY <1>1, <1>3, ReplaceKeeps, AnswerKeeps
<1>4. ASSUME NEW k, Answer(q, "refused"), Replace(q, k)
      PROVE  /\ InFlightWaits' /\ OneRequestEach' /\ PageHandled'
             /\ PublishersBegan' /\ BeforeIsDone' /\ NewerAnalysisWins'
  BY <1>1, <1>4, ReplaceKeeps, AnswerKeeps
<1>5. \/ Answer(q, "refused") /\ served' = served
      \/ Answer(q, "accepted") /\ Replace(q, q.size)
      \/ \E k : Answer(q, "refused") /\ Replace(q, k)
  BY DEF Serve, Reject, Publish, PublishFails, lakeVars
<1> QED
  BY <1>2, <1>3, <1>4, <1>5

LEMMA CrashKeeps ==
  ASSUME LoopInv, Crash
  PROVE  /\ InFlightWaits' /\ OneRequestEach' /\ PageHandled'
         /\ PublishersBegan' /\ BeforeIsDone' /\ NewerAnalysisWins'
<1> USE DEF LoopInv
<1>1. before' = before /\ requests' = {}
  BY DEF Crash
<1>2. PICK callers \in SUBSET {c \in Clients : At(c, "work")} :
        client' = [c \in Clients |->
                     IF At(c, "wait") \/ c \in callers
                     THEN [client[c] EXCEPT !.pc = "dead"] ELSE client[c]]
  BY DEF Crash
<1>3. ASSUME NEW c \in Clients
      PROVE  /\ \/ client'[c].pc = "dead" /\ client[c].pc \in {"wait", "work"}
                \/ client'[c].pc = client[c].pc /\ ~At(c, "wait")
             /\ client'[c].n = client[c].n
             /\ client'[c].left = client[c].left
  <2>1. client[c] \in Client
    BY DEF TypeOK
  <2>2. CASE At(c, "wait") \/ c \in callers
    <3>1. client'[c] = [client[c] EXCEPT !.pc = "dead"]
      BY <1>2, <2>2
    <3>2. client[c].pc \in {"wait", "work"}
      BY <2>2 DEF At
    <3> QED
      BY <2>1, <3>1, <3>2 DEF Client
  <2>3. CASE ~(At(c, "wait") \/ c \in callers)
    <3>1. client'[c] = client[c]
      BY <1>2, <2>3
    <3> QED
      BY <2>3, <3>1
  <2> QED
    BY <2>2, <2>3
<1>4. /\ \A p \in Protocols : \A i \in DOMAIN served'[p] :
           served'[p][i].by \in Clients /\ ~At(served'[p][i].by, "idle")
      /\ \A a, p : p \in Protocols /\ ReplacedBy(a, p) => ReplacedBy(a, p)'
      /\ NewerAnalysisWins'
  <2>1. CASE served' = served
    BY <1>1, <2>1, ServedUnchanged
  <2>2. ASSUME NEW q \in requests, NEW k, Replace(q, k)
        PROVE  <1>4!1
    BY <1>1, <2>2, ReplaceKeeps
  <2> QED
    BY <2>1, <2>2, ReplaceKeeps, <1>1 DEF Crash
<1>5. InFlightWaits' /\ OneRequestEach'
  BY <1>1 DEF InFlightWaits, OneRequestEach
<1>6. PageHandled'
  <2>1. ASSUME NEW a \in Analyzers
        PROVE  /\ a \in Clients
               /\ At(a, "done")' => client'[a].left = {}
    BY <1>3 DEF PageHandled, At, Clients
  <2>2. ASSUME NEW a \in Analyzers, NEW p \in Protocols, client'[a].n[p] > 0
        PROVE  \/ client'[a].pc \in {"idle", "refused", "dead"}
               \/ p \in client'[a].left
               \/ ReplacedBy(a, p)'
    BY <1>3, <1>4, <2>1, <2>2 DEF PageHandled, At
  <2> QED
    BY <2>1, <2>2 DEF PageHandled
<1>7. PublishersBegan'
  <2>1. ASSUME NEW u \in Protocols, NEW i \in DOMAIN served'[u]
        PROVE  client'[served'[u][i].by].pc # "idle"
    BY <1>3, <1>4 DEF At
  <2> QED
    BY <2>1 DEF PublishersBegan, At
<1>8. BeforeIsDone'
  <2>1. before \in [Analyzers -> SUBSET Analyzers]
    BY DEF TypeOK
  <2>2. ASSUME NEW b \in Analyzers, At(b, "done") PROVE At(b, "done")'
    BY <1>3, <2>2 DEF At, Clients
  <2> QED
    BY <1>1, <2>1, <2>2 DEF BeforeIsDone
<1> QED
  BY <1>4, <1>5, <1>6, <1>7, <1>8

LEMMA LoopInit == Init => LoopInv
<1> SUFFICES ASSUME Init PROVE LoopInv
  OBVIOUS
<1>1. TypeOK
  BY TypeInit
<1>2. \A a \in Analyzers : client[a].pc = "idle" /\ before[a] = {}
  BY DEF Init, NewClient, Clients
<1>3. requests = {} /\ \A p \in Protocols : DOMAIN served[p] = {}
  BY DEF Init
<1> QED
  BY <1>1, <1>2, <1>3 DEF LoopInv, InFlightWaits, OneRequestEach, PageHandled,
     PublishersBegan, BeforeIsDone, NewerAnalysisWins, At

LEMMA LoopStep == LoopInv /\ [Next]_vars => LoopInv'
<1> SUFFICES ASSUME LoopInv, [Next]_vars PROVE LoopInv'
  OBVIOUS
<1> DEFINE Rest == /\ InFlightWaits /\ OneRequestEach /\ PageHandled
                   /\ PublishersBegan /\ BeforeIsDone /\ NewerAnalysisWins
<1>1. TypeOK'
  BY TypeStep DEF LoopInv
<1>2. ASSUME UNCHANGED <<requests, client, served, before>> PROVE Rest'
  BY <1>2 DEF LoopInv, InFlightWaits, OneRequestEach, PageHandled,
     PublishersBegan, BeforeIsDone, NewerAnalysisWins, At, ReplacedBy, InFlight
<1>3. ASSUME NEW p \in Protocols, IngestOutcome(p) PROVE Rest'
  BY <1>2, <1>3 DEF IngestOutcome
<1>4. ASSUME NEW a \in Analyzers, FetchOutcomes(a) PROVE Rest'
  BY <1>4, FetchKeeps
<1>5. ASSUME NEW a \in Analyzers, Work(a) PROVE Rest'
  <2>1. a \in Clients /\ client[a].pc = "work"
    BY <1>5 DEF Work, PublishNothing, PublishProposal, At, Clients
  <2>2. PICK p \in Protocols : \E size, heard : Post(a, p, size, heard)
    BY <1>5 DEF Work, PublishNothing, PublishProposal
  <2> QED
    BY <2>1, <2>2, PostKeeps
<1>6. ASSUME NEW o \in Operators, NEW p \in Protocols, OperatorPublishes(o, p)
      PROVE Rest'
  <2>1. o \in Clients /\ o \notin Analyzers
    BY DEF Clients
  <2>2. client[o].pc = "idle" /\ \E size, heard : Post(o, p, size, heard)
    BY <1>6 DEF OperatorPublishes, At
  <2> QED
    BY <2>1, <2>2, PostKeeps
<1>7. ASSUME NEW c \in Clients, Hear(c) PROVE Rest'
  BY <1>7, HearKeeps
<1>8. ASSUME NEW q \in requests, Serve(q) PROVE Rest'
  BY <1>8, ServeKeeps
<1>9. ASSUME Crash PROVE Rest'
  BY <1>9, CrashKeeps
<1>10. ASSUME UNCHANGED vars PROVE Rest'
  BY <1>2, <1>10 DEF vars
<1>11. Rest'
  BY <1>3, <1>4, <1>5, <1>6, <1>7, <1>8, <1>9, <1>10 DEF Next
<1> QED
  BY <1>1, <1>11 DEF LoopInv

(* However analyses and operators overlap, time out and are cut off by a
   crash, an analysis that ended well has replaced the rules of every
   protocol on its page. *)
THEOREM PageIsReplaced == Spec => []DoneReplacedItsPage
<1>1. LoopInv => DoneReplacedItsPage
  BY DEF LoopInv, PageHandled, DoneReplacedItsPage, At
<1> QED
  BY <1>1, LoopInit, LoopStep, PTL DEF Spec

(* A publication never supersedes the rules of an analysis that began after
   its own had ended. *)
THEOREM NewerAnalysisStays == Spec => []NewerAnalysisWins
<1>1. LoopInv => NewerAnalysisWins
  BY DEF LoopInv
<1> QED
  BY <1>1, LoopInit, LoopStep, PTL DEF Spec

-----------------------------------------------------------------------------
(* The active rules. *)

LEMMA ReplaceIsLast ==
  ASSUME TypeOK, ActiveIsLastServed, NEW q \in requests, NEW k,
         Replace(q, k), k < q.size => troubles' > 0,
         troubles' \in Nat, troubles' >= troubles
  PROVE  ActiveIsLastServed'
<1> DEFINE len == Len(served[q.to])
           new == [by |-> q.by, size |-> q.size, kept |-> k]
<1>1. q.by \in Clients /\ q.to \in Protocols
  BY RequestFields
<1>2. served[q.to] \in Seq(Publication) /\ troubles \in Nat
  BY <1>1, ServedFields DEF TypeOK
<1>3. /\ \A p \in Protocols : p # q.to => served'[p] = served[p]
      /\ Len(served'[q.to]) = len + 1
      /\ served'[q.to][len + 1] = new
  BY ReplaceServes
<1>4. new.by = q.by /\ new.size = q.size /\ new.kept = k
  OBVIOUS
<1>5. /\ active'[q.to] = Rules(q.by, k)
      /\ \A p \in Protocols : p # q.to => active'[p] = active[p]
  BY <1>1 DEF Replace, TypeOK
<1>6. len \in Nat
  BY <1>2
<1>7. served'[q.to] # << >> /\ Last(served'[q.to]) = new
  BY <1>3, <1>6 DEF Last
<1> HIDE DEF len, new
<1>8. troubles > 0 => troubles' > 0
  BY <1>2 DEF TypeOK
<1> SUFFICES ASSUME NEW p \in Protocols
             PROVE  IF served'[p] = << >> THEN active'[p] = {}
                    ELSE /\ active'[p] = Rules(Last(served'[p]).by,
                                               Last(served'[p]).kept)
                         /\ Last(served'[p]).kept < Last(served'[p]).size
                              => troubles' > 0
  BY DEF ActiveIsLastServed
<1>9. CASE p = q.to
  BY <1>4, <1>5, <1>7, <1>9
<1>10. CASE p # q.to
  BY <1>3, <1>5, <1>8, <1>10 DEF ActiveIsLastServed
<1> QED
  BY <1>9, <1>10

LEMMA LastServedStep ==
  ASSUME TypeOK, ActiveIsLastServed, [Next]_vars
  PROVE  ActiveIsLastServed'
<1>1. troubles \in Nat /\ troubles' \in Nat
  BY TypeStep DEF TypeOK
<1>2. ASSUME UNCHANGED <<active, served>>, troubles' >= troubles
      PROVE  ActiveIsLastServed'
  <2>1. troubles > 0 => troubles' > 0
    BY <1>1, <1>2
  <2> QED
    BY <1>2, <2>1 DEF ActiveIsLastServed
<1>3. ASSUME NEW q \in requests, Serve(q) PROVE ActiveIsLastServed'
  <2>1. CASE Reject(q)
    BY <1>1, <1>2, <2>1 DEF Reject, lakeVars, serverVars
  <2>2. CASE Publish(q)
    <3>1. q.size \in 0..MaxRules
      BY RequestFields
    <3> QED
      BY <1>1, <2>2, <3>1, ReplaceIsLast DEF Publish, serverVars
  <2>3. CASE PublishFails(q)
    BY <1>1, <1>2, <2>3, ReplaceIsLast DEF PublishFails
  <2> QED
    BY <1>3, <2>1, <2>2, <2>3 DEF Serve
<1>4. ASSUME Crash PROVE ActiveIsLastServed'
  BY <1>1, <1>2, <1>4, ReplaceIsLast DEF Crash
<1>5. CASE ~(Crash \/ \E q \in requests : Serve(q))
  <2>1. UNCHANGED <<active, served, troubles>>
    BY <1>5 DEF Next, vars, IngestOutcome, FetchOutcomes, Work, PublishNothing,
       PublishProposal, OperatorPublishes, Post, Hear, CarryOn, GiveUp,
       lakeVars, serverVars
  <2> QED
    BY <1>1, <1>2, <2>1
<1> QED
  BY <1>3, <1>4, <1>5

(* The active rules of a protocol are one publication, the last that was
   served, whole unless a statement failed or the process died. *)
THEOREM RulesAreLastServed == Spec => []ActiveIsLastServed
<1>1. Init => ActiveIsLastServed
  BY DEF Init, ActiveIsLastServed
<1>2. TypeOK /\ ActiveIsLastServed /\ [Next]_vars => ActiveIsLastServed'
  BY LastServedStep
<1> QED
  BY <1>1, <1>2, SolverTypeCorrect, PTL DEF Spec
=============================================================================
