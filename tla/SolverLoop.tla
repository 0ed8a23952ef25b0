------------------------------ MODULE SolverLoop ------------------------------
(***************************************************************************)
(* The self-learning loop of the solver: outcomes posted to the lake, the  *)
(* weekly analyzer that reads a page of them, asks nemotron for skip rules *)
(* protocol by protocol and publishes what it got, operators who publish   *)
(* by hand, and the replacement of a protocol's active rules.              *)
(*                                                                         *)
(* A request is in flight until the server takes it: its client may have   *)
(* given up by then (urlopen waits thirty seconds, the handler waits for   *)
(* the lake's mutex however long that takes), and several analyzers may    *)
(* overlap.  The mutex makes a publication one action; its statements      *)
(* autocommit, so one that fails or a crash leaves those before it.        *)
(***************************************************************************)
EXTENDS Naturals, Sequences, FiniteSets

CONSTANTS
  Protocols,
  Analyzers,          \* invocations of solver_skip_rules_weekly.py
  Operators,          \* callers who publish a set of their own, once
  KeySets,            \* the keys a server may be started with
  Presents,           \* Presents[c]: the keys client c sends along
  OUTCOME_PAGE, MIN_SAMPLES,
  RuleCap,            \* rules the analyzer keeps per protocol, 2 in the code
  MaxRules,           \* bound: rules of an answer or of an operator's set
  MaxOutcomes,        \* bound: outcomes of a behaviour
  MaxTroubles         \* bound: failing statements and crashes

KeyNames == {"mamba", "grid"}
Clients == Analyzers \cup Operators

ASSUME SolverAssumption ==
  /\ IsFiniteSet(Protocols) /\ IsFiniteSet(Clients)
  /\ Analyzers \cap Operators = {}
  /\ KeySets \subseteq SUBSET KeyNames /\ Presents \in [Clients -> SUBSET KeyNames]
  /\ OUTCOME_PAGE \in Nat \ {0} /\ MIN_SAMPLES \in Nat
  /\ RuleCap \in Nat /\ MaxRules \in Nat /\ RuleCap <= MaxRules
  /\ MaxOutcomes \in Nat /\ MaxTroubles \in Nat

VARIABLES
  outcomes,   \* solver_outcomes, by ts descending: their protocols
  active,     \* solver_skip_rules with active = TRUE, per protocol
  requests,   \* publications in flight
  client,     \* the analyzers and operators
  served,     \* publications that superseded a protocol's rules (history)
  before,     \* before[a]: analyses that were done when a began (history)
  keys,       \* the keys of the running server
  troubles    \* bound used up

vars == <<outcomes, active, requests, client, served, before, keys, troubles>>
lakeVars == <<outcomes, active, served>>
serverVars == <<keys, troubles>>

-----------------------------------------------------------------------------
(* A rule is known by who published it and its place in the set.  `heard`  *)
(* tells whether nemotron's answer held usable rules (history).            *)
Rule == [by : Clients, place : 1..MaxRules]
Rules(c, k) == {[by |-> c, place |-> i] : i \in 1..k}

Request == [by : Clients, to : Protocols, size : 0..MaxRules,
            heard : {"rules", "nothing"}]
Publication == [by : Clients, size : 0..MaxRules, kept : 0..MaxRules]

\* n[p] is the rollup's n_total, left the protocols still to be handled.
Client == [pc : {"idle", "work", "wait", "accepted", "refused", "done", "dead"},
           n : [Protocols -> Nat], left : SUBSET Protocols]
NewClient == [pc |-> "idle", n |-> [p \in Protocols |-> 0], left |-> {}]

TypeOK ==
  /\ outcomes \in Seq(Protocols)
  /\ active \in [Protocols -> SUBSET Rule]
  /\ requests \subseteq Request
  /\ client \in [Clients -> Client]
  /\ served \in [Protocols -> Seq(Publication)]
  /\ before \in [Analyzers -> SUBSET Analyzers]
  /\ keys \in KeySets /\ troubles \in 0..MaxTroubles

Init ==
  /\ outcomes = << >>
  /\ active = [p \in Protocols |-> {}]
  /\ requests = {}
  /\ client = [c \in Clients |-> NewClient]
  /\ served = [p \in Protocols |-> << >>]
  /\ before = [a \in Analyzers |-> {}]
  /\ keys \in KeySets /\ troubles = 0

At(c, pc) == client[c].pc = pc
GoTo(c, pc) == client' = [client EXCEPT ![c].pc = pc]

-----------------------------------------------------------------------------
(* Outcomes: POST /api/solver/outcomes.                                    *)

\* The poster gives ts: a late report lands among the older rows.
IngestOutcome(p) ==
  /\ Len(outcomes) < MaxOutcomes
  /\ \E i \in 0..Len(outcomes) :
       outcomes' = SubSeq(outcomes, 1, i) \o <<p>>
                     \o SubSeq(outcomes, i + 1, Len(outcomes))
  /\ UNCHANGED <<active, requests, client, served, before, serverVars>>

-----------------------------------------------------------------------------
(* The analyzer.                                                           *)

\* ORDER BY ts DESC LIMIT OUTCOME_PAGE
OnPage(p) == {i \in 1..Len(outcomes) : i <= OUTCOME_PAGE /\ outcomes[i] = p}

\* fetch_outcomes and summarize.
FetchOutcomes(a) ==
  /\ At(a, "idle")
  /\ LET n == [p \in Protocols |-> Cardinality(OnPage(p))] IN
     client' = [client EXCEPT
       ![a] = [pc |-> IF outcomes = << >> THEN "done" ELSE "work",
               n |-> n, left |-> {p \in Protocols : OnPage(p) # {}}]]
  /\ before' = [before EXCEPT ![a] = {b \in Analyzers : At(b, "done")}]
  /\ UNCHANGED <<lakeVars, requests, serverVars>>

\* What POST /api/nemotron/:model/generate sends back: a GenerateResponse,
\* whose text is in `response`, or an error (a model name with a slash in it
\* does not even match the route).
Answers == [field : {"response"}, rules : 0..MaxRules]
             \cup {[field |-> "error", rules |-> 0]}

LeastOf(x, y) == IF x <= y THEN x ELSE y

\* propose_rules looks for the text under `text` or `output`, which no answer
\* has, and errors and what is no JSON become no rules: every analyzer
\* publishes empty sets.  validate_rules would keep the first RuleCap.
ProposeRules(answer) ==
  IF answer.field \in {"text", "output"} THEN LeastOf(answer.rules, RuleCap)
                                         ELSE 0

Post(c, p, size, heard) ==
  /\ requests' = requests \cup
       {[by |-> c, to |-> p, size |-> size, heard |-> heard]}
  /\ client' = [client EXCEPT ![c].pc = "wait", ![c].left = @ \ {p}]
  /\ UNCHANGED <<lakeVars, before, serverVars>>

\* Faulty variant: a protocol with too few samples is passed over.
PublishNothing_Skips(a, p) ==
  /\ At(a, "work") /\ p \in client[a].left
  /\ client[a].n[p] < MIN_SAMPLES
  /\ client' = [client EXCEPT
       ![a].left = @ \ {p},
       ![a].pc = IF client[a].left = {p} THEN "done" ELSE "work"]
  /\ UNCHANGED <<lakeVars, requests, before, serverVars>>

\* Too few samples: the empty set is published without asking.
PublishNothing(a, p) ==
  /\ At(a, "work") /\ p \in client[a].left
  /\ client[a].n[p] < MIN_SAMPLES
  /\ Post(a, p, 0, "nothing")

PublishProposal(a, p) ==
  /\ At(a, "work") /\ p \in client[a].left
  /\ client[a].n[p] >= MIN_SAMPLES
  /\ \E answer \in Answers :
       Post(a, p, ProposeRules(answer),
            IF answer.rules > 0 THEN "rules" ELSE "nothing")

\* An operator's own POST of a rule set.
OperatorPublishes(o, p) ==
  /\ At(o, "idle")
  /\ \E k \in 0..MaxRules : Post(o, p, k, "nothing")

\* The answer arrived: the next protocol, or the end.
CarryOn(c) ==
  /\ At(c, "accepted")
  /\ GoTo(c, IF client[c].left = {} THEN "done" ELSE "work")
  /\ UNCHANGED <<lakeVars, requests, before, serverVars>>

\* Faulty variant: a publication that fails is logged and passed over.
GiveUp_CarriesOn(c) ==
  /\ client[c].pc \in {"wait", "accepted", "refused"}
  /\ GoTo(c, IF client[c].left = {} THEN "done" ELSE "work")
  /\ UNCHANGED <<lakeVars, requests, before, serverVars>>

\* 401, 500 or no answer in time: http raises, nobody catches it in publish
\* and the script dies.  Its request may be on its way all the same.
GiveUp(c) ==
  /\ client[c].pc \in {"wait", "accepted", "refused"}
  /\ GoTo(c, "dead")
  /\ UNCHANGED <<lakeVars, requests, before, serverVars>>

-----------------------------------------------------------------------------
(* The server: POST /api/solver/skip-rules.                                *)

\* require_api_key; no key configured means open mode.
Admitted(c) == keys = {} \/ keys \cap Presents[c] # {}

\* The request is over; its client hears of it if it is still there.
Answer(q, pc) ==
  /\ requests' = requests \ {q}
  /\ client' = IF At(q.by, "wait")
               THEN [client EXCEPT ![q.by].pc = pc] ELSE client

Reject(q) ==
  /\ ~Admitted(q.by)
  /\ Answer(q, "refused")
  /\ UNCHANGED <<lakeVars, before, serverVars>>

\* Faulty variant: the INSERTs without the UPDATE before them.
Replace_KeepsOld(q, k) ==
  /\ active' = [active EXCEPT ![q.to] = @ \cup Rules(q.by, k)]
  /\ served' = [served EXCEPT
       ![q.to] = Append(@, [by |-> q.by, size |-> q.size, kept |-> k])]

\* replace_skip_rules as far as its k-th INSERT.
Replace(q, k) ==
  /\ active' = [active EXCEPT ![q.to] = Rules(q.by, k)]
  /\ served' = [served EXCEPT
       ![q.to] = Append(@, [by |-> q.by, size |-> q.size, kept |-> k])]

Publish(q) ==
  /\ Admitted(q.by)
  /\ Replace(q, q.size)
  /\ Answer(q, "accepted")
  /\ UNCHANGED <<outcomes, before, serverVars>>

\* A statement fails, the UPDATE or one of the INSERTs after it: 500.
PublishFails(q) ==
  /\ Admitted(q.by) /\ troubles < MaxTroubles
  /\ \/ UNCHANGED <<active, served>>
     \/ \E k \in 0..MaxRules : k < q.size /\ Replace(q, k)
  /\ Answer(q, "refused")
  /\ troubles' = troubles + 1
  /\ UNCHANGED <<outcomes, before, keys>>

\* Faulty variant: the keys are not read again, which means open mode.
Crash_Open ==
  /\ troubles < MaxTroubles
  /\ requests' = {}
  /\ client' = [c \in Clients |-> IF At(c, "wait")
                                THEN [client[c] EXCEPT !.pc = "dead"]
                                ELSE client[c]]
  /\ troubles' = troubles + 1
  /\ keys' = {}
  /\ UNCHANGED <<lakeVars, before>>

\* The process dies, perhaps inside a publication, and starts again, perhaps
\* with other keys.  What was in flight is gone, who waited gets an error,
\* and so does who calls before it is up.
Crash ==
  /\ troubles < MaxTroubles
  /\ \/ UNCHANGED <<active, served>>
     \/ \E q \in requests, k \in 0..MaxRules :
          Admitted(q.by) /\ k <= q.size /\ Replace(q, k)
  /\ requests' = {}
  /\ \E callers \in SUBSET {c \in Clients : At(c, "work")} :
       client' = [c \in Clients |->
                    IF At(c, "wait") \/ c \in callers
                    THEN [client[c] EXCEPT !.pc = "dead"] ELSE client[c]]
  /\ troubles' = troubles + 1
  /\ keys' \in KeySets
  /\ UNCHANGED <<outcomes, before>>

-----------------------------------------------------------------------------
Work(a) == \E p \in Protocols : PublishNothing(a, p) \/ PublishProposal(a, p)
Hear(c) == CarryOn(c) \/ GiveUp(c)
Serve(q) == Reject(q) \/ Publish(q) \/ PublishFails(q)

Next ==
  \/ \E p \in Protocols : IngestOutcome(p)
  \/ \E a \in Analyzers : FetchOutcomes(a) \/ Work(a)
  \/ \E o \in Operators, p \in Protocols : OperatorPublishes(o, p)
  \/ \E c \in Clients : Hear(c)
  \/ \E q \in requests : Serve(q)
  \/ Crash

Spec == Init /\ [][Next]_vars

-----------------------------------------------------------------------------
(* Properties.                                                             *)

Last(s) == s[Len(s)]

(* "Mark all currently-active rules for `protocol` as superseded, then
   insert `new_rules`" (store.rs:781): whoever publishes, whatever overlaps
   and whenever the process dies, the active rules of a protocol are those
   of one publication, the last that was served, and all of them unless a
   statement failed or the process died. *)
ActiveIsLastServed ==
  \A p \in Protocols :
    IF served[p] = << >> THEN active[p] = {}
    ELSE /\ active[p] = Rules(Last(served[p]).by, Last(served[p]).kept)
         /\ Last(served[p]).kept < Last(served[p]).size => troubles > 0

\* A publication of c replaced the rules of p.
ReplacedBy(c, p) == \E i \in DOMAIN served[p] : served[p][i].by = c

(* Once an analysis is done, the rules of every protocol that had a row on
   its page have been replaced by it: none is older than the analysis.
   (Those of a protocol with no row on the page stay.) *)
DoneReplacedItsPage ==
  \A a \in Analyzers : At(a, "done") =>
    \A p \in Protocols : client[a].n[p] > 0 => ReplacedBy(a, p)

(* An analysis that was done when another began never supersedes its rules:
   no publication of a finished analysis is still on its way.  (One of an
   analyzer that died may be, and lands over whatever is newer.) *)
NewerAnalysisWins ==
  \A p \in Protocols : \A i, j \in DOMAIN served[p] :
    i < j /\ served[p][i].by \in Analyzers =>
      served[p][j].by \notin before[served[p][i].by]

(* "asks `nemotron/taifoon` to synthesize JSON skip-rules, validates them,
   and POSTs the active set" (scripts/README.md:108): an analyzer whose
   answer held usable rules publishes some. *)
AnswersAreUsed ==
  \A q \in requests : q.by \in Analyzers /\ q.heard = "rules" => q.size > 0
=============================================================================
