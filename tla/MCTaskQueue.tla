----------------------------- MODULE MCTaskQueue -----------------------------
(***************************************************************************)
(* Values for TLC.  One tick is about five minutes: the stuck timeout is   *)
(* 15 minutes, the hard timeout 20, clients of nemotron and http-forward   *)
(* give up within one tick, openfang's after an hour.                      *)
(***************************************************************************)
EXTENDS TaskQueue, TLC

CONSTANTS s1, s2, s3

\* At most two of an operator's call, crashes and failing statements; the
\* first and the last together only where a row is lost to them.
TwoTroubles == /\ ops + crashes + faults <= 2
               /\ ops + faults <= 1 \/ \E t \in Tasks : <<t, "row">> \in dropped

SlotSymmetry == Permutations(Slots)

MCClientLimit == [k \in Kinds |-> IF k = "openfang" THEN 4 ELSE 1]

\* A later task may be the more urgent one.
PrioDescending == [t \in Tasks |-> 9 - t]

Claude  == [slugs |-> {}, forward |-> FALSE]
Forward == [slugs |-> {}, forward |-> TRUE]
General == [slugs |-> {"general"}, forward |-> FALSE]
\* A forward to a host of taifoon's: the adapter wins.
Taken   == [slugs |-> {"taifoon", "general"}, forward |-> TRUE]

ModelsMixed    == [t \in Tasks |-> IF t = 1 THEN Claude ELSE General]
ModelsOpenfang == [t \in Tasks |-> Claude]
ModelsDirect   == [t \in Tasks |-> IF t = 2 THEN Forward ELSE Taken]
=============================================================================
