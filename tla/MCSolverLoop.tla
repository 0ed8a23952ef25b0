---------------------------- MODULE MCSolverLoop ----------------------------
(***************************************************************************)
(* Values for TLC: analyzers send MAMBA_API_KEY, operators the grid key;   *)
(* the server has the grid key and may or may not have the other.          *)
(***************************************************************************)
EXTENDS SolverLoop, TLC

MCPresents == [c \in Clients |-> IF c \in Operators THEN {"grid"}
                                                    ELSE {"mamba"}]

MCKeySets == {{"grid"}, {"grid", "mamba"}}

Alike == Permutations(Protocols) \cup Permutations(Analyzers)
=============================================================================
