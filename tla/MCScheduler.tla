---------------------------- MODULE MCScheduler ----------------------------
(***************************************************************************)
(* Values for TLC: an expression that matches every minute and one that    *)
(* matches every other; neither matches after the horizon.                 *)
(***************************************************************************)
EXTENDS Scheduler

CONSTANTS a, b, every, other

MCMatches == [c \in Crons |-> IF c = every THEN 1..Horizon
                              ELSE {m \in 1..Horizon : m % 2 = 1}]
=============================================================================
