------------------------------ MODULE MCWebhooks -----------------------------
(* Values for TLC: requests are alike.                                     *)
EXTENDS Webhooks, TLC

Alike == Permutations(Requests)
=============================================================================
