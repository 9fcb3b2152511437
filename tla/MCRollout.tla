------------------------------- MODULE MCRollout -------------------------------
(* One session, with as many turns, compactions, rollbacks and restarts as   *)
(* the bounds allow.                                                         *)
EXTENDS Rollout
=============================================================================
