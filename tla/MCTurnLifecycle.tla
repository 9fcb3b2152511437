--------------------------- MODULE MCTurnLifecycle ---------------------------
(* Instances of TurnLifecycle for TLC; the cfg files give the bounds.         *)
EXTENDS TurnLifecycle
=============================================================================
