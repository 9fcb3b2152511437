---------------------------- MODULE MCNativeReply ----------------------------
(* NativeReply on a small instance: one lane and one live message.  Symmetry  *)
(* would be sound for the invariants, but not for the liveness property.      *)
EXTENDS NativeReply
=============================================================================
