------------------------------ MODULE MCApprovals ------------------------------
(* Two requests of one turn, a channel reply and an authenticated call.     *)
EXTENDS Approvals
=============================================================================
