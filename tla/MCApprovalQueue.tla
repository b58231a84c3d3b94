-------------------------- MODULE MCApprovalQueue --------------------------
(* The approval queue for TLC: two tools ask for one command, two devices   *)
(* answer.  A rule lives to time 1: granted before it, it may serve a second *)
(* request; granted at or after it, it is dead from the start.              *)
EXTENDS ApprovalQueue

CONSTANTS r1, r2, d1, d2

MCCallers == {r1, r2}
MCDevices == {d1, d2}
MCReplies == {<<"approve", 1>>, <<"approve", None>>, <<"deny", 1>>}
=============================================================================
