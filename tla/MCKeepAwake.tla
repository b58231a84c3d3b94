----------------------------- MODULE MCKeepAwake -----------------------------
(* The keep-awake leases for TLC.  MCKeepAwake.cfg: a device with two       *)
(* connections (it reconnects before the old one is noticed) and an         *)
(* administrator, no policy calls.  MCKeepAwakeDominance.cfg: one           *)
(* connection and two concurrent policy calls.                              *)
EXTENDS KeepAwake, TLC

CONSTANTS d1, d2, c1, c2, c3, q1, q2

MCDevices == {d1, d2}
MCAdmins == {d2}
MCConns == {c1, c2, c3}
MCOwner == c1 :> d1 @@ c2 :> d1 @@ c3 :> d2
MCPolicyRequests == {q1, q2}
OneConn == {c1}
OneOwner == c1 :> d1
=============================================================================
