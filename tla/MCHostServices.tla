---------------------------- MODULE MCHostServices ----------------------------
(* Services of the host for TLC: one connection and two concurrent policy   *)
(* calls, and for the other parts two connections, a device that is paired  *)
(* and revoked, a repository of three branches, a file.                     *)
EXTENDS HostServices, TLC

CONSTANTS d1, d2, c1, c2, q1, q2

MCDevices == {d1, d2}
MCAdmins == {d2}
OneConn == {c1}
OneOwner == c1 :> d1
MCPolicyRequests == {q1, q2}
MCPeers == {c1, c2}

Request(op, id, arg, flag) ==
  [op |-> op, id |-> id, arg |-> arg, flag |-> flag]

\* Every operation, some with an argument that is refused, and for a commit
\* the same id with another fingerprint.
MCRepoRequests ==
  {Request("commit", 1, "m", FALSE), Request("commit", 1, "m", TRUE),
   Request("commit", 2, "", TRUE),
   Request("branch_create", 1, "dev", FALSE),
   Request("branch_create", 1, "", FALSE),
   Request("branch_create", 1, "bad", FALSE),
   Request("branch_switch", 1, "dev", FALSE),
   Request("pr_checkout", 1, "", FALSE), Request("pr_create", 1, "t", FALSE),
   Request("push", 1, "", FALSE), Request("push", 1, "main", TRUE),
   Request("fetch", 1, "", FALSE), Request("pull", 1, "", FALSE)}
=============================================================================
