------------------------------- MODULE Devices -------------------------------
(***************************************************************************)
(* Paired devices: a pairing code is exchanged for a device                *)
(* (auth/pairing.go), a device's token opens connections (auth/token.go,   *)
(* server_http.go), and `pseudocoder devices revoke` (cmd/devices.go)      *)
(* takes the device back.  The command asks the running host, which closes *)
(* the device's connections and deletes it (RevokeDeviceHandler); when no  *)
(* candidate address answers in time it deletes the device itself, in the  *)
(* same database, while a handler it gave up on may still be running.      *)
(* A device is the number of the code that bought it.                      *)
(***************************************************************************)
EXTENDS Integers, Sequences, FiniteSets

CONSTANTS
  Conns,        \* connections a device may open
  Expiry,       \* CodeExpiry
  Window,       \* the minute that attempts are counted over
  MaxAttempts,  \* MaxAttemptsPerMinute
  Candidates,   \* addresses and schemes the command tries
  MaxCodes, MaxTime   \* bounds of the run

VARIABLES
  now,      \* the clock
  code,     \* activeCode: its number, expiresAt and used; 0 is none
  attempts, \* attempts: how many in which second
  tries,    \* ghost: when the attempts that were let through came
  stored,   \* the rows of devices
  conn,     \* a connection: where it is and whose
  cli,      \* the revoke command: the device and the candidate it waits for
  handler,  \* RevokeDeviceHandler, one for every candidate
  swept,    \* ghost: devices being revoked whose connections were closed
  direct    \* ghost: devices the command deleted itself

pairing == <<code, attempts, tries>>
revoking == <<cli, handler, swept, direct>>
vars == <<now, pairing, stored, conn, revoking>>

Ids == 1..MaxCodes
NoConn == [at |-> "none", dev |-> 0, late |-> FALSE]
NoCli == [dev |-> 0, i |-> 0]

TypeOK ==
  /\ now \in 0..MaxTime
  /\ code \in [n : 0..MaxCodes, expires : 0..MaxTime + Expiry, used : BOOLEAN]
  /\ attempts \in [0..MaxTime -> 0..MaxAttempts]
  /\ tries \in Seq(0..MaxTime)
  /\ stored \subseteq Ids /\ swept \subseteq Ids /\ direct \subseteq Ids
  /\ conn \in [Conns -> [at : {"none", "validated", "open", "closed"},
                         dev : 0..MaxCodes, late : BOOLEAN]]
  /\ cli \in [dev : 0..MaxCodes, i : 0..Candidates + 1]
  /\ handler \in [1..Candidates ->
                   {"idle", "lookup", "close", "delete", "ok", "failed"}]

Init ==
  /\ now = 0
  /\ code = [n |-> 0, expires |-> 0, used |-> FALSE]
  /\ attempts = [t \in 0..MaxTime |-> 0] /\ tries = <<>>
  /\ stored = {} /\ conn = [c \in Conns |-> NoConn]
  /\ cli = NoCli /\ handler = [i \in 1..Candidates |-> "idle"]
  /\ swept = {} /\ direct = {}

\* The rows of devices.
SaveDevice(d) == stored' = stored \cup {d}
GetDevice(d) == d \in stored
DeleteDevice(d) == stored' = stored \ {d}

Tick ==
  /\ now < MaxTime /\ now' = now + 1
  /\ UNCHANGED <<pairing, stored, conn, revoking>>

-----------------------------------------------------------------------------
(* Pairing.                                                                *)

\* A new code replaces the one before it.
GenerateCode ==
  /\ code.n < MaxCodes
  /\ code' = [n |-> code.n + 1, expires |-> now + Expiry, used |-> FALSE]
  /\ UNCHANGED <<now, attempts, tries, stored, conn, revoking>>

Sum(f) ==
  LET to[t \in 0..MaxTime] == f[t] + IF t = 0 THEN 0 ELSE to[t - 1]
  IN to[MaxTime]

\* checkRateLimit drops the seconds older than the window.
\* Wrong on purpose: it starts a new count with every window.
RecentInBucket ==
  [t \in 0..MaxTime |-> IF t \div Window = now \div Window
                        THEN attempts[t] ELSE 0]

Recent ==
  [t \in 0..MaxTime |-> IF t < now - Window THEN 0 ELSE attempts[t]]

Limited ==
  /\ Sum(Recent) >= MaxAttempts
  /\ attempts' = Recent
  /\ UNCHANGED <<now, code, tries, stored, conn, revoking>>

Redeemable(right) == code.n # 0 /\ ~code.used /\ now <= code.expires /\ right

\* ValidateCode with the right or a wrong code.  The code is spent before the
\* device is saved, and saving may fail.
ValidateCode(right, saved) ==
  /\ Sum(Recent) < MaxAttempts
  /\ attempts' = [Recent EXCEPT ![now] = @ + 1]
  /\ tries' = Append(tries, now)
  /\ IF Redeemable(right)
     THEN /\ code' = [code EXCEPT !.used = TRUE]
          /\ IF saved THEN SaveDevice(code.n) ELSE UNCHANGED stored
     ELSE UNCHANGED <<code, stored>>
  /\ UNCHANGED <<now, conn, revoking>>

-----------------------------------------------------------------------------
(* Connections.                                                            *)

\* handleWebSocket looks the token up, upgrades the connection and only then
\* adds it to the clients.
ValidateToken(c, d) ==
  /\ conn[c].at = "none" /\ d \in stored
  /\ conn' = [conn EXCEPT ![c] = [NoConn EXCEPT !.at = "validated",
                                                !.dev = d]]
  /\ UNCHANGED <<now, pairing, stored, revoking>>

Register(c) ==
  /\ conn[c].at = "validated"
  /\ conn' = [conn EXCEPT ![c].at = "open", ![c].late = conn[c].dev \in swept]
  /\ UNCHANGED <<now, pairing, stored, revoking>>

HangUp(c) ==
  /\ conn[c].at \in {"validated", "open", "closed"}
  /\ conn' = [conn EXCEPT ![c] = NoConn]
  /\ UNCHANGED <<now, pairing, stored, revoking>>

-----------------------------------------------------------------------------
(* Revocation: the handler of the host.                                    *)

At(i, from, to) == handler[i] = from /\ handler' = [handler EXCEPT ![i] = to]

Lookup(i) ==
  /\ \/ GetDevice(cli.dev) /\ At(i, "lookup", "close")
     \/ At(i, "lookup", "failed")
  /\ UNCHANGED <<now, pairing, stored, conn, cli, swept, direct>>

OpenConns(d) == {c \in Conns : conn[c].at = "open" /\ conn[c].dev = d}

\* Wrong on purpose: only the first connection that is found.
CloseOne(d) ==
  conn' = IF OpenConns(d) = {} THEN conn
          ELSE [conn EXCEPT ![CHOOSE c \in OpenConns(d) : TRUE].at = "closed"]

\* CloseDeviceConnections.
CloseConns(d) ==
  conn' = [c \in Conns |-> IF c \in OpenConns(d)
                           THEN [conn[c] EXCEPT !.at = "closed"] ELSE conn[c]]

Close(i) ==
  /\ At(i, "close", "delete")
  /\ CloseConns(cli.dev)
  /\ swept' = swept \cup {cli.dev}
  /\ UNCHANGED <<now, pairing, stored, cli, direct>>

Delete(i) ==
  /\ \/ At(i, "delete", "ok") /\ DeleteDevice(cli.dev)
     \/ At(i, "delete", "failed") /\ UNCHANGED stored
  /\ UNCHANGED <<now, pairing, conn, cli, swept, direct>>

-----------------------------------------------------------------------------
(* Revocation: the command.                                                *)

\* Who is asked may be out of reach: then no handler starts.
Ask(i) ==
  \/ handler' = [handler EXCEPT ![i] = "lookup"]
  \/ UNCHANGED handler

Revoke(d) ==
  /\ cli = NoCli /\ GetDevice(d)
  /\ \A i \in 1..Candidates : handler[i] \in {"idle", "ok", "failed"}
  /\ cli' = [dev |-> d, i |-> 1] /\ Ask(1)
  /\ UNCHANGED <<now, pairing, stored, conn, swept, direct>>

\* No answer in time, or another answer than OK: the next candidate.
AskNext ==
  /\ cli.i \in 1..Candidates
  /\ cli' = [cli EXCEPT !.i = @ + 1]
  /\ IF cli.i < Candidates THEN Ask(cli.i + 1) ELSE UNCHANGED handler
  /\ UNCHANGED <<now, pairing, stored, conn, swept, direct>>

\* The host has done it.
Answered ==
  /\ cli.i \in 1..Candidates /\ handler[cli.i] = "ok"
  /\ cli' = [cli EXCEPT !.i = 0]
  /\ UNCHANGED <<now, pairing, stored, conn, handler, swept, direct>>

\* The command deletes the row itself, which may fail, and ends.
DeleteDirectly ==
  /\ cli.i = Candidates + 1
  /\ cli' = [cli EXCEPT !.i = 0]
  /\ \/ DeleteDevice(cli.dev) /\ direct' = direct \cup {cli.dev}
     \/ UNCHANGED <<stored, direct>>
  /\ UNCHANGED <<now, pairing, conn, handler, swept>>

\* The handlers it left behind end before the next command is given.
EndCommand ==
  /\ cli.dev # 0 /\ cli.i = 0
  /\ \A i \in 1..Candidates : handler[i] \in {"idle", "ok", "failed"}
  /\ cli' = NoCli /\ handler' = [i \in 1..Candidates |-> "idle"]
  /\ swept' = swept \ stored
  /\ UNCHANGED <<now, pairing, stored, conn, direct>>

Next ==
  \/ Tick \/ GenerateCode \/ Limited
  \/ \E right, saved \in BOOLEAN : ValidateCode(right, saved)
  \/ \E c \in Conns, d \in Ids : ValidateToken(c, d)
  \/ \E c \in Conns : Register(c) \/ HangUp(c)
  \/ \E i \in 1..Candidates : Lookup(i) \/ Close(i) \/ Delete(i)
  \/ \E d \in Ids : Revoke(d)
  \/ AskNext \/ Answered \/ DeleteDirectly \/ EndCommand

Spec == Init /\ [][Next]_vars

-----------------------------------------------------------------------------
(* Properties.                                                             *)

\* However the attempts to pair are spread over time, no stretch of Window
\* seconds holds more than MaxAttempts that were let through: the counts are
\* kept by the second and dropped one by one as they age.
AttemptsAreLimited ==
  \A t \in 0..MaxTime :
    Cardinality({k \in DOMAIN tries : tries[k] \in t - Window..t})
      <= MaxAttempts

\* Two handlers and the command may work on one device at once, each may fail
\* half way, and connections come and go: a device that is gone has no open
\* connection but those whose token was looked up before it was deleted and
\* that were registered after the sweep, unless the command deleted it alone.
OpenAreKnown ==
  \A c \in Conns :
    conn[c].at = "open" =>
      conn[c].dev \in stored \cup direct \/ conn[c].late
=============================================================================
