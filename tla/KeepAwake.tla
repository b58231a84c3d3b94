------------------------------ MODULE KeepAwake ------------------------------
(***************************************************************************)
(* The keep-awake control plane: leases that mobile devices take on the    *)
(* host's sleep inhibitor (host/internal/server/handlers_keepawake.go, the *)
(* setters in server_setters.go, KeepAwakePolicyHandler in server.go).     *)
(*                                                                         *)
(* ka.mu is held for the whole body of a client handler, a timer, a status *)
(* read or a revocation: each is one step.  Two things are longer:         *)
(*  - the end of a connection: it leaves s.clients, then looks for another *)
(*    connection of its device under s.mu, then marks the leases under     *)
(*    ka.mu; the start of a connection has two such steps;                 *)
(*  - POST /api/keep-awake/policy, which gives ka.mu up to write the       *)
(*    config file, and again to restore it when the audit write failed.    *)
(*                                                                         *)
(* Any audit write may fail.  A battery reading is drawn afresh whenever   *)
(* the code takes a Snapshot.  Every request is for the active session     *)
(* under required authentication: any other is refused and changes nothing,*)
(* and so is a retry answered from the idempotency cache.                  *)
(***************************************************************************)
EXTENDS Naturals

CONSTANTS
  Devices,         \* paired devices
  Admins,          \* policy.AdminDeviceIDs, with AllowAdminRevoke
  Conns,           \* WebSocket connections; one may close and open again
  Owner,           \* the device of each connection
  Durations,       \* lease durations a client may ask for
  Grace,           \* how long a lease outlives its device's last connection
  Readings,        \* what the power provider of this host may report
  AllowOnBattery,  \* policy.AllowOnBattery
  AutoDisable,     \* policy.AutoDisableBatteryPercent > 0
  PolicyRequests,  \* calls of POST /api/keep-awake/policy
  MaxLeases,       \* bound of the run: leases ever issued
  MaxTime,         \* bound of the run: no lease is to outlive it
  MaxRevision,     \* bound of the run: no client acts beyond this revision
  None             \* "not set"

LeaseIds == 1..MaxLeases

ASSUME DeviceAssumption == Admins \subseteq Devices
                           /\ Owner \in [Conns -> Devices]
ASSUME TimeAssumption == Durations \subseteq Nat \ {0} /\ Grace \in Nat
                         /\ MaxTime \in Nat /\ MaxRevision \in Nat
                         /\ MaxLeases \in Nat
\* "charged": on battery above the threshold; "low": at or below it;
\* "unknown": no reading.
ASSUME PowerAssumption ==
  /\ Readings \subseteq {"external", "charged", "low", "unknown"}
  /\ AllowOnBattery \in BOOLEAN /\ AutoDisable \in BOOLEAN
ASSUME NoneAssumption ==
  /\ None \notin Nat
  /\ None \notin [owner : Devices, expires : Nat, grace : Nat \union {None}]

VARIABLES
  now,       \* ka.now(), in ticks
  leases,    \* ka.leases: the lease with each id, or None
  timers,    \* ka.timers: when the armed timer of each lease is due, or None
  seq,       \* ka.nextLeaseSeq
  awake,     \* the last value given to the runtime's SetDesiredEnabled
  rev,       \* ka.statusRevision
  tripped,   \* ka.thresholdDisabledThisEpoch
  audit,     \* leases with a row saying they were ended early
  conns,     \* where each connection is in its life
  policy,    \* ka.policy.RemoteEnabled
  failed,    \* ka.migrationFailed
  config,    \* keep_awake_remote_enabled in the config file
  mutation   \* each policy request: its stage, what it asks, what it found

connVars == <<conns>>
policyVars == <<policy, failed, config, mutation>>
vars == <<now, leases, timers, seq, awake, rev, tripped, audit, connVars,
          policyVars>>

Lease == [owner : Devices, expires : Nat, grace : Nat \union {None}]

Live(table) == {l \in LeaseIds : table[l] # None}

TypeOK ==
  /\ now \in 0..MaxTime
  /\ leases \in [LeaseIds -> Lease \union {None}]
  /\ timers \in [LeaseIds -> Nat \union {None}]
  /\ seq \in 0..MaxLeases
  /\ \A l \in Live(leases) : l <= seq
  /\ awake \in BOOLEAN
  /\ rev \in Nat
  /\ tripped \in BOOLEAN
  /\ audit \subseteq LeaseIds
  /\ conns \in [Conns -> {"closed", "new", "open", "gone", "last"}]
  /\ policy \in BOOLEAN /\ failed \in BOOLEAN /\ config \in BOOLEAN
  /\ mutation \in [PolicyRequests ->
                     [stage : {"new", "persist", "apply", "restore", "done"},
                      want : BOOLEAN, old : BOOLEAN]]

\* The host seeds the policy once from the config file; when the audit store
\* cannot be written it starts fail-closed.
Init ==
  /\ now = 0
  /\ leases = [l \in LeaseIds |-> None]
  /\ timers = [l \in LeaseIds |-> None]
  /\ seq = 0
  /\ awake = FALSE
  /\ rev = 0
  /\ tripped = FALSE
  /\ audit = {}
  /\ conns = [c \in Conns |-> "closed"]
  /\ config \in BOOLEAN
  /\ failed \in BOOLEAN
  /\ policy = (config /\ ~failed)
  /\ mutation = [q \in PolicyRequests |->
                   [stage |-> "new", want |-> FALSE, old |-> FALSE]]

-----------------------------------------------------------------------------
(* Leases and timers.                                                      *)

LeasesOf(d) == {l \in Live(leases) : leases[l].owner = d}

Without(table, ended) ==
  [l \in LeaseIds |-> IF l \in ended THEN None ELSE table[l]]

Deadline(lease) ==
  IF lease.grace # None /\ lease.grace < lease.expires
  THEN lease.grace ELSE lease.expires

\* Wrong on purpose: the timer is armed for the expiry, grace or not.
ScheduledIgnoringGrace(table, changed) ==
  [l \in LeaseIds |-> IF l \in changed THEN table[l].expires ELSE timers[l]]

\* keepAwakeScheduleTimerLocked for the leases `changed`, as they now are.
Scheduled(table, changed) ==
  [l \in LeaseIds |-> IF l \in changed THEN Deadline(table[l]) ELSE timers[l]]

\* Wrong on purpose: a lease whose deadline is right now is kept.
ExpiredStrictly == {l \in Live(leases) : Deadline(leases[l]) < now}

\* What keepAwakePruneExpiredLocked removes.
Expired == {l \in Live(leases) : Deadline(leases[l]) <= now}

\* A changed lease table: a new revision, and the runtime told whether any
\* lease is left.
Publish(table) ==
  /\ leases' = table
  /\ rev' = rev + 1
  /\ awake' = (Live(table) # {})

\* keepAwakeCheckPowerPolicyLocked, on the reading it takes.
PowerAllows ==
  {reading \in Readings :
     \/ reading = "external"
     \/ AllowOnBattery /\ (AutoDisable => reading = "charged")} # {}

\* Wrong on purpose: the check of migrationFailed is missing.
AuthorizedAfterFailure(c) == conns[c] = "open" /\ policy

\* keepAwakeValidateMutationAuthorization of a request for the active session.
Authorized(c) == conns[c] = "open" /\ policy /\ ~failed

MayMutate(c, l) ==
  /\ Authorized(c)
  /\ leases[l] # None
  /\ Owner[c] = leases[l].owner \/ Owner[c] \in Admins

-----------------------------------------------------------------------------
(* Requests of the clients.  A failed audit write changes nothing but seq. *)

EnableRefused(c) ==
  /\ Authorized(c) /\ PowerAllows
  /\ seq < MaxLeases
  /\ seq' = seq + 1
  /\ UNCHANGED <<now, leases, timers, awake, rev, tripped, audit, connVars,
                 policyVars>>

\* Wrong on purpose: the lease sequence is not moved on.
EnableReusingId(c, duration) ==
  /\ Authorized(c) /\ PowerAllows
  /\ seq < MaxLeases /\ rev < MaxRevision /\ now + duration <= MaxTime
  /\ LET table == [leases EXCEPT ![seq + 1] =
                     [owner |-> Owner[c], expires |-> now + duration,
                      grace |-> None]]
     IN  /\ Publish(table)
         /\ timers' = Scheduled(table, {seq + 1})
  /\ UNCHANGED <<now, seq, tripped, audit, connVars, policyVars>>

Enable(c, duration) ==
  /\ Authorized(c) /\ PowerAllows
  /\ seq < MaxLeases /\ rev < MaxRevision /\ now + duration <= MaxTime
  /\ seq' = seq + 1
  /\ tripped' = (tripped /\ Live(leases) # {})
  /\ LET table == [leases EXCEPT ![seq + 1] =
                     [owner |-> Owner[c], expires |-> now + duration,
                      grace |-> None]]
     IN  /\ Publish(table)
         /\ timers' = Scheduled(table, {seq + 1})
  /\ UNCHANGED <<now, audit, connVars, policyVars>>

\* Extending also takes back the mark of a lost connection.
Extend(c, l, duration) ==
  /\ MayMutate(c, l) /\ PowerAllows
  /\ rev < MaxRevision /\ now + duration <= MaxTime
  /\ LET table == [leases EXCEPT ![l].expires = now + duration,
                                 ![l].grace = None]
     IN  /\ Publish(table)
         /\ timers' = Scheduled(table, {l})
  /\ UNCHANGED <<now, seq, tripped, audit, connVars, policyVars>>

\* Wrong on purpose: the lease goes although its audit write failed.
DisableUnaudited(c, l) ==
  /\ MayMutate(c, l)
  /\ Publish(Without(leases, {l}))
  /\ timers' = Without(timers, {l})
  /\ UNCHANGED <<now, seq, tripped, audit, connVars, policyVars>>

Disable(c, l) ==
  /\ MayMutate(c, l)
  /\ audit' = audit \union {l}
  /\ Publish(Without(leases, {l}))
  /\ timers' = Without(timers, {l})
  /\ UNCHANGED <<now, seq, tripped, connVars, policyVars>>

\* A status request prunes, and announces nothing.
Status(c) ==
  /\ conns[c] = "open"
  /\ Expired # {}
  /\ Publish(Without(leases, Expired))
  /\ timers' = Without(timers, Expired)
  /\ UNCHANGED <<now, seq, tripped, audit, connVars, policyVars>>

-----------------------------------------------------------------------------
(* Timers and the status endpoint: prune, then check the battery.          *)

\* Whether a Snapshot can say "low", and otherwise.
LowReadings == {reading = "low" : reading \in Readings}

\* keepAwakeCheckBatteryThresholdLocked on the leases `left` after pruning.
ThresholdMet(left, low) ==
  AutoDisable /\ ~tripped /\ left # {} /\ low

\* Body of keepAwakeOnTimer and KeepAwakeSummary; `armed` is the timer table
\* they start from.  When one audit write fails no lease is ended, but the
\* rows written before it stay.
Reconcile(armed, low) ==
  LET left == Live(leases) \ Expired IN
  /\ \/ /\ ThresholdMet(left, low)
        /\ audit' = audit \union left
        /\ tripped' = TRUE
        /\ Publish(Without(leases, LeaseIds))
        /\ timers' = Without(armed, Live(leases))
     \/ /\ \/ ~ThresholdMet(left, low) /\ audit' = audit
           \/ /\ ThresholdMet(left, low)
              /\ \E written \in SUBSET left :
                   written # left /\ audit' = audit \union written
        /\ IF Expired # {} THEN Publish(Without(leases, Expired))
                           ELSE UNCHANGED <<leases, rev, awake>>
        /\ timers' = Without(armed, Expired)
        /\ UNCHANGED tripped
  /\ UNCHANGED <<now, seq, connVars, policyVars>>

\* An armed timer fires once.
OnTimer(l, low) ==
  /\ timers[l] # None
  /\ timers[l] <= now
  /\ Reconcile([timers EXCEPT ![l] = None], low)

KeepAwakeSummary(low) ==
  /\ Expired # {} \/ ThresholdMet(Live(leases), low)
  /\ Reconcile(timers, low)

-----------------------------------------------------------------------------
(* Connections of the devices, and the revocation of one.                  *)

Step(c, from, to) == conns[c] = from /\ conns' = [conns EXCEPT ![c] = to]

\* handleWebSocket adds the client to s.clients ...
Accept(c) ==
  /\ Step(c, "closed", "new")
  /\ rev < MaxRevision
  /\ UNCHANGED <<now, leases, timers, seq, awake, rev, tripped, audit,
                 policyVars>>

\* Wrong on purpose: the marks change without a new status revision.
RemarkUnannounced(marked, grace) ==
  LET table == [l \in LeaseIds |->
                  IF l \in marked THEN [leases[l] EXCEPT !.grace = grace]
                                  ELSE leases[l]]
  IN  leases' = table /\ timers' = Scheduled(table, marked)
      /\ UNCHANGED <<rev, awake>>

\* The leases `marked` get this grace deadline (None: the mark is taken back).
Remark(marked, grace) ==
  IF marked = {}
  THEN UNCHANGED <<leases, timers, rev, awake>>
  ELSE LET table == [l \in LeaseIds |->
                       IF l \in marked THEN [leases[l] EXCEPT !.grace = grace]
                                       ELSE leases[l]]
       IN  Publish(table) /\ timers' = Scheduled(table, marked)

\* ... and calls onKeepAwakeClientConnected.
Greet(c) ==
  /\ Step(c, "new", "open")
  /\ Remark({l \in LeasesOf(Owner[c]) : leases[l].grace # None}, None)
  /\ UNCHANGED <<now, seq, tripped, audit, policyVars>>

\* readPump ends: the client leaves s.clients ...
HangUp(c) ==
  /\ Step(c, "open", "gone")
  /\ UNCHANGED <<now, leases, timers, seq, awake, rev, tripped, audit,
                 policyVars>>

Online(d) == \E c \in Conns : Owner[c] = d /\ conns[c] \in {"new", "open"}

\* ... onKeepAwakeClientDisconnected looks for another one of the device ...
CheckLast(c) ==
  /\ Step(c, "gone", IF Online(Owner[c]) THEN "closed" ELSE "last")
  /\ UNCHANGED <<now, leases, timers, seq, awake, rev, tripped, audit,
                 policyVars>>

\* ... and, if there was none, starts the grace of the leases.
MarkDisconnected(c) ==
  /\ Step(c, "last", "closed")
  /\ Remark({l \in LeasesOf(Owner[c]) : leases[l].grace = None}, now + Grace)
  /\ UNCHANGED <<now, seq, tripped, audit, policyVars>>

\* revokeKeepAwakeLeasesForDevice: a lease whose audit write fails is kept.
\* (CloseDeviceConnections then makes the connections hang up.)
Revoke(d) ==
  \E ended \in SUBSET LeasesOf(d) \ {{}} :
    /\ audit' = audit \union ended
    /\ Publish(Without(leases, ended))
    /\ timers' = Without(timers, ended)
    /\ UNCHANGED <<now, seq, tripped, connVars, policyVars>>

-----------------------------------------------------------------------------
(* POST /api/keep-awake/policy.                                            *)

Stage(q, from, to) ==
  /\ mutation[q].stage = from
  /\ mutation' = [mutation EXCEPT ![q].stage = to]

\* "Lock -> idempotency check -> no-op detect -> reserve."
BeginPolicy(q, want) ==
  /\ mutation[q].stage = "new"
  /\ mutation' = [mutation EXCEPT ![q] =
                    [stage |-> IF policy = want THEN "done" ELSE "persist",
                     want |-> want, old |-> policy]]
  /\ UNCHANGED <<now, leases, timers, seq, awake, rev, tripped, audit,
                 connVars, policy, failed, config>>

\* The write of the config file, or its failure, which ends the request.
PersistPolicy(q) ==
  /\ \/ Stage(q, "persist", "apply") /\ config' = mutation[q].want
     \/ Stage(q, "persist", "done") /\ config' = config
  /\ UNCHANGED <<now, leases, timers, seq, awake, rev, tripped, audit,
                 connVars, policy, failed>>

\* "Audit write failed -> rollback": the policy the request found comes back.
RefusePolicy(q) ==
  /\ Stage(q, "apply", "restore")
  /\ policy' = mutation[q].old
  /\ UNCHANGED <<now, leases, timers, seq, awake, rev, tripped, audit,
                 connVars, failed, config>>

\* Wrong on purpose: the leases end but the runtime is not told.
ApplyPolicyStayingAwake(q) ==
  /\ Stage(q, "apply", "done")
  /\ policy' = mutation[q].want
  /\ rev' = rev + 1
  /\ IF mutation[q].old /\ ~mutation[q].want
     THEN /\ audit' = audit \union Live(leases)
          /\ leases' = Without(leases, LeaseIds)
          /\ timers' = Without(timers, Live(leases))
     ELSE UNCHANGED <<leases, timers, audit>>
  /\ UNCHANGED <<now, seq, awake, tripped, connVars, failed, config>>

\* The change itself; disabling ends every lease ("disable dominance").
ApplyPolicy(q) ==
  /\ Stage(q, "apply", "done")
  /\ policy' = mutation[q].want
  /\ IF mutation[q].old /\ ~mutation[q].want /\ Live(leases) # {}
     THEN /\ audit' = audit \union Live(leases)
          /\ Publish(Without(leases, LeaseIds))
          /\ timers' = Without(timers, Live(leases))
     ELSE rev' = rev + 1 /\ UNCHANGED <<leases, awake, timers, audit>>
  /\ UNCHANGED <<now, seq, tripped, connVars, failed, config>>

\* ... unless one of the revocations cannot be audited:
\* keepAwakeFailClosedOnPolicyAuditErrorLocked.
FailClosed(q) ==
  /\ Stage(q, "apply", "done")
  /\ mutation[q].old /\ ~mutation[q].want
  /\ \E written \in SUBSET Live(leases) :
       written # Live(leases) /\ audit' = audit \union written
  /\ failed' = TRUE
  /\ policy' = FALSE
  /\ Publish(Without(leases, LeaseIds))
  /\ timers' = [l \in LeaseIds |-> None]
  /\ UNCHANGED <<now, seq, tripped, connVars, config>>

\* "Rollback persist", which may fail as well.
RestoreConfig(q) ==
  /\ Stage(q, "restore", "done")
  /\ config' \in {mutation[q].old, config}
  /\ UNCHANGED <<now, leases, timers, seq, awake, rev, tripped, audit,
                 connVars, policy, failed>>

Tick ==
  /\ now < MaxTime
  /\ now' = now + 1
  /\ UNCHANGED <<leases, timers, seq, awake, rev, tripped, audit, connVars,
                 policyVars>>

-----------------------------------------------------------------------------
ClientStep(c) ==
  \/ EnableRefused(c)
  \/ \E duration \in Durations :
       \/ Enable(c, duration)
       \/ \E l \in LeaseIds : Extend(c, l, duration)
  \/ \E l \in LeaseIds : Disable(c, l)
  \/ Status(c)

ConnStep(c) ==
  \/ Accept(c) \/ Greet(c) \/ HangUp(c) \/ CheckLast(c) \/ MarkDisconnected(c)

PolicyStep(q) ==
  \/ \E want \in BOOLEAN : BeginPolicy(q, want)
  \/ PersistPolicy(q) \/ RefusePolicy(q) \/ ApplyPolicy(q) \/ FailClosed(q)
  \/ RestoreConfig(q)

Next ==
  \/ \E c \in Conns : ClientStep(c) \/ ConnStep(c)
  \/ \E l \in LeaseIds, low \in LowReadings : OnTimer(l, low)
  \/ \E low \in LowReadings : KeepAwakeSummary(low)
  \/ \E d \in Devices : Revoke(d)
  \/ \E q \in PolicyRequests : PolicyStep(q)
  \/ Tick

\* A timer that is due runs, and the clock advances; nothing else has to.
Fairness ==
  /\ \A l \in LeaseIds : WF_vars(\E low \in LowReadings : OnTimer(l, low))
  /\ WF_vars(Tick)

Spec == Init /\ [][Next]_vars
FairSpec == Spec /\ Fairness

-----------------------------------------------------------------------------
(* Properties.                                                             *)

\* Whatever set or moved its deadline (enable, extend, a lost connection, a
\* reconnect), a lease has a timer that fires no later than it.
EveryLeaseHasItsTimer ==
  \A l \in Live(leases) : timers[l] # None /\ timers[l] <= Deadline(leases[l])

\* The host is kept awake exactly as long as some lease is live: no path that
\* ends leases leaves the inhibitor on, none that keeps one turns it off.
InhibitorFollowsLeases == awake = (Live(leases) # {})

\* Once an audit write failed half-way through a revocation, nobody holds or
\* gets a lease, even if a later policy request sets RemoteEnabled again.
FailClosedHoldsNoLease == failed => Live(leases) = {}

\* A client orders status payloads by revision (they are broadcast outside
\* ka.mu), so every change of the lease table must have its own.
RevisionCoversLeases == [][leases' # leases => rev' > rev]_vars

\* A lease ends by its deadline, or with an audit row that says it was ended,
\* or because the host failed closed: never silently, never early.
EndsAreAccounted ==
  [][\A l \in Live(leases) : leases'[l] = None =>
        \/ Deadline(leases[l]) <= now
        \/ l \in audit'
        \/ failed']_vars

\* A lease that nobody extends any more ends, with no help from any client.
EveryLeaseEnds ==
  \A l \in LeaseIds : l \in Live(leases) ~> l \notin Live(leases)

\* "Disable dominance": no lease is live while remote keep-awake is disabled.
\* It fails: a request whose audit write fails restores the policy it found
\* when it began, over that of a request that was applied in between, and the
\* leases granted on the strength of the latter stay.
DisableDominance == Live(leases) # {} => policy
=============================================================================
