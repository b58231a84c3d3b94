--------------------------- MODULE KeepAwakeProofs --------------------------
(***************************************************************************)
(* For any devices, connections, durations and policy requests: a lease    *)
(* has its timer, the inhibitor follows the leases, a host that failed     *)
(* closed holds none, and what ends is announced and accounted for.        *)
(***************************************************************************)
EXTENDS KeepAwake, TLAPS

LeaseTable == [LeaseIds -> Lease \union {None}]
TimerTable == [LeaseIds -> Nat \union {None}]

LEMMA NoneIsNoLease == None \notin Lease /\ None \notin Nat
BY NoneAssumption DEF Lease

LEMMA DeadlineIsTime ==
  ASSUME NEW lease \in Lease
  PROVE  Deadline(lease) \in Nat
BY NoneAssumption DEF Lease, Deadline

\* What is left of a table of which some leases are ended.
LEMMA WithoutLeaves ==
  ASSUME NEW table, NEW ended
  PROVE  /\ Live(Without(table, ended)) = Live(table) \ ended
         /\ \A l \in LeaseIds :
              Without(table, ended)[l] = IF l \in ended THEN None ELSE table[l]
BY DEF Live, Without

LEMMA WithoutIsTable ==
  ASSUME NEW ended
  PROVE  /\ \A table \in LeaseTable : Without(table, ended) \in LeaseTable
         /\ \A table \in TimerTable : Without(table, ended) \in TimerTable
BY DEF Without, LeaseTable, TimerTable

-----------------------------------------------------------------------------
(* The three things a step may do to the leases.                           *)

\* A timer is always armed for the deadline itself.
InSchedule == \A l \in Live(leases) : timers[l] = Deadline(leases[l])

TimersKept(table) == \A l \in Live(table) : timers'[l] = timers[l]

\* Nothing ...
Unmoved ==
  /\ leases' = leases /\ awake' = awake /\ rev' \in {rev, rev + 1}
  /\ TimersKept(leases)

\* ... or the end of some, each due, audited or swept away by a failure, ...
Ending(ended) ==
  /\ Publish(Without(leases, ended))
  /\ TimersKept(Without(leases, ended))
  /\ \A l \in ended \cap Live(leases) :
       Deadline(leases[l]) <= now \/ l \in audit' \/ failed'

\* ... or a grant or change of some, with their timers.
Changing(changed) ==
  /\ Publish(leases') /\ leases' \in LeaseTable
  /\ \A l \in changed :
       leases'[l] # None /\ timers'[l] = Deadline(leases'[l])
  /\ \A l \in LeaseIds \ changed :
       leases'[l] = leases[l] /\ timers'[l] = timers[l]
  /\ changed \subseteq Live(leases) \cup {seq'}
  /\ failed => changed \subseteq Live(leases)

Shape ==
  /\ timers' \in TimerTable
  /\ \/ Unmoved
     \/ \E ended \in SUBSET LeaseIds : Ending(ended)
     \/ \E changed \in SUBSET LeaseIds : Changing(changed)
  /\ seq' >= seq
  /\ failed' => failed \/ Live(leases') = {}

\* What a step that leaves leases, timers and the policy alone does.
LEMMA StillUnmoved ==
  ASSUME TypeOK, leases' = leases, timers' = timers, awake' = awake,
         rev' \in {rev, rev + 1}, seq' \in {seq, seq + 1}, failed' = failed
  PROVE  Shape
BY DEF TypeOK, Shape, Unmoved, TimersKept, TimerTable

LEMMA EndingSome ==
  ASSUME TypeOK, NEW ended \in SUBSET LeaseIds,
         Publish(Without(leases, ended)), timers' = Without(timers, ended),
         \A l \in ended \cap Live(leases) :
           Deadline(leases[l]) <= now \/ l \in audit' \/ failed',
         seq' = seq, failed' => failed \/ Live(leases) \subseteq ended
  PROVE  Shape
<1>1. timers' \in TimerTable
  BY WithoutIsTable DEF TypeOK, TimerTable
<1>2. TimersKept(Without(leases, ended))
  BY WithoutLeaves DEF TimersKept, Live
<1>3. Ending(ended)
  BY <1>2 DEF Ending
<1>4. failed' => failed \/ Live(leases') = {}
  BY WithoutLeaves DEF Publish
<1> QED
  BY <1>1, <1>3, <1>4 DEF Shape, TypeOK

LEMMA ChangingSome ==
  ASSUME TypeOK, NEW table \in LeaseTable, NEW changed \in SUBSET LeaseIds,
         Publish(table), timers' = Scheduled(table, changed),
         \A l \in changed : table[l] # None,
         \A l \in LeaseIds \ changed : table[l] = leases[l],
         changed \subseteq Live(leases) \cup {seq'}, seq' \in {seq, seq + 1},
         failed => changed \subseteq Live(leases), failed' = failed
  PROVE  Shape
<1>1. \A l \in LeaseIds : Deadline(table[l]) \in Nat \/ table[l] = None
  BY DeadlineIsTime DEF LeaseTable
<1>2. leases' = table
  BY DEF Publish
<1>3. timers' \in TimerTable
  BY <1>1 DEF Scheduled, TimerTable, TypeOK
<1>4. /\ \A l \in changed : timers'[l] = Deadline(table[l])
      /\ \A l \in LeaseIds \ changed : timers'[l] = timers[l]
  BY DEF Scheduled
<1>5. Publish(leases')
  BY <1>2
<1>6. Changing(changed)
  BY <1>2, <1>4, <1>5 DEF Changing
<1> QED
  BY <1>3, <1>6 DEF Shape, TypeOK

\* A mark of a lost connection, or taking it back, for some live leases.
LEMMA RemarkShape ==
  ASSUME TypeOK, NEW marked \in SUBSET Live(leases),
         NEW grace \in Nat \cup {None}, Remark(marked, grace),
         seq' = seq, failed' = failed
  PROVE  Shape
<1>1. CASE marked = {}
  BY <1>1, StillUnmoved DEF Remark
<1>2. CASE marked # {}
  <2> DEFINE table == [l \in LeaseIds |->
                         IF l \in marked
                         THEN [leases[l] EXCEPT !.grace = grace]
                         ELSE leases[l]]
  <2>1. \A l \in marked : [leases[l] EXCEPT !.grace = grace] \in Lease
    BY DEF TypeOK, Lease, Live
  <2>2. table \in LeaseTable
    BY <2>1 DEF TypeOK, LeaseTable
  <2>3. Publish(table) /\ timers' = Scheduled(table, marked)
    BY <1>2 DEF Remark
  <2>4. \A l \in marked : table[l] # None
    BY <2>1, NoneIsNoLease DEF Live
  <2>5. \A l \in LeaseIds \ marked : table[l] = leases[l]
    OBVIOUS
  <2>6. marked \in SUBSET LeaseIds
    BY DEF Live
  <2> HIDE DEF table
  <2> QED
    BY <2>2, <2>3, <2>4, <2>5, <2>6, ChangingSome
<1> QED
  BY <1>1, <1>2

\* Pruning, and giving up every lease when the battery is low.  The timer
\* that fired, if any, is that of a lease that is due.
LEMMA ReconcileShape ==
  ASSUME TypeOK, NEW armed \in TimerTable, NEW low, Reconcile(armed, low),
         \A l \in Live(leases) \ Expired : armed[l] = timers[l]
  PROVE  Shape
<1>0. seq' = seq /\ failed' = failed /\ Expired \in SUBSET LeaseIds
  BY DEF Reconcile, policyVars, Expired, Live
<1>1. CASE /\ audit' = audit \union (Live(leases) \ Expired)
           /\ Publish(Without(leases, LeaseIds))
           /\ timers' = Without(armed, Live(leases))
  <2>1. TimersKept(Without(leases, LeaseIds))
    BY WithoutLeaves DEF TimersKept, Live
  <2>2. \A l \in Live(leases) : Deadline(leases[l]) <= now \/ l \in audit'
    BY <1>1 DEF Expired
  <2>3. Ending(LeaseIds)
    BY <1>1, <2>1, <2>2 DEF Ending
  <2>4. timers' \in TimerTable
    BY <1>1, WithoutIsTable
  <2> QED
    BY <1>0, <2>3, <2>4 DEF Shape, TypeOK
<1>2. CASE /\ Expired # {} /\ Publish(Without(leases, Expired))
           /\ timers' = Without(armed, Expired)
  <2>1. TimersKept(Without(leases, Expired))
    BY <1>2, WithoutLeaves DEF TimersKept, Live
  <2>2. \A l \in Expired : Deadline(leases[l]) <= now
    BY DEF Expired
  <2>3. Ending(Expired)
    BY <1>2, <2>1, <2>2 DEF Ending
  <2>4. timers' \in TimerTable
    BY <1>2, WithoutIsTable
  <2> QED
    BY <1>0, <2>3, <2>4 DEF Shape, TypeOK
<1>3. CASE /\ Expired = {} /\ UNCHANGED <<leases, rev, awake>>
           /\ timers' = Without(armed, Expired)
  <2>1. TimersKept(leases)
    BY <1>3, WithoutLeaves DEF TimersKept, Live
  <2>2. Unmoved
    BY <1>3, <2>1 DEF Unmoved
  <2>3. timers' \in TimerTable
    BY <1>3, WithoutIsTable
  <2> QED
    BY <1>0, <2>2, <2>3 DEF Shape, TypeOK
<1> QED
  BY <1>1, <1>2, <1>3 DEF Reconcile

-----------------------------------------------------------------------------
(* Every step has one of the shapes.                                       *)

LEMMA ClientShape ==
  ASSUME TypeOK, NEW c \in Conns, ClientStep(c)
  PROVE  Shape
<1> USE DEF policyVars
<1>0. MaxLeases \in Nat /\ Durations \subseteq Nat /\ Owner[c] \in Devices
      /\ now \in Nat /\ seq \in Nat
  BY TimeAssumption, DeviceAssumption DEF TypeOK
<1>1. CASE EnableRefused(c)
  BY <1>1, StillUnmoved DEF EnableRefused
<1>2. ASSUME NEW duration \in Durations, Enable(c, duration)
      PROVE  Shape
  <2> DEFINE lease == [owner |-> Owner[c], expires |-> now + duration,
                       grace |-> None]
             table == [leases EXCEPT ![seq + 1] = lease]
  <2>1. lease \in Lease
    BY <1>0 DEF Lease
  <2>2. seq + 1 \in LeaseIds
    BY <1>0, <1>2 DEF Enable, LeaseIds
  <2>3. /\ table \in LeaseTable /\ table[seq + 1] = lease
        /\ \A l \in LeaseIds \ {seq + 1} : table[l] = leases[l]
    BY <2>1, <2>2 DEF TypeOK, LeaseTable
  <2>4. table[seq + 1] # None
    BY <2>1, <2>3, NoneIsNoLease
  <2>5. /\ Publish(table) /\ timers' = Scheduled(table, {seq + 1})
        /\ seq' = seq + 1 /\ failed' = failed /\ ~failed
    BY <1>2 DEF Enable, Authorized
  <2> HIDE DEF table
  <2> QED
    BY <2>2, <2>3, <2>4, <2>5, ChangingSome
<1>3. ASSUME NEW duration \in Durations, NEW l \in LeaseIds,
             Extend(c, l, duration)
      PROVE  Shape
  <2> DEFINE lease == [leases[l] EXCEPT !.expires = now + duration,
                                        !.grace = None]
             table == [leases EXCEPT ![l].expires = now + duration,
                                     ![l].grace = None]
  <2>1. l \in Live(leases) /\ leases[l] \in Lease
    BY <1>3 DEF Extend, MayMutate, Live, TypeOK
  <2>2. lease \in Lease
    <3>1. now + duration \in Nat
      BY <1>0
    <3>2. ASSUME NEW was \in Lease, NEW time \in Nat
          PROVE  [was EXCEPT !.expires = time, !.grace = None] \in Lease
      BY DEF Lease
    <3> QED
      BY <2>1, <3>1, <3>2
  <2>3. table = [leases EXCEPT ![l] = lease]
    BY <2>1 DEF TypeOK, Lease
  <2>4. /\ table \in LeaseTable /\ table[l] = lease
        /\ \A m \in LeaseIds \ {l} : table[m] = leases[m]
    BY <2>2, <2>3 DEF TypeOK, LeaseTable
  <2>5. /\ Publish(table) /\ timers' = Scheduled(table, {l})
        /\ seq' = seq /\ failed' = failed
    BY <1>3 DEF Extend
  <2>6. table[l] # None
    BY <2>2, <2>4, NoneIsNoLease
  <2> HIDE DEF table
  <2> QED
    BY <2>1, <2>4, <2>5, <2>6, ChangingSome
<1>4. ASSUME NEW l \in LeaseIds, Disable(c, l)
      PROVE  Shape
  BY <1>4, EndingSome DEF Disable
<1>5. CASE Status(c)
  <2>1. Expired \in SUBSET LeaseIds /\ \A l \in Expired :
                                         Deadline(leases[l]) <= now
    BY DEF Expired, Live
  <2> QED
    BY <1>5, <2>1, EndingSome DEF Status
<1> QED
  BY <1>1, <1>2, <1>3, <1>4, <1>5 DEF ClientStep

LEMMA ConnShape ==
  ASSUME TypeOK, NEW c \in Conns, ConnStep(c)
  PROVE  Shape
<1> USE DEF policyVars
<1>1. CASE Accept(c)
  BY <1>1, StillUnmoved DEF Accept
<1>2. CASE Greet(c)
  BY <1>2, RemarkShape DEF Greet, LeasesOf
<1>3. CASE HangUp(c)
  BY <1>3, StillUnmoved DEF HangUp
<1>4. CASE CheckLast(c)
  BY <1>4, StillUnmoved DEF CheckLast
<1>5. CASE MarkDisconnected(c)
  <2>1. now + Grace \in Nat
    BY TimeAssumption DEF TypeOK
  <2> QED
    BY <1>5, <2>1, RemarkShape DEF MarkDisconnected, LeasesOf
<1> QED
  BY <1>1, <1>2, <1>3, <1>4, <1>5 DEF ConnStep

LEMMA PolicyShape ==
  ASSUME TypeOK, NEW q \in PolicyRequests, PolicyStep(q)
  PROVE  Shape
<1>1. ASSUME NEW want \in BOOLEAN, BeginPolicy(q, want)
      PROVE  Shape
  BY <1>1, StillUnmoved DEF BeginPolicy
<1>2. CASE PersistPolicy(q)
  BY <1>2, StillUnmoved DEF PersistPolicy
<1>3. CASE RefusePolicy(q)
  BY <1>3, StillUnmoved DEF RefusePolicy
<1>4. CASE ApplyPolicy(q)
  <2>1. seq' = seq /\ failed' = failed
    BY <1>4 DEF ApplyPolicy
  <2>2. CASE /\ audit' = audit \union Live(leases)
             /\ Publish(Without(leases, LeaseIds))
             /\ timers' = Without(timers, Live(leases))
    <3>1. TimersKept(Without(leases, LeaseIds))
      BY WithoutLeaves DEF TimersKept, Live
    <3>2. Ending(LeaseIds)
      BY <2>2, <3>1 DEF Ending
    <3>3. timers' \in TimerTable
      BY <2>2, WithoutIsTable DEF TypeOK, TimerTable
    <3> QED
      BY <2>1, <3>2, <3>3 DEF Shape, TypeOK
  <2>3. CASE rev' = rev + 1 /\ UNCHANGED <<leases, awake, timers, audit>>
    BY <2>1, <2>3, StillUnmoved
  <2> QED
    BY <1>4, <2>2, <2>3 DEF ApplyPolicy
<1>5. CASE FailClosed(q)
  <2>1. /\ Publish(Without(leases, LeaseIds))
        /\ timers' = [l \in LeaseIds |-> None] /\ failed' /\ seq' = seq
    BY <1>5 DEF FailClosed
  <2>2. Live(leases') = {}
    BY <2>1, WithoutLeaves DEF Publish, Live
  <2>3. TimersKept(Without(leases, LeaseIds))
    BY WithoutLeaves DEF TimersKept, Live
  <2>4. Ending(LeaseIds)
    BY <2>1, <2>3 DEF Ending
  <2>5. timers' \in TimerTable
    BY <2>1 DEF TimerTable
  <2> QED
    BY <2>1, <2>2, <2>4, <2>5 DEF Shape, TypeOK
<1>6. CASE RestoreConfig(q)
  BY <1>6, StillUnmoved DEF RestoreConfig
<1> QED
  BY <1>1, <1>2, <1>3, <1>4, <1>5, <1>6 DEF PolicyStep

\* A timer that fires before its lease is due would end nothing and leave the
\* lease without one: InSchedule says that it does not.
LEMMA TimerShape ==
  ASSUME TypeOK, InSchedule, NEW l \in LeaseIds, NEW low, OnTimer(l, low)
  PROVE  Shape
<1> DEFINE armed == [timers EXCEPT ![l] = None]
<1>1. armed \in TimerTable
  BY DEF TypeOK, TimerTable
<1>2. \A m \in LeaseIds \ {l} : armed[m] = timers[m]
  BY DEF TypeOK
<1>3. l \notin Live(leases) \ Expired
  BY DEF OnTimer, InSchedule, Expired
<1>4. \A m \in Live(leases) \ Expired : armed[m] = timers[m]
  BY <1>2, <1>3 DEF Live
<1>5. Reconcile(armed, low)
  BY DEF OnTimer
<1> HIDE DEF armed
<1> QED
  BY <1>1, <1>4, <1>5, ReconcileShape

LEMMA StepShape ==
  ASSUME TypeOK, InSchedule, [Next]_vars
  PROVE  Shape
<1>1. ASSUME NEW low, KeepAwakeSummary(low) PROVE Shape
  BY <1>1, ReconcileShape DEF KeepAwakeSummary, TypeOK, TimerTable
<1>2. ASSUME NEW d \in Devices, Revoke(d) PROVE Shape
  <2>1. PICK ended \in SUBSET LeasesOf(d) \ {{}} :
          /\ audit' = audit \union ended
          /\ Publish(Without(leases, ended))
          /\ timers' = Without(timers, ended)
          /\ seq' = seq /\ failed' = failed
    BY <1>2 DEF Revoke, policyVars
  <2>2. ended \in SUBSET LeaseIds
    BY DEF LeasesOf, Live
  <2> QED
    BY <2>1, <2>2, EndingSome
<1>3. CASE Tick
  BY <1>3, StillUnmoved DEF Tick, policyVars
<1>4. CASE UNCHANGED vars
  BY <1>4, StillUnmoved DEF vars, policyVars, TypeOK
<1> QED
  BY <1>1, <1>2, <1>3, <1>4, ClientShape, ConnShape, PolicyShape, TimerShape
  DEF Next

-----------------------------------------------------------------------------
(* Types.                                                                  *)

\* What the shape of a step says nothing about.
OthersTyped ==
  /\ now \in 0..MaxTime
  /\ seq \in 0..MaxLeases
  /\ tripped \in BOOLEAN
  /\ audit \subseteq LeaseIds
  /\ conns \in [Conns -> {"closed", "new", "open", "gone", "last"}]
  /\ policy \in BOOLEAN /\ failed \in BOOLEAN /\ config \in BOOLEAN
  /\ mutation \in [PolicyRequests ->
                     [stage : {"new", "persist", "apply", "restore", "done"},
                      want : BOOLEAN, old : BOOLEAN]]

LEMMA OthersStay ==
  ASSUME TypeOK, [Next]_vars
  PROVE  OthersTyped'
<1>0. OthersTyped
  BY DEF TypeOK, OthersTyped
<1>1. ASSUME NEW c \in Conns, ClientStep(c) PROVE OthersTyped'
  <2> USE DEF policyVars, connVars
  <2>1. CASE EnableRefused(c)
    BY <1>0, <2>1, TimeAssumption DEF EnableRefused, OthersTyped
  <2>2. ASSUME NEW duration \in Durations, Enable(c, duration)
        PROVE  OthersTyped'
    BY <1>0, <2>2, TimeAssumption DEF Enable, OthersTyped
  <2>3. ASSUME NEW duration \in Durations, NEW l \in LeaseIds,
               Extend(c, l, duration)
        PROVE  OthersTyped'
    BY <1>0, <2>3 DEF Extend, OthersTyped
  <2>4. ASSUME NEW l \in LeaseIds, Disable(c, l) PROVE OthersTyped'
    BY <1>0, <2>4 DEF Disable, OthersTyped
  <2>5. CASE Status(c)
    BY <1>0, <2>5 DEF Status, OthersTyped
  <2> QED
    BY <1>1, <2>1, <2>2, <2>3, <2>4, <2>5 DEF ClientStep
<1>2. ASSUME NEW c \in Conns, ConnStep(c) PROVE OthersTyped'
  <2>1. /\ \E from, to \in {"closed", "new", "open", "gone", "last"} :
             Step(c, from, to)
        /\ UNCHANGED <<now, seq, tripped, audit, policyVars>>
    BY <1>2 DEF ConnStep, Accept, Greet, HangUp, CheckLast, MarkDisconnected
  <2>2. conns' \in [Conns -> {"closed", "new", "open", "gone", "last"}]
    BY <1>0, <2>1 DEF Step, OthersTyped
  <2> QED
    BY <1>0, <2>1, <2>2 DEF OthersTyped, policyVars
<1>3. ASSUME NEW armed, NEW low, Reconcile(armed, low) PROVE OthersTyped'
  <2>1. UNCHANGED <<now, seq, conns, policyVars>>
    BY <1>3 DEF Reconcile, connVars
  <2>2. tripped' \in BOOLEAN
    BY <1>0, <1>3 DEF Reconcile, OthersTyped
  <2>3. Live(leases) \ Expired \subseteq LeaseIds
    BY DEF Live
  <2>4. audit' \subseteq LeaseIds
    BY <1>0, <1>3, <2>3 DEF Reconcile, OthersTyped
  <2> QED
    BY <1>0, <2>1, <2>2, <2>4 DEF OthersTyped, policyVars
<1>4. ASSUME NEW d \in Devices, Revoke(d) PROVE OthersTyped'
  <2>1. LeasesOf(d) \subseteq LeaseIds
    BY DEF LeasesOf, Live
  <2> QED
    BY <1>0, <1>4, <2>1 DEF Revoke, OthersTyped, policyVars, connVars
<1>5. ASSUME NEW q \in PolicyRequests, PolicyStep(q) PROVE OthersTyped'
  <2> USE DEF connVars
  <2>1. ASSUME NEW want \in BOOLEAN, BeginPolicy(q, want)
        PROVE  OthersTyped'
    BY <1>0, <2>1 DEF BeginPolicy, OthersTyped
  <2>2. CASE PersistPolicy(q)
    BY <1>0, <2>2 DEF PersistPolicy, Stage, OthersTyped
  <2>3. CASE RefusePolicy(q)
    BY <1>0, <2>3 DEF RefusePolicy, Stage, OthersTyped
  <2>4. CASE ApplyPolicy(q)
    BY <1>0, <2>4 DEF ApplyPolicy, Stage, OthersTyped, Live
  <2>5. CASE FailClosed(q)
    BY <1>0, <2>5 DEF FailClosed, Stage, OthersTyped, Live
  <2>6. CASE RestoreConfig(q)
    BY <1>0, <2>6 DEF RestoreConfig, Stage, OthersTyped
  <2> QED
    BY <1>5, <2>1, <2>2, <2>3, <2>4, <2>5, <2>6 DEF PolicyStep
<1>6. CASE Tick
  BY <1>0, <1>6, TimeAssumption DEF Tick, OthersTyped, policyVars, connVars
<1>7. CASE UNCHANGED vars
  BY <1>0, <1>7 DEF vars, OthersTyped, policyVars, connVars
<1> QED
  BY <1>1, <1>2, <1>3, <1>4, <1>5, <1>6, <1>7
  DEF Next, OnTimer, KeepAwakeSummary

\* A changed table is a table; the ids of live leases were handed out.
LEMMA TypesStay ==
  ASSUME TypeOK, Shape, OthersTyped'
  PROVE  TypeOK'
<1>0. /\ leases \in LeaseTable /\ rev \in Nat /\ awake \in BOOLEAN
      /\ seq \in Nat /\ \A l \in Live(leases) : l <= seq
      /\ seq' \in Nat /\ seq' >= seq
  BY TimeAssumption DEF TypeOK, LeaseTable, Shape, OthersTyped
<1>1. CASE Unmoved
  <2>1. leases' = leases /\ rev' \in Nat /\ awake' \in BOOLEAN
    BY <1>0, <1>1 DEF Unmoved
  <2>2. \A l \in Live(leases') : l <= seq'
    BY <1>0, <2>1 DEF Live, LeaseIds
  <2> QED
    BY <1>0, <2>1, <2>2 DEF TypeOK, Shape, OthersTyped, TimerTable, LeaseTable
<1>2. ASSUME NEW ended \in SUBSET LeaseIds, Ending(ended) PROVE TypeOK'
  <2>1. leases' = Without(leases, ended) /\ rev' \in Nat /\ awake' \in BOOLEAN
    BY <1>0, <1>2 DEF Ending, Publish
  <2>2. leases' \in LeaseTable /\ Live(leases') \subseteq Live(leases)
    BY <1>0, <2>1, WithoutIsTable, WithoutLeaves
  <2>3. \A l \in Live(leases') : l <= seq'
    BY <1>0, <2>2 DEF Live, LeaseIds
  <2> QED
    BY <2>1, <2>2, <2>3 DEF TypeOK, Shape, OthersTyped, TimerTable, LeaseTable
<1>3. ASSUME NEW changed \in SUBSET LeaseIds, Changing(changed) PROVE TypeOK'
  <2>1. leases' \in LeaseTable /\ rev' \in Nat /\ awake' \in BOOLEAN
    BY <1>0, <1>3 DEF Changing, Publish
  <2>2. Live(leases') \subseteq Live(leases) \cup {seq'}
    BY <1>3 DEF Changing, Live
  <2>3. \A l \in Live(leases') : l <= seq'
    BY <1>0, <2>2 DEF Live, LeaseIds
  <2> QED
    BY <2>1, <2>3 DEF TypeOK, Shape, OthersTyped, TimerTable, LeaseTable
<1> QED
  BY <1>1, <1>2, <1>3 DEF Shape

-----------------------------------------------------------------------------
(* The inductive invariant, and the properties it gives.                   *)

\* EveryLeaseHasItsTimer says "armed, and not too late".  That does not carry
\* itself: a timer armed too early fires, ends nothing and is gone.  So the
\* invariant says that it is armed for the deadline itself.
KeepAwakeInv ==
  TypeOK /\ InSchedule /\ InhibitorFollowsLeases /\ FailClosedHoldsNoLease

LEMMA InitInv == Init => KeepAwakeInv
<1> SUFFICES ASSUME Init PROVE KeepAwakeInv
  OBVIOUS
<1>1. Live(leases) = {}
  BY DEF Init, Live
<1>2. policy \in BOOLEAN /\ failed \in BOOLEAN /\ config \in BOOLEAN
  BY DEF Init
<1>3. mutation \in [PolicyRequests ->
                      [stage : {"new", "persist", "apply", "restore", "done"},
                       want : BOOLEAN, old : BOOLEAN]]
  BY DEF Init
<1>4. now \in 0..MaxTime /\ seq \in 0..MaxLeases /\ rev \in Nat
  <2>1. now = 0 /\ seq = 0 /\ rev = 0
    BY DEF Init
  <2> QED
    BY <2>1, TimeAssumption
<1>5. /\ leases \in [LeaseIds -> Lease \union {None}]
      /\ timers \in [LeaseIds -> Nat \union {None}]
      /\ conns \in [Conns -> {"closed", "new", "open", "gone", "last"}]
      /\ awake \in BOOLEAN /\ tripped \in BOOLEAN /\ audit \subseteq LeaseIds
  BY DEF Init
<1>6. TypeOK
  BY <1>1, <1>2, <1>3, <1>4, <1>5 DEF TypeOK
<1> QED
  BY <1>1, <1>6 DEF KeepAwakeInv, InSchedule, InhibitorFollowsLeases,
                    FailClosedHoldsNoLease, Init

LEMMA InvStays ==
  ASSUME KeepAwakeInv, [Next]_vars
  PROVE  KeepAwakeInv'
<1>0. TypeOK /\ InSchedule /\ InhibitorFollowsLeases /\ FailClosedHoldsNoLease
  BY DEF KeepAwakeInv
<1>1. Shape /\ TypeOK'
  BY <1>0, StepShape, OthersStay, TypesStay
<1>2. failed' => failed \/ Live(leases') = {}
  BY <1>1 DEF Shape
<1>3. CASE Unmoved
  BY <1>0, <1>1, <1>2, <1>3
  DEF KeepAwakeInv, Unmoved, TimersKept, InSchedule, InhibitorFollowsLeases,
      FailClosedHoldsNoLease
<1>4. ASSUME NEW ended \in SUBSET LeaseIds, Ending(ended) PROVE KeepAwakeInv'
  <2>1. /\ leases' = Without(leases, ended) /\ awake' = (Live(leases') # {})
        /\ \A l \in Live(leases') : timers'[l] = timers[l]
    BY <1>4 DEF Ending, Publish, TimersKept
  <2>2. /\ Live(leases') \subseteq Live(leases)
        /\ \A l \in Live(leases') : leases'[l] = leases[l]
    BY <2>1, WithoutLeaves DEF Live
  <2>3. InSchedule'
    BY <1>0, <2>1, <2>2, Zenon DEF InSchedule
  <2> QED
    BY <1>0, <1>1, <1>2, <2>1, <2>2, <2>3
    DEF KeepAwakeInv, InhibitorFollowsLeases, FailClosedHoldsNoLease
<1>5. ASSUME NEW changed \in SUBSET LeaseIds, Changing(changed)
      PROVE  KeepAwakeInv'
  <2>1. awake' = (Live(leases') # {})
    BY <1>5 DEF Changing, Publish
  <2>2. \A l \in changed : timers'[l] = Deadline(leases'[l])
    BY <1>5 DEF Changing
  <2>3. \A l \in Live(leases') \ changed :
          /\ l \in Live(leases) /\ leases'[l] = leases[l]
          /\ timers'[l] = timers[l]
    BY <1>5 DEF Changing, Live
  <2>4. InSchedule'
    BY <1>0, <2>2, <2>3, Zenon DEF InSchedule
  <2>5. failed => Live(leases') \subseteq Live(leases)
    BY <1>5 DEF Changing, Live
  <2> QED
    BY <1>0, <1>1, <1>2, <2>1, <2>4, <2>5
    DEF KeepAwakeInv, InhibitorFollowsLeases, FailClosedHoldsNoLease
<1> QED
  BY <1>1, <1>3, <1>4, <1>5 DEF Shape

\* The state has its types and every live lease an id that was handed out;
\* every lease has the timer of its deadline, the inhibitor follows the
\* leases, and a host that failed closed holds none.
THEOREM KeepAwakeInvariant == Spec => []KeepAwakeInv
<1>1. KeepAwakeInv /\ [Next]_vars => KeepAwakeInv'
  BY InvStays
<1> QED
  BY <1>1, InitInv, PTL DEF Spec

\* The state keeps its types.
THEOREM TypeInvariant == Spec => []TypeOK
<1>1. KeepAwakeInv => TypeOK
  BY DEF KeepAwakeInv
<1> QED
  BY <1>1, KeepAwakeInvariant, PTL

\* Whatever set or moved the deadline of a lease, its timer fires by then.
THEOREM LeasesHaveTimers == Spec => []EveryLeaseHasItsTimer
<1>1. KeepAwakeInv => EveryLeaseHasItsTimer
  <2> SUFFICES ASSUME KeepAwakeInv, NEW l \in Live(leases)
               PROVE  timers[l] # None /\ timers[l] <= Deadline(leases[l])
    BY DEF EveryLeaseHasItsTimer
  <2>1. leases[l] \in Lease /\ timers[l] = Deadline(leases[l])
    BY DEF KeepAwakeInv, InSchedule, TypeOK, Live
  <2>2. timers[l] \in Nat
    BY <2>1, DeadlineIsTime
  <2> QED
    BY <2>1, <2>2, NoneIsNoLease
<1> QED
  BY <1>1, KeepAwakeInvariant, PTL

\* The host is kept awake exactly as long as some lease is live.
THEOREM HostFollowsLeases == Spec => []InhibitorFollowsLeases
<1>1. KeepAwakeInv => InhibitorFollowsLeases
  BY DEF KeepAwakeInv
<1> QED
  BY <1>1, KeepAwakeInvariant, PTL

\* A host that failed closed holds no lease from then on.
THEOREM FailureEndsLeases == Spec => []FailClosedHoldsNoLease
<1>1. KeepAwakeInv => FailClosedHoldsNoLease
  BY DEF KeepAwakeInv
<1> QED
  BY <1>1, KeepAwakeInvariant, PTL

\* Every change of the lease table has a status revision of its own.
THEOREM ChangesAreAnnounced == Spec => RevisionCoversLeases
<1>1. KeepAwakeInv /\ [Next]_vars => [leases' # leases => rev' > rev]_vars
  <2> SUFFICES ASSUME KeepAwakeInv, [Next]_vars
               PROVE  leases' # leases => rev' > rev
    OBVIOUS
  <2>1. Shape /\ rev \in Nat
    BY StepShape DEF KeepAwakeInv, TypeOK
  <2>2. leases' = leases \/ rev' = rev + 1
    BY <2>1 DEF Shape, Unmoved, Ending, Changing, Publish
  <2> QED
    BY <2>1, <2>2
<1> QED
  BY <1>1, KeepAwakeInvariant, PTL DEF Spec, RevisionCoversLeases

\* A lease ends when it is due, with an audit row, or because the host failed
\* closed.
THEOREM EndsHaveReasons == Spec => EndsAreAccounted
<1> DEFINE Accounted ==
      \A l \in Live(leases) : leases'[l] = None =>
        \/ Deadline(leases[l]) <= now
        \/ l \in audit'
        \/ failed'
<1>1. KeepAwakeInv /\ [Next]_vars => [Accounted]_vars
  <2> SUFFICES ASSUME KeepAwakeInv, [Next]_vars PROVE Accounted
    OBVIOUS
  <2>1. Shape
    BY StepShape DEF KeepAwakeInv
  <2>2. CASE leases' = leases
    BY <2>2 DEF Live
  <2>3. ASSUME NEW ended \in SUBSET LeaseIds, Ending(ended) PROVE Accounted
    <3>1. leases' = Without(leases, ended)
      BY <2>3 DEF Ending, Publish
    <3>2. \A l \in Live(leases) : leases'[l] = None => l \in ended
      BY <3>1, WithoutLeaves DEF Live
    <3> QED
      BY <2>3, <3>2 DEF Ending
  <2>4. ASSUME NEW changed \in SUBSET LeaseIds, Changing(changed)
        PROVE  Accounted
    BY <2>4 DEF Changing, Live
  <2> QED
    BY <2>1, <2>2, <2>3, <2>4 DEF Shape, Unmoved
<1> QED
  BY <1>1, KeepAwakeInvariant, PTL DEF Spec, EndsAreAccounted
=============================================================================
