-------------------------- MODULE HostServicesProofs --------------------------
(***************************************************************************)
(* For any connections, candidates, limits and repositories: no process    *)
(* keeps the host awake behind the manager's back; no connection of a      *)
(* device that is gone is open but the late ones; no minute holds too many *)
(* attempts to pair; what a repository command was allowed on holds when   *)
(* it acts; a repeated request is answered, not run again; the pages of    *)
(* the history are the history; what the poller has seen is known; and     *)
(* every variable of every part keeps its type.                            *)
(***************************************************************************)
EXTENDS HostServices, KeepAwakeProofs, DataInduction, FiniteSetTheorems,
        Sequences, TLAPS

-----------------------------------------------------------------------------
(* The inhibitor.                                                          *)

Process == [running : BOOLEAN, term : BOOLEAN]
Processes == Seq(Process)

\* Runs and was not asked to exit.
KeepsAwake(process) == process.running /\ ~process.term

\* The manager and its calls name processes that were started.
ManagerTyped ==
  /\ iStatus \in [state : {"OFF", "PENDING", "ON", "DEGRADED"},
                  desired : BOOLEAN]
  /\ iProcs \in Processes
  /\ iHandle \in {0} \cup DOMAIN iProcs
  /\ iCall \in [at : {"idle", "acquire", "adopt", "surrender", "release"},
                proc : Nat]
  /\ iCall.at \in {"adopt", "surrender", "release"} =>
       iCall.proc \in DOMAIN iProcs
  /\ iClosing \in [at : {"idle", "release", "done"}, proc : Nat]
  /\ iClosing.at = "release" => iClosing.proc \in DOMAIN iProcs

\* While a call starts a process or gives one up again, the manager is not ON.
NotOnMeanwhile ==
  iCall.at \in {"acquire", "adopt", "surrender"} => iStatus.state # "ON"

\* NoStrayInhibitor of Inhibitor, by KeepsAwake.
NoStray ==
  \A p \in DOMAIN iProcs :
    KeepsAwake(iProcs[p]) =>
      \/ p = iHandle /\ iStatus.state = "ON" /\ iStatus.desired
      \/ iCall = [at |-> "adopt", proc |-> p]

InhibitorInv == ManagerTyped /\ NotOnMeanwhile /\ NoStray

LEMMA InhibitorInit == I!Init => InhibitorInv
BY DEF I!Init, I!Idle, InhibitorInv, ManagerTyped, Processes, NotOnMeanwhile,
       NoStray

LEMMA ProcessStarts ==
  ASSUME NEW procs \in Processes, NEW x \in Process
  PROVE  /\ Append(procs, x) \in Processes /\ Len(Append(procs, x)) \in Nat
         /\ DOMAIN Append(procs, x)
              = DOMAIN procs \cup {Len(Append(procs, x))}
         /\ \A p \in DOMAIN procs : Append(procs, x)[p] = procs[p]
BY DEF Processes

\* Of the processes that keep the host awake, none is new, and p is not one.
Fewer(old, new, p) ==
  /\ new \in Processes /\ DOMAIN new = DOMAIN old
  /\ \A q \in DOMAIN old : KeepsAwake(new[q]) => q # p /\ KeepsAwake(old[q])

LEMMA ProcessEnds ==
  ASSUME NEW procs \in Processes, NEW p \in DOMAIN procs
  PROVE  /\ Fewer(procs, [procs EXCEPT ![p].running = FALSE], p)
         /\ Fewer(procs, [procs EXCEPT ![p].term = TRUE], p)
<1>1. procs[p] \in Process
  BY DEF Processes
<1>2. ASSUME NEW x \in Process, ~KeepsAwake(x)
      PROVE  Fewer(procs, [procs EXCEPT ![p] = x], p)
  <2>1. [procs EXCEPT ![p] = x] \in Processes
    BY DEF Processes
  <2>2. /\ DOMAIN [procs EXCEPT ![p] = x] = DOMAIN procs
        /\ [procs EXCEPT ![p] = x][p] = x
        /\ \A q \in DOMAIN procs \ {p} : [procs EXCEPT ![p] = x][q] = procs[q]
    OBVIOUS
  <2> QED
    BY <1>2, <2>1, <2>2 DEF Fewer
<1>3. /\ [procs[p] EXCEPT !.running = FALSE] \in Process
      /\ ~KeepsAwake([procs[p] EXCEPT !.running = FALSE])
      /\ [procs[p] EXCEPT !.term = TRUE] \in Process
      /\ ~KeepsAwake([procs[p] EXCEPT !.term = TRUE])
  BY <1>1 DEF Process, KeepsAwake
<1> QED
  BY <1>2, <1>3

\* A process of a step that ends or is asked to exit one process, and leaves
\* the call and the manager alone.
LEMMA OneEnds ==
  ASSUME InhibitorInv, NEW p \in DOMAIN iProcs,
         UNCHANGED <<iStatus, iHandle, iCall>>,
         iProcs' = [iProcs EXCEPT ![p].running = FALSE],
         iClosing' = iClosing \/ iClosing' = [iClosing EXCEPT !.at = "done"]
  PROVE  InhibitorInv'
<1>1. /\ iProcs' \in Processes /\ DOMAIN iProcs' = DOMAIN iProcs
      /\ \A q \in DOMAIN iProcs :
           KeepsAwake(iProcs'[q]) => KeepsAwake(iProcs[q])
  BY ProcessEnds DEF InhibitorInv, ManagerTyped, Fewer
<1>2. ManagerTyped'
  <2>1. /\ iClosing' \in [at : {"idle", "release", "done"}, proc : Nat]
        /\ iClosing'.at = "release" => iClosing'.proc \in DOMAIN iProcs
    BY DEF InhibitorInv, ManagerTyped
  <2> QED
    BY <1>1, <2>1 DEF InhibitorInv, ManagerTyped
<1>3. NotOnMeanwhile' /\ NoStray'
  BY <1>1 DEF InhibitorInv, NotOnMeanwhile, NoStray
<1> QED
  BY <1>2, <1>3 DEF InhibitorInv

LEMMA InhibitorKeeps ==
  InhibitorInv /\ [I!Next]_iVars => InhibitorInv'
<1> SUFFICES ASSUME InhibitorInv, [I!Next]_iVars PROVE InhibitorInv'
  OBVIOUS
<1>0. ManagerTyped /\ NotOnMeanwhile /\ NoStray
  BY DEF InhibitorInv
<1>1. CASE I!Enable
  <2>1. /\ iCall.at = "idle" /\ UNCHANGED <<iProcs, iClosing>>
        /\ iCall' = [at |-> "acquire", proc |-> 0]
        /\ iStatus' = [state |-> "PENDING", desired |-> TRUE]
        /\ iHandle' \in {0, iHandle}
    <3>1. [I!Idle EXCEPT !.at = "acquire"] = [at |-> "acquire", proc |-> 0]
      BY DEF I!Idle
    <3> QED
      BY <1>1, <3>1 DEF I!Enable
  <2>2. \A p \in DOMAIN iProcs : ~KeepsAwake(iProcs[p])
    BY <1>0, <1>1
    DEF I!Enable, I!Gone, KeepsAwake, ManagerTyped, Processes, NoStray
  <2> QED
    BY <1>0, <2>1, <2>2
    DEF InhibitorInv, ManagerTyped, NotOnMeanwhile, NoStray
<1>2. CASE I!AcquireFails \/ I!Surrendered \/ I!Released \/ I!CloseReleased
  <2>1. UNCHANGED <<iHandle, iProcs>>
    BY <1>2
    DEF I!AcquireFails, I!Surrendered, I!Released, I!CloseReleased
  <2>2. ManagerTyped'
    BY <1>0, <1>2
    DEF I!AcquireFails, I!Surrendered, I!Released, I!CloseReleased, I!Idle,
        ManagerTyped
  <2>3. NotOnMeanwhile' /\ NoStray'
    BY <1>0, <1>2
    DEF I!AcquireFails, I!Surrendered, I!Released, I!CloseReleased, I!Idle,
        I!Gone, KeepsAwake, ManagerTyped, Processes, NotOnMeanwhile, NoStray
  <2> QED
    BY <2>2, <2>3 DEF InhibitorInv
<1>3. CASE I!Acquire
  <2>1. /\ iCall.at = "acquire" /\ UNCHANGED <<iStatus, iHandle, iClosing>>
        /\ iProcs' = Append(iProcs, [running |-> TRUE, term |-> FALSE])
        /\ iCall' = [at |-> "adopt", proc |-> Len(iProcs')]
    BY <1>3 DEF I!Acquire
  <2>2. /\ iProcs' \in Processes
        /\ Len(iProcs') \in Nat
        /\ DOMAIN iProcs' = DOMAIN iProcs \cup {Len(iProcs')}
        /\ \A p \in DOMAIN iProcs : iProcs'[p] = iProcs[p]
    <3>1. iProcs \in Processes
      BY <1>0 DEF ManagerTyped
    <3>2. [running |-> TRUE, term |-> FALSE] \in Process
      BY DEF Process
    <3> QED
      BY <2>1, <3>1, <3>2, ProcessStarts
  <2>3. \A p \in DOMAIN iProcs : ~KeepsAwake(iProcs[p])
    BY <1>0, <2>1 DEF NotOnMeanwhile, NoStray
  <2>4. ManagerTyped'
    BY <1>0, <2>1, <2>2 DEF ManagerTyped
  <2>5. NotOnMeanwhile' /\ NoStray'
    BY <1>0, <2>1, <2>2, <2>3 DEF NotOnMeanwhile, NoStray
  <2> QED
    BY <2>4, <2>5 DEF InhibitorInv
<1>4. CASE I!Adopt
  BY <1>0, <1>4
  DEF I!Adopt, I!Idle, InhibitorInv, ManagerTyped, NotOnMeanwhile,
      NoStray
<1>5. CASE I!Surrender
  <2>1. /\ iProcs' \in Processes /\ DOMAIN iProcs' = DOMAIN iProcs
        /\ \A q \in DOMAIN iProcs :
             KeepsAwake(iProcs'[q]) => q # iCall.proc /\ KeepsAwake(iProcs[q])
    BY <1>0, <1>5, ProcessEnds DEF I!Surrender, ManagerTyped, Fewer
  <2>2. /\ iCall.at = "adopt" /\ UNCHANGED <<iStatus, iHandle, iClosing>>
        /\ iCall' = [iCall EXCEPT !.at = "surrender"]
    BY <1>5 DEF I!Surrender
  <2>3. ManagerTyped'
    <3>1. /\ iCall' \in [at : {"surrender"}, proc : Nat]
          /\ iCall'.proc = iCall.proc
      BY <1>0, <2>2 DEF ManagerTyped
    <3> QED
      BY <1>0, <2>1, <2>2, <3>1 DEF ManagerTyped
  <2>4. NotOnMeanwhile' /\ NoStray'
    BY <1>0, <2>1, <2>2
    DEF ManagerTyped, NotOnMeanwhile, NoStray
  <2> QED
    BY <2>3, <2>4 DEF InhibitorInv
\* What both SetDesiredEnabled(false) and Close do.
<1>6. ASSUME I!LetGo
      PROVE  /\ iStatus' = [state |-> "OFF", desired |-> FALSE]
             /\ iHandle' = 0
             /\ iProcs' \in Processes /\ DOMAIN iProcs' = DOMAIN iProcs
             /\ \A q \in DOMAIN iProcs :
                  KeepsAwake(iProcs'[q]) =>
                    iCall = [at |-> "adopt", proc |-> q]
  <2>1. CASE iHandle = 0
    <3>1. 0 \notin DOMAIN iProcs
      BY <1>0 DEF ManagerTyped, Processes
    <3> QED
      BY <1>0, <1>6, <2>1, <3>1 DEF I!LetGo, ManagerTyped, NoStray
  <2>2. CASE iHandle # 0
    <3>1. iProcs' = [iProcs EXCEPT ![iHandle].term = TRUE]
          /\ iHandle \in DOMAIN iProcs
      BY <1>0, <1>6, <2>2 DEF I!LetGo, ManagerTyped
    <3>2. /\ iProcs' \in Processes /\ DOMAIN iProcs' = DOMAIN iProcs
          /\ \A q \in DOMAIN iProcs :
               KeepsAwake(iProcs'[q]) => q # iHandle /\ KeepsAwake(iProcs[q])
      BY <1>0, <3>1, ProcessEnds DEF ManagerTyped, Fewer
    <3> QED
      BY <1>0, <1>6, <3>2 DEF I!LetGo, NoStray
  <2> QED
    BY <2>1, <2>2
<1>7. CASE I!Disable
  <2>1. /\ iCall.at = "idle" /\ UNCHANGED iClosing
        /\ iCall' = IF iHandle = 0 THEN [at |-> "idle", proc |-> 0]
                    ELSE [at |-> "release", proc |-> iHandle]
    BY <1>7 DEF I!Disable, I!Idle
  <2>2. DOMAIN iProcs \subseteq Nat
    BY <1>0 DEF ManagerTyped, Processes
  <2>3. I!LetGo
    BY <1>7 DEF I!Disable
  <2>4. ManagerTyped'
    <3>1. /\ iStatus' = [state |-> "OFF", desired |-> FALSE]
          /\ iHandle' = 0
          /\ iProcs' \in Processes /\ DOMAIN iProcs' = DOMAIN iProcs
      BY <1>6, <2>3
    <3> QED
      BY <1>0, <2>1, <2>2, <3>1 DEF ManagerTyped
  <2>5. NotOnMeanwhile' /\ NoStray'
    BY <1>0, <1>6, <2>1, <2>3 DEF NotOnMeanwhile, NoStray
  <2> QED
    BY <2>4, <2>5 DEF InhibitorInv
<1>8. CASE I!Close
  <2>1. /\ UNCHANGED iCall
        /\ iClosing' = IF iHandle = 0 THEN [at |-> "done", proc |-> 0]
                       ELSE [at |-> "release", proc |-> iHandle]
    <3>1. [I!Idle EXCEPT !.at = "done"] = [at |-> "done", proc |-> 0]
      BY DEF I!Idle
    <3> QED
      BY <1>8, <3>1 DEF I!Close
  <2>2. DOMAIN iProcs \subseteq Nat
    BY <1>0 DEF ManagerTyped, Processes
  <2>3. I!LetGo
    BY <1>8 DEF I!Close
  <2>4. ManagerTyped'
    <3>1. /\ iStatus' = [state |-> "OFF", desired |-> FALSE]
          /\ iHandle' = 0
          /\ iProcs' \in Processes /\ DOMAIN iProcs' = DOMAIN iProcs
      BY <1>6, <2>3
    <3> QED
      BY <1>0, <2>1, <2>2, <3>1 DEF ManagerTyped
  <2>5. NotOnMeanwhile' /\ NoStray'
    BY <1>0, <1>6, <2>1, <2>3 DEF NotOnMeanwhile, NoStray
  <2> QED
    BY <2>4, <2>5 DEF InhibitorInv
<1>9. CASE I!CloseTimesOut
  BY <1>0, <1>9, OneEnds DEF I!CloseTimesOut, ManagerTyped
<1>10. ASSUME NEW p \in DOMAIN iProcs, I!Exit(p) PROVE InhibitorInv'
  BY <1>10, OneEnds DEF I!Exit
<1>11. ASSUME NEW w \in iWatchers, I!WatchHandle(w) PROVE InhibitorInv'
  <2>1. UNCHANGED <<iProcs, iCall, iClosing>>
    BY <1>11 DEF I!WatchHandle
  <2>2. CASE UNCHANGED <<iHandle, iStatus>>
    BY <1>0, <2>1, <2>2
    DEF InhibitorInv, ManagerTyped, NotOnMeanwhile, NoStray
  <2>3. CASE iHandle = w.proc /\ I!Lost
    <3>1. /\ ~iProcs[iHandle].running /\ iHandle' = 0
          /\ iStatus' = [iStatus EXCEPT !.state = "DEGRADED"]
      BY <1>11, <2>3 DEF I!WatchHandle, I!Gone, I!Lost
    <3>2. \A p \in DOMAIN iProcs : p = iHandle => ~KeepsAwake(iProcs[p])
      BY <3>1 DEF KeepsAwake
    <3> QED
      BY <1>0, <2>1, <3>1, <3>2
      DEF InhibitorInv, ManagerTyped, NotOnMeanwhile, NoStray
  <2> QED
    BY <1>11, <2>2, <2>3 DEF I!WatchHandle
<1>12. CASE UNCHANGED iVars
  BY <1>0, <1>12
  DEF iVars, InhibitorInv, ManagerTyped, NotOnMeanwhile, NoStray
<1> QED
  BY <1>1, <1>2, <1>3, <1>4, <1>5, <1>7, <1>8, <1>9, <1>10, <1>11, <1>12
  DEF I!Next

LEMMA InhibitorPart ==
  /\ HostInit => I!Init
  /\ [HostNext]_hostVars => [I!Next]_iVars
BY DEF HostInit, HostNext, KeepAwakeStep, InhibitorStep, DevicesStep,
       RepositoryStep, FilesStep, hostVars, iVars

\* A process that runs and was not asked to exit is the one the manager
\* holds, or has just been started by the call under way.
THEOREM NoProcessBehindTheManager == HostSpec => []NoStrayInhibitor
<1>1. HostSpec => []InhibitorInv
  BY InhibitorPart, InhibitorInit, InhibitorKeeps, PTL DEF HostSpec
<1>2. InhibitorInv => NoStrayInhibitor
  BY DEF InhibitorInv, NoStray, KeepsAwake, NoStrayInhibitor,
         I!NoStrayInhibitor
<1> QED
  BY <1>1, <1>2, PTL

-----------------------------------------------------------------------------
(* The devices.                                                            *)

Connection ==
  [at : {"none", "validated", "open", "closed"}, dev : Nat, late : BOOLEAN]

DevicesTyped ==
  /\ dHandler \in [1..Candidates ->
                    {"idle", "lookup", "close", "delete", "ok", "failed"}]
  /\ dConn \in [Peers -> Connection] /\ dCli \in [dev : Nat, i : Nat]

\* A handler deletes only what was swept, what was deleted stays swept, and
\* after the sweep of a device only a connection that is late opens.
SweptBeforeDeleted ==
  /\ \A i \in 1..Candidates : dHandler[i] = "delete" => dCli.dev \in dSwept
  /\ \A c \in Peers :
       /\ dConn[c].at \in {"validated", "open"} =>
            dConn[c].dev \in dStored \cup dDirect \cup dSwept
       /\ dConn[c].at = "open" /\ dConn[c].dev \in dSwept => dConn[c].late

DevicesInv == DevicesTyped /\ SweptBeforeDeleted /\ D!OpenAreKnown

LEMMA DevicesInit == D!Init => DevicesInv
BY DEF D!Init, D!NoConn, D!NoCli, Connection, DevicesInv, DevicesTyped,
       SweptBeforeDeleted, D!OpenAreKnown

\* One connection becomes x and nothing else changes.
LEMMA ConnectionBecomes ==
  ASSUME DevicesInv, NEW c \in Peers, NEW x \in Connection,
         dConn' = [dConn EXCEPT ![c] = x],
         x.at \in {"validated", "open"} =>
           x.dev \in dStored \cup dDirect \cup dSwept,
         x.at = "open" /\ x.dev \in dSwept => x.late,
         UNCHANGED <<dStored, dCli, dHandler, dSwept, dDirect>>
  PROVE  DevicesInv'
<1>1. /\ dConn' \in [Peers -> Connection] /\ dConn'[c] = x
      /\ \A d \in Peers \ {c} : dConn'[d] = dConn[d]
  BY DEF DevicesInv, DevicesTyped
<1> QED
  BY <1>1
  DEF DevicesInv, DevicesTyped, SweptBeforeDeleted, D!OpenAreKnown

LEMMA DevicesKeep == DevicesInv /\ [D!Next]_dVars => DevicesInv'
<1> SUFFICES ASSUME DevicesInv, [D!Next]_dVars PROVE DevicesInv'
  OBVIOUS
<1> USE DEF DevicesInv, DevicesTyped, SweptBeforeDeleted, D!OpenAreKnown
<1>1. CASE D!Tick \/ D!GenerateCode \/ D!Limited \/ UNCHANGED dVars
  BY <1>1
  DEF D!Tick, D!GenerateCode, D!Limited, D!pairing, D!revoking, dVars
<1>2. ASSUME NEW right \in BOOLEAN, NEW saved \in BOOLEAN,
             D!ValidateCode(right, saved)
      PROVE  DevicesInv'
  BY <1>2 DEF D!ValidateCode, D!SaveDevice, D!revoking
<1>3. ASSUME NEW c \in Peers, NEW d \in D!Ids, D!ValidateToken(c, d)
      PROVE  DevicesInv'
  <2> DEFINE x == [D!NoConn EXCEPT !.at = "validated", !.dev = d]
  <2>1. x \in Connection /\ x.at = "validated" /\ x.dev = d
    <3>1. D!NoConn \in Connection /\ d \in Nat
      BY DEF D!NoConn, D!Ids, Connection
    <3> QED
      BY <3>1 DEF Connection
  <2> QED
    BY <1>3, <2>1, ConnectionBecomes
    DEF D!ValidateToken, D!pairing, D!revoking
<1>4. ASSUME NEW c \in Peers, D!Register(c) PROVE DevicesInv'
  <2> DEFINE x == [dConn[c] EXCEPT !.at = "open",
                                   !.late = dConn[c].dev \in dSwept]
  <2>1. /\ x \in Connection /\ x.dev = dConn[c].dev /\ x.at = "open"
        /\ x.late <=> dConn[c].dev \in dSwept
    <3>1. dConn[c] \in Connection /\ (dConn[c].dev \in dSwept) \in BOOLEAN
      OBVIOUS
    <3> QED
      BY <3>1 DEF Connection
  <2>2. dConn' = [dConn EXCEPT ![c] = x]
    BY <1>4 DEF D!Register
  <2> QED
    BY <1>4, <2>1, <2>2, ConnectionBecomes
    DEF D!Register, D!pairing, D!revoking
<1>5. ASSUME NEW c \in Peers, D!HangUp(c) PROVE DevicesInv'
  <2>1. D!NoConn \in Connection /\ D!NoConn.at = "none"
    BY DEF D!NoConn, Connection
  <2> QED
    BY <1>5, <2>1, ConnectionBecomes DEF D!HangUp, D!pairing, D!revoking
<1>6. ASSUME NEW i \in 1..Candidates, D!Lookup(i) PROVE DevicesInv'
  BY <1>6 DEF D!Lookup, D!At, D!pairing
<1>7. ASSUME NEW i \in 1..Candidates, D!Close(i) PROVE DevicesInv'
  <2>1. /\ dSwept' = dSwept \cup {dCli.dev}
        /\ UNCHANGED <<dStored, dCli, dDirect>>
        /\ dHandler' = [dHandler EXCEPT ![i] = "delete"]
    BY <1>7 DEF D!Close, D!At
  <2>2. /\ dConn' \in [Peers -> Connection]
        /\ \A c \in Peers :
             /\ dConn'[c].at \in {"validated", "open"} => dConn'[c] = dConn[c]
             /\ dConn'[c].at = "open" => dConn[c].dev # dCli.dev
    <3> DEFINE x(c) == IF c \in D!OpenConns(dCli.dev)
                       THEN [dConn[c] EXCEPT !.at = "closed"] ELSE dConn[c]
    <3>1. dConn' = [c \in Peers |-> x(c)]
      BY <1>7 DEF D!Close, D!CloseConns
    <3>2. ASSUME NEW c \in Peers
          PROVE  /\ x(c) \in Connection
                 /\ x(c).at \in {"validated", "open"} => x(c) = dConn[c]
                 /\ x(c).at = "open" => dConn[c].dev # dCli.dev
      <4>1. dConn[c] \in Connection
        OBVIOUS
      <4> QED
        BY <4>1 DEF D!OpenConns, Connection
    <3> HIDE DEF x
    <3> QED
      BY <3>1, <3>2
  <2> QED
    BY <2>1, <2>2
<1>8. ASSUME NEW i \in 1..Candidates, D!Delete(i) PROVE DevicesInv'
  BY <1>8 DEF D!Delete, D!At, D!DeleteDevice, D!pairing
<1>9. ASSUME NEW d \in D!Ids, D!Revoke(d) PROVE DevicesInv'
  <2>1. /\ dCli' = [dev |-> d, i |-> 1] /\ d \in Nat
        /\ \A i \in 1..Candidates : dHandler[i] # "delete"
        /\ UNCHANGED <<dStored, dConn, dSwept, dDirect>>
    BY <1>9 DEF D!Revoke, D!Ids
  <2>2. \/ UNCHANGED dHandler
        \/ dHandler' = [dHandler EXCEPT ![1] = "lookup"]
    BY <1>9 DEF D!Revoke, D!Ask
  <2>3. dCli' \in [dev : Nat, i : Nat]
    BY <2>1
  <2> QED
    BY <2>1, <2>2, <2>3
<1>10. CASE D!AskNext
  <2>1. dCli' \in [dev : Nat, i : Nat] /\ dCli'.dev = dCli.dev
    BY <1>10 DEF D!AskNext
  <2>2. \/ UNCHANGED dHandler
        \/ dHandler' = [dHandler EXCEPT ![dCli.i + 1] = "lookup"]
    BY <1>10 DEF D!AskNext, D!Ask
  <2>3. UNCHANGED <<dStored, dConn, dSwept, dDirect>>
    BY <1>10 DEF D!AskNext
  <2> QED
    BY <2>1, <2>2, <2>3
<1>11. CASE D!Answered
  BY <1>11 DEF D!Answered, D!pairing
<1>12. CASE D!DeleteDirectly
  BY <1>12 DEF D!DeleteDirectly, D!DeleteDevice, D!pairing
<1>13. CASE D!EndCommand
  BY <1>13 DEF D!EndCommand, D!NoCli, D!pairing
<1> QED
  BY <1>1, <1>2, <1>3, <1>4, <1>5, <1>6, <1>7, <1>8, <1>9, <1>10, <1>11,
     <1>12, <1>13
  DEF D!Next

LEMMA DevicesPart ==
  /\ HostInit => D!Init
  /\ [HostNext]_hostVars => [D!Next]_dVars
BY DEF HostInit, HostNext, KeepAwakeStep, InhibitorStep, DevicesStep,
       RepositoryStep, FilesStep, hostVars, dVars

\* A connection of a device the host no longer knows is closed, unless it was
\* registered after the sweep or the command deleted the device alone.
THEOREM RevokedDevicesAreCutOff == HostSpec => []OpenAreKnown
<1>1. HostSpec => []DevicesInv
  BY DevicesPart, DevicesInit, DevicesKeep, PTL DEF HostSpec
<1>2. DevicesInv => OpenAreKnown
  BY DEF DevicesInv, OpenAreKnown
<1> QED
  BY <1>1, <1>2, PTL

-----------------------------------------------------------------------------
(* The devices: the attempts to pair.                                      *)

\* Counts by value add up to the count of all: f says how many of K have each
\* value.
LEMMA SumCounts ==
  ASSUME NEW K, IsFiniteSet(K), NEW value \in [K -> 0..MaxSeconds],
         NEW f, \A u \in 0..MaxSeconds :
                  f[u] = Cardinality({k \in K : value[k] = u})
  PROVE  D!Sum(f) = Cardinality(K)
<1> USE CountsAssumption
<1> DEFINE UpTo(t) == {k \in K : value[k] <= t}
           With(u) == {k \in K : value[k] = u}
           g == [t \in 0..MaxSeconds |-> Cardinality(UpTo(t))]
           Sums(h) == h = [t \in 0..MaxSeconds |->
                             f[t] + IF t = 0 THEN 0 ELSE h[t - 1]]
           to == CHOOSE h : Sums(h)
<1>1. \A t \in Int : /\ IsFiniteSet(UpTo(t)) /\ IsFiniteSet(With(t))
                     /\ Cardinality(UpTo(t)) \in Nat
                     /\ Cardinality(With(t)) \in Nat
  BY FS_Subset, FS_CardinalityType
<1>2. \A t \in 1..MaxSeconds :
        Cardinality(UpTo(t)) = Cardinality(With(t)) + Cardinality(UpTo(t - 1))
  <2> TAKE t \in 1..MaxSeconds
  <2>1. UpTo(t) = With(t) \cup UpTo(t - 1) /\ With(t) \cap UpTo(t - 1) = {}
    OBVIOUS
  <2>2. Cardinality({}) = 0
    BY FS_EmptySet
  <2> HIDE DEF UpTo, With
  <2>3. /\ IsFiniteSet(With(t)) /\ IsFiniteSet(UpTo(t - 1))
        /\ Cardinality(With(t)) \in Nat /\ Cardinality(UpTo(t - 1)) \in Nat
    BY <1>1
  <2>4. Cardinality(With(t) \cup UpTo(t - 1))
          = Cardinality(With(t)) + Cardinality(UpTo(t - 1))
              - Cardinality(With(t) \cap UpTo(t - 1))
    BY <2>3, FS_Union
  <2> QED
    BY <2>1, <2>2, <2>3, <2>4
<1>3. UpTo(0) = With(0) /\ UpTo(MaxSeconds) = K
  OBVIOUS
<1>4. \A u \in 0..MaxSeconds : f[u] = Cardinality(With(u))
  OBVIOUS
<1> HIDE DEF UpTo, With
<1>5. Sums(g)
  <2>1. \A t \in 0..MaxSeconds :
          g[t] = f[t] + IF t = 0 THEN 0 ELSE g[t - 1]
    <3> TAKE t \in 0..MaxSeconds
    <3>1. CASE t = 0
      BY <1>1, <1>3, <1>4, <3>1
    <3>2. CASE t # 0
      <4>1. t \in 1..MaxSeconds /\ t - 1 \in 0..MaxSeconds
        BY <3>2
      <4> QED
        BY <1>2, <1>4, <3>2, <4>1
    <3> QED
      BY <3>1, <3>2
  <2>2. DOMAIN g = 0..MaxSeconds /\ g = [t \in 0..MaxSeconds |-> g[t]]
    OBVIOUS
  <2> HIDE DEF g
  <2> QED
    BY <2>1, <2>2
<1>6. Sums(to)
  <2> HIDE DEF g, Sums
  <2> QED
    BY <1>5
<1> HIDE DEF to
<1>7. \A t \in 0..MaxSeconds : to[t] = f[t] + IF t = 0 THEN 0 ELSE to[t - 1]
  BY <1>6
<1> DEFINE S == {t \in Nat : t <= MaxSeconds => to[t] = Cardinality(UpTo(t))}
<1>8. S = Nat
  <2>1. 0 \in S
    BY <1>1, <1>3, <1>4, <1>7
  <2>2. ASSUME NEW t \in S PROVE t + 1 \in S
    <3> SUFFICES ASSUME t + 1 <= MaxSeconds
                 PROVE  to[t + 1] = Cardinality(UpTo(t + 1))
      OBVIOUS
    <3>1. t \in Nat /\ to[t] = Cardinality(UpTo(t))
      OBVIOUS
    <3>2. t + 1 \in 1..MaxSeconds /\ t + 1 # 0 /\ t + 1 - 1 = t
      BY <3>1
    <3>3. to[t + 1] = f[t + 1] + to[t]
      BY <1>7, <3>2
    <3>4. Cardinality(UpTo(t + 1))
            = Cardinality(With(t + 1)) + Cardinality(UpTo(t))
      BY <1>2, <3>2
    <3> QED
      BY <1>4, <3>1, <3>2, <3>3, <3>4
  <2>3. S \in SUBSET Nat
    OBVIOUS
  <2> HIDE DEF S
  <2> QED
    BY <2>1, <2>2, <2>3, SetInduction
<1>9. to[MaxSeconds] = Cardinality(K)
  BY <1>3, <1>8
<1>10. D!Sum(f) = to[MaxSeconds]
  BY DEF D!Sum, to
<1> QED
  BY <1>9, <1>10

\* The attempts that were let through at time t, and from one time to another.
TriedAt(t) == {k \in DOMAIN dTries : dTries[k] = t}
TriedIn(from, to) == {k \in DOMAIN dTries : dTries[k] \in from..to}

AttemptsTyped ==
  /\ dNow \in 0..MaxSeconds /\ dTries \in Seq(0..MaxSeconds)
  /\ dAttempts \in [0..MaxSeconds -> 0..MaxAttempts]

NoneAhead == \A k \in DOMAIN dTries : dTries[k] <= dNow

\* What is not too old to count is counted.
CountsAreRight ==
  \A t \in 0..MaxSeconds :
    t >= dNow - Window => dAttempts[t] = Cardinality(TriedAt(t))

Limit ==
  \A t \in 0..MaxSeconds : Cardinality(TriedIn(t - Window, t)) <= MaxAttempts

AttemptsInv == AttemptsTyped /\ NoneAhead /\ CountsAreRight /\ Limit

LEMMA TriesAreFinite ==
  ASSUME AttemptsTyped
  PROVE  \A S \in SUBSET DOMAIN dTries :
           IsFiniteSet(S) /\ Cardinality(S) \in Nat
<1>1. DOMAIN dTries = 1..Len(dTries) /\ Len(dTries) \in Nat
  BY DEF AttemptsTyped
<1>2. IsFiniteSet(1..Len(dTries))
  BY <1>1, FS_Interval
<1> QED
  BY <1>1, <1>2, FS_Subset, FS_CardinalityType

LEMMA AttemptsInit == D!Init => AttemptsInv
<1> SUFFICES ASSUME D!Init PROVE AttemptsInv
  OBVIOUS
<1>1. /\ dNow = 0 /\ dTries = <<>> /\ DOMAIN dTries = {}
      /\ dAttempts = [t \in 0..MaxSeconds |-> 0]
  BY DEF D!Init
<1>2. dTries \in Seq(0..MaxSeconds)
  BY <1>1
<1>3. /\ \A t : TriedAt(t) = {}
      /\ \A t, u : TriedIn(t, u) = {}
      /\ Cardinality({}) = 0
  BY <1>1, FS_EmptySet DEF TriedAt, TriedIn
<1>4. AttemptsTyped /\ NoneAhead
  BY <1>1, <1>2, CountsAssumption DEF AttemptsTyped, NoneAhead
<1>5. Limit
  BY <1>3, CountsAssumption DEF Limit
<1>6. CountsAreRight
  BY <1>1, <1>3 DEF CountsAreRight
<1> QED
  BY <1>4, <1>5, <1>6 DEF AttemptsInv

\* The sum the limit is compared with is the number of attempts in the window.
LEMMA RecentAddsUp ==
  ASSUME AttemptsInv
  PROVE  D!Sum(D!Recent) = Cardinality(TriedIn(dNow - Window, dNow))
<1> USE CountsAssumption
<1> DEFINE K == TriedIn(dNow - Window, dNow)
           value == [k \in K |-> dTries[k]]
<1>1. AttemptsTyped /\ NoneAhead /\ CountsAreRight
  BY DEF AttemptsInv
<1>2. K \in SUBSET DOMAIN dTries
  BY DEF TriedIn
<1>3. IsFiniteSet(K)
  BY <1>1, <1>2, TriesAreFinite
<1>4. value \in [K -> 0..MaxSeconds]
  BY <1>1, <1>2 DEF AttemptsTyped
<1>5. ASSUME NEW t \in 0..MaxSeconds
      PROVE  D!Recent[t] = Cardinality({k \in K : value[k] = t})
  <2>1. D!Recent[t] = IF t < dNow - Window THEN 0 ELSE dAttempts[t]
    BY DEF D!Recent
  <2>2. CASE t < dNow - Window
    <3>1. {k \in K : value[k] = t} = {}
      BY <1>1, <2>2 DEF TriedIn, AttemptsTyped
    <3> QED
      BY <2>1, <2>2, <3>1, FS_EmptySet
  <2>3. CASE t >= dNow - Window
    <3>1. {k \in K : value[k] = t} = TriedAt(t)
      BY <1>1, <2>3 DEF TriedIn, TriedAt, AttemptsTyped, NoneAhead
    <3>2. dAttempts[t] = Cardinality(TriedAt(t))
      BY <1>1, <2>3 DEF CountsAreRight
    <3>3. ~ (t < dNow - Window)
      BY <1>1, <2>3 DEF AttemptsTyped
    <3> QED
      BY <2>1, <3>1, <3>2, <3>3
  <2> QED
    BY <1>1, <2>2, <2>3 DEF AttemptsTyped
<1> HIDE DEF K, value
<1>6. D!Sum(D!Recent) = Cardinality(K)
  BY <1>3, <1>4, <1>5, SumCounts
<1> QED
  BY <1>6 DEF K

LEMMA AttemptIsCounted ==
  ASSUME AttemptsInv, UNCHANGED dNow,
         D!Sum(D!Recent) < MaxAttempts,
         dAttempts' = [D!Recent EXCEPT ![dNow] = @ + 1],
         dTries' = Append(dTries, dNow)
  PROVE  AttemptsInv'
<1> USE CountsAssumption
<1> DEFINE new == Len(dTries) + 1
<1>1. AttemptsTyped /\ NoneAhead /\ CountsAreRight /\ Limit
  BY DEF AttemptsInv
<1>2. dNow \in 0..MaxSeconds
  BY <1>1 DEF AttemptsTyped
<1>3. /\ dTries' \in Seq(0..MaxSeconds) /\ new \notin DOMAIN dTries
      /\ DOMAIN dTries' = DOMAIN dTries \cup {new} /\ dTries'[new] = dNow
      /\ \A k \in DOMAIN dTries : dTries'[k] = dTries[k]
      /\ \A k \in DOMAIN dTries : dTries[k] \in 0..dNow
  <2>1. dTries \in Seq(0..MaxSeconds) /\ Len(dTries) \in Nat
        /\ DOMAIN dTries = 1..Len(dTries)
    BY <1>1 DEF AttemptsTyped
  <2>2. /\ dTries' \in Seq(0..MaxSeconds)
        /\ Len(dTries') = Len(dTries) + 1 /\ DOMAIN dTries' = 1..Len(dTries')
        /\ dTries'[Len(dTries) + 1] = dNow
        /\ \A k \in 1..Len(dTries) : dTries'[k] = dTries[k]
    BY <1>2, <2>1
  <2>3. \A k \in DOMAIN dTries : dTries[k] \in 0..MaxSeconds
    BY <2>1
  <2>4. \A k \in DOMAIN dTries : dTries[k] \in 0..dNow
    BY <1>1, <1>2, <2>3 DEF NoneAhead
  <2> QED
    BY <2>1, <2>2, <2>4
<1> HIDE DEF new
<1>4. \A S \in SUBSET DOMAIN dTries :
        /\ IsFiniteSet(S) /\ Cardinality(S) \in Nat
        /\ Cardinality(S \cup {new}) = Cardinality(S) + 1
  <2> TAKE S \in SUBSET DOMAIN dTries
  <2>1. IsFiniteSet(S) /\ Cardinality(S) \in Nat
    BY <1>1, TriesAreFinite
  <2>2. new \notin S
    BY <1>3
  <2> QED
    BY <2>1, <2>2, FS_AddElement
<1>5. Cardinality(TriedIn(dNow - Window, dNow)) < MaxAttempts
  BY RecentAddsUp
<1>6. \A t \in 0..MaxSeconds :
        /\ TriedAt(t) \in SUBSET DOMAIN dTries
        /\ t = dNow => TriedAt(t)' = TriedAt(t) \cup {new}
        /\ t # dNow => TriedAt(t)' = TriedAt(t)
  BY <1>3 DEF TriedAt
<1>7. ASSUME NEW t \in 0..MaxSeconds
      PROVE  Cardinality(TriedIn(t - Window, t)') <= MaxAttempts
  <2>1. CASE dNow \in t - Window..t
    <3> DEFINE window == TriedIn(t - Window, t)
               recent == TriedIn(dNow - Window, dNow)
    <3>1. window \in SUBSET recent /\ recent \in SUBSET DOMAIN dTries
      BY <1>2, <1>3, <2>1 DEF TriedIn
    <3>2. TriedIn(t - Window, t)' = window \cup {new}
      BY <1>2, <1>3, <2>1 DEF TriedIn
    <3>3. /\ Cardinality(window) <= Cardinality(recent)
          /\ window \in SUBSET DOMAIN dTries
      BY <1>4, <3>1, FS_Subset
    <3> HIDE DEF window, recent
    <3>4. Cardinality(window \cup {new}) = Cardinality(window) + 1
          /\ Cardinality(window) \in Nat /\ Cardinality(recent) \in Nat
      BY <1>4, <3>1, <3>3
    <3>5. Cardinality(recent) < MaxAttempts
      BY <1>5 DEF recent
    <3>6. Cardinality(window \cup {new}) <= MaxAttempts
      BY <3>3, <3>4, <3>5
    <3> QED
      BY <3>2, <3>6
  <2>2. CASE dNow \notin t - Window..t
    <3>1. TriedIn(t - Window, t)' = TriedIn(t - Window, t)
      BY <1>2, <1>3, <2>2 DEF TriedIn
    <3> QED
      BY <1>1, <3>1 DEF Limit
  <2> QED
    BY <2>1, <2>2
<1>8. Limit'
  BY <1>7 DEF Limit
<1>9. NoneAhead'
  BY <1>2, <1>3 DEF NoneAhead
<1>10. \A t \in 0..MaxSeconds :
         /\ D!Recent[t] \in 0..MaxAttempts
         /\ t >= dNow - Window => D!Recent[t] = Cardinality(TriedAt(t))
  BY <1>1, <1>2 DEF D!Recent, AttemptsTyped, CountsAreRight
<1>11. D!Recent = [t \in 0..MaxSeconds |-> D!Recent[t]]
  BY DEF D!Recent
<1>12. dAttempts' = [t \in 0..MaxSeconds |->
                       IF t = dNow THEN D!Recent[t] + 1 ELSE D!Recent[t]]
  BY <1>2, <1>11
<1>13. CountsAreRight'
  <2> SUFFICES ASSUME NEW t \in 0..MaxSeconds, t >= dNow - Window
               PROVE  dAttempts'[t] = Cardinality(TriedAt(t)')
    BY DEF CountsAreRight
  <2>1. Cardinality(TriedAt(t)')
          = IF t = dNow THEN Cardinality(TriedAt(t)) + 1
            ELSE Cardinality(TriedAt(t))
    BY <1>4, <1>6
  <2> QED
    BY <1>10, <1>12, <2>1
<1>14. D!Recent[dNow] < MaxAttempts
  <2>1. TriedAt(dNow) \in SUBSET TriedIn(dNow - Window, dNow)
    BY <1>2 DEF TriedAt, TriedIn
  <2>2. TriedIn(dNow - Window, dNow) \in SUBSET DOMAIN dTries
    BY DEF TriedIn
  <2>3. /\ IsFiniteSet(TriedIn(dNow - Window, dNow))
        /\ Cardinality(TriedIn(dNow - Window, dNow)) \in Nat
        /\ Cardinality(TriedAt(dNow)) \in Nat
    BY <1>4, <2>1, <2>2
  <2>4. Cardinality(TriedAt(dNow))
          <= Cardinality(TriedIn(dNow - Window, dNow))
    BY <2>1, <2>3, FS_Subset
  <2>5. D!Recent[dNow] = Cardinality(TriedAt(dNow))
    BY <1>2, <1>10
  <2> QED
    BY <1>5, <2>3, <2>4, <2>5
<1>15. AttemptsTyped'
  <2>1. \A t \in 0..MaxSeconds : dAttempts'[t] \in 0..MaxAttempts
    BY <1>2, <1>10, <1>12, <1>14
  <2>2. dAttempts' \in [0..MaxSeconds -> 0..MaxAttempts]
    BY <1>12, <2>1
  <2> QED
    BY <1>2, <1>3, <2>2 DEF AttemptsTyped
<1> QED
  BY <1>8, <1>9, <1>13, <1>15 DEF AttemptsInv

LEMMA AttemptsKeep == AttemptsInv /\ [D!Next]_dVars => AttemptsInv'
<1> SUFFICES ASSUME AttemptsInv, [D!Next]_dVars PROVE AttemptsInv'
  OBVIOUS
<1> USE CountsAssumption
<1>0. AttemptsTyped /\ NoneAhead /\ CountsAreRight /\ Limit
  BY DEF AttemptsInv
<1>1. CASE UNCHANGED <<dNow, dAttempts, dTries>>
  BY <1>0, <1>1
  DEF AttemptsInv, AttemptsTyped, NoneAhead, CountsAreRight, Limit, TriedAt,
      TriedIn
<1>2. CASE D!Tick
  <2>1. /\ dNow' = dNow + 1 /\ dNow < MaxSeconds
        /\ UNCHANGED <<dAttempts, dTries>>
    BY <1>2 DEF D!Tick, D!pairing
  <2>2. AttemptsTyped' /\ NoneAhead'
    BY <1>0, <2>1 DEF AttemptsTyped, NoneAhead
  <2>3. Limit'
    BY <1>0, <2>1 DEF Limit, TriedIn
  <2>4. CountsAreRight'
    BY <1>0, <2>1 DEF AttemptsTyped, CountsAreRight, TriedAt
  <2> QED
    BY <2>2, <2>3, <2>4 DEF AttemptsInv
<1>3. CASE D!Limited
  <2>1. UNCHANGED <<dNow, dTries>> /\ dAttempts' = D!Recent
    BY <1>3 DEF D!Limited
  <2>2. \A t \in 0..MaxSeconds :
          /\ D!Recent[t] \in 0..MaxAttempts
          /\ t >= dNow - Window => D!Recent[t] = dAttempts[t]
    BY <1>0 DEF D!Recent, AttemptsTyped
  <2>3. AttemptsTyped'
    <3>1. D!Recent = [t \in 0..MaxSeconds |-> D!Recent[t]]
      BY DEF D!Recent
    <3>2. dAttempts' \in [0..MaxSeconds -> 0..MaxAttempts]
      BY <2>1, <2>2, <3>1
    <3> QED
      BY <1>0, <2>1, <3>2 DEF AttemptsTyped
  <2>4. NoneAhead' /\ Limit' /\ CountsAreRight'
    BY <1>0, <2>1, <2>2 DEF NoneAhead, Limit, CountsAreRight, TriedAt, TriedIn
  <2> QED
    BY <2>3, <2>4 DEF AttemptsInv
<1>4. ASSUME NEW right \in BOOLEAN, NEW saved \in BOOLEAN,
             D!ValidateCode(right, saved)
      PROVE  AttemptsInv'
  <2>1. /\ UNCHANGED dNow /\ D!Sum(D!Recent) < MaxAttempts
        /\ dAttempts' = [D!Recent EXCEPT ![dNow] = @ + 1]
        /\ dTries' = Append(dTries, dNow)
    BY <1>4 DEF D!ValidateCode
  <2> QED
    BY <2>1, AttemptIsCounted
<1>5. CASE D!GenerateCode
  BY <1>1, <1>5 DEF D!GenerateCode
<1>6. ASSUME NEW c \in Peers, NEW d \in D!Ids, D!ValidateToken(c, d)
      PROVE  AttemptsInv'
  BY <1>1, <1>6 DEF D!ValidateToken, D!pairing
<1>7. ASSUME NEW c \in Peers, D!Register(c) \/ D!HangUp(c) PROVE AttemptsInv'
  BY <1>1, <1>7 DEF D!Register, D!HangUp, D!pairing
<1>8. ASSUME NEW i \in 1..Candidates, D!Lookup(i) \/ D!Close(i) \/ D!Delete(i)
      PROVE  AttemptsInv'
  BY <1>1, <1>8 DEF D!Lookup, D!Close, D!Delete, D!pairing
<1>9. ASSUME NEW d \in D!Ids, D!Revoke(d) PROVE AttemptsInv'
  BY <1>1, <1>9 DEF D!Revoke, D!pairing
<1>10. CASE D!AskNext \/ D!Answered \/ D!DeleteDirectly \/ D!EndCommand
  BY <1>1, <1>10
  DEF D!AskNext, D!Answered, D!DeleteDirectly, D!EndCommand, D!pairing
<1>11. CASE UNCHANGED dVars
  BY <1>1, <1>11 DEF dVars
<1> QED
  BY <1>2, <1>3, <1>4, <1>5, <1>6, <1>7, <1>8, <1>9, <1>10, <1>11 DEF D!Next

LEMMA CardinalityOfDevices == \A T : D!Cardinality(T) = Cardinality(T)
BY Zenon DEF D!Cardinality, Cardinality

LEMMA AttemptsPart ==
  /\ HostInit => AttemptsInv
  /\ AttemptsInv /\ [HostNext]_hostVars => AttemptsInv'
  /\ AttemptsInv => AttemptsAreLimited
<1>1. HostInit => AttemptsInv
  BY AttemptsInit DEF HostInit
<1>2. AttemptsInv /\ [HostNext]_hostVars => AttemptsInv'
  <2>1. [HostNext]_hostVars => [D!Next]_dVars
    BY DEF HostNext, hostVars, KeepAwakeStep, InhibitorStep, DevicesStep,
           RepositoryStep, FilesStep
  <2> QED
    BY <2>1, AttemptsKeep
<1>3. AttemptsInv => AttemptsAreLimited
  BY CardinalityOfDevices
  DEF AttemptsInv, Limit, TriedIn, AttemptsAreLimited, D!AttemptsAreLimited
<1> QED
  BY <1>1, <1>2, <1>3

\* However the attempts to pair are spread over time, no stretch of Window
\* seconds holds more than MaxAttempts that were let through.
THEOREM NoMinuteHoldsMore == HostSpec => []AttemptsAreLimited
BY AttemptsPart, PTL DEF HostSpec

-----------------------------------------------------------------------------
(* The repository: the gate.                                               *)

Doing(c) == rJob[c].step

Jobs ==
  /\ rJob = [c \in Peers |-> rJob[c]]
  /\ \A c \in Peers :
       Doing(c) = "gate" => rJob[c] \in [step : {"gate"}, req : RepoRequests]

\* What the reader of a connection may do next: begin under the gate, go on
\* after a check, or finish, which leaves the repository alone if the gate was
\* never entered.
Begins(c) ==
  /\ Doing(c) = "gate" /\ rGate = R!NoOne /\ rGate' = c
  /\ rJob' = [rJob EXCEPT ![c].step = "work"]
  /\ UNCHANGED <<rCache, rReplies, rPage, rEdits>> /\ UNCHANGED R!repo

GoesOn(c) ==
  /\ Doing(c) = "work" /\ R!Proceed(c)
  /\ rJob[c].req.op = "branch_switch" => rJob[c].req.arg \in Branches

Finishes(c) ==
  /\ Doing(c) \in {"gate", "work", "act"}
  /\ \E code, commit : R!Finish(c, code, commit)
  /\ Doing(c) = "gate" => UNCHANGED R!repo

LEMMA HandleCases ==
  ASSUME NEW c \in Peers, R!Handle(c)
  PROVE  Begins(c) \/ GoesOn(c) \/ Finishes(c)
<1> USE DEF R!Fail, R!Working, R!GitFails, R!GhFails, Doing, Finishes, GoesOn,
            Begins
<1>1. CASE R!Enter(c)
  BY <1>1, Zenon DEF R!Enter
<1>2. CASE R!HandleCommit(c)
  BY <1>2, Zenon DEF R!HandleCommit
<1>3. CASE R!Commit(c)
  BY <1>3, Zenon DEF R!Commit
<1>4. CASE R!HandlePush(c)
  BY <1>4, Zenon DEF R!HandlePush, R!Push
<1>5. CASE R!HandleFetch(c) \/ R!HandlePull(c)
  BY <1>5, Zenon DEF R!HandleFetch, R!Fetch, R!HandlePull, R!PullFFOnly
<1>6. CASE R!HandleBranchCreate(c)
  BY <1>6, Zenon DEF R!HandleBranchCreate, R!CreateBranch
<1>7. CASE R!HandleBranchSwitch(c)
  BY <1>7, Zenon DEF R!HandleBranchSwitch
<1>8. CASE R!SwitchBranch(c) \/ R!PrCheckout(c)
  BY <1>8, Zenon DEF R!SwitchBranch, R!PrCheckout
<1>9. CASE R!HandlePrCreate(c) \/ R!HandlePrCheckout(c)
  BY <1>9, Zenon DEF R!HandlePrCreate, R!PrCreate, R!HandlePrCheckout
<1> QED
  BY <1>1, <1>2, <1>3, <1>4, <1>5, <1>6, <1>7, <1>8, <1>9 DEF R!Handle

\* The gate lets one connection work at a time, and what a connection goes on
\* with was seen no later than now.
GateHeld ==
  /\ rEdits \in Nat
  /\ \A c \in Peers :
       /\ Doing(c) \in {"work", "act"} => rGate = c
       /\ Doing(c) = "act" => rJob[c].around \in Nat
                              /\ rJob[c].around <= rEdits

GateInv == Jobs /\ GateHeld /\ R!ChecksStillHold

LEMMA GateInit == R!Init => GateInv
BY DEF R!Init, R!Idle, GateInv, Jobs, GateHeld, Doing, R!ChecksStillHold

LEMMA OneHandles ==
  ASSUME GateInv, NEW c \in Peers, R!Handle(c)
  PROVE  GateInv'
<1> USE DEF GateInv, GateHeld
<1>1. CASE Begins(c)
  <2>1. /\ rJob'[c] = [rJob[c] EXCEPT !.step = "work"]
        /\ \A d \in Peers \ {c} : rJob'[d] = rJob[d]
        /\ rJob' = [d \in Peers |-> rJob'[d]]
    BY <1>1, Zenon DEF Begins, Jobs
  <2>2. Doing(c)' = "work"
    <3>1. rJob[c] \in [step : {"gate"}, req : RepoRequests]
      BY <1>1 DEF Begins, Jobs
    <3> QED
      BY <2>1, <3>1 DEF Doing
  <2>3. UNCHANGED rEdits /\ UNCHANGED R!Seen /\ rGate' = c
    BY <1>1 DEF Begins, R!Seen, R!HeadCommit, R!repo
  <2>4. \A d \in Peers \ {c} : Doing(d) \notin {"work", "act"}
    BY <1>1, RepositoryAssumption DEF Begins
  <2> QED
    BY <2>1, <2>2, <2>3, <2>4 DEF Jobs, Doing, R!ChecksStillHold
<1>2. CASE GoesOn(c)
  <2>1. /\ rJob' = [rJob EXCEPT ![c] =
                      [step |-> "act", req |-> rJob[c].req, saw |-> R!Seen,
                       around |-> rEdits]]
        /\ UNCHANGED R!repo /\ UNCHANGED <<rGate, rEdits>>
        /\ Doing(c) = "work"
    BY <1>2 DEF GoesOn, R!Proceed
  <2>2. UNCHANGED R!Seen
    BY <2>1 DEF R!Seen, R!HeadCommit, R!repo
  <2>3. /\ rJob'[c] = [step |-> "act", req |-> rJob[c].req, saw |-> R!Seen,
                       around |-> rEdits]
        /\ \A d \in Peers \ {c} : rJob'[d] = rJob[d]
        /\ rJob' = [d \in Peers |-> rJob'[d]]
    BY <2>1, Zenon DEF Jobs
  <2>4. /\ Doing(c)' = "act" /\ rJob'[c].around = rEdits
        /\ rJob'[c].saw = R!Seen
    BY <2>3 DEF Doing
  <2> HIDE DEF R!Seen
  <2> QED
    BY <2>1, <2>2, <2>3, <2>4 DEF Jobs, Doing, R!ChecksStillHold
<1>3. CASE Finishes(c)
  <2>1. /\ rJob' = [rJob EXCEPT ![c] = R!Idle] /\ UNCHANGED rEdits
        /\ rGate' = IF rGate = c THEN R!NoOne ELSE rGate
    BY <1>3 DEF Finishes, R!Finish
  <2>2. /\ rJob'[c].step = "idle"
        /\ \A d \in Peers \ {c} : rJob'[d] = rJob[d]
        /\ rJob' = [d \in Peers |-> rJob'[d]]
    BY <2>1 DEF Jobs, R!Idle
  <2>3. (\A d \in Peers \ {c} : Doing(d) \notin {"work", "act"})
        \/ UNCHANGED R!Seen
    <3>1. CASE Doing(c) = "gate"
      BY <1>3, <3>1 DEF Finishes, R!Seen, R!HeadCommit, R!repo
    <3>2. CASE Doing(c) \in {"work", "act"}
      BY <3>2
    <3> QED
      BY <1>3, <3>1, <3>2 DEF Finishes
  <2> QED
    BY <2>1, <2>2, <2>3 DEF Jobs, Doing, R!ChecksStillHold
<1> QED
  BY <1>1, <1>2, <1>3, HandleCases

LEMMA GateKeeps == GateInv /\ [R!Next]_rVars => GateInv'
<1> SUFFICES ASSUME GateInv, [R!Next]_rVars PROVE GateInv'
  OBVIOUS
<1> USE DEF GateInv, GateHeld
<1>1. ASSUME NEW c \in Peers, NEW r \in RepoRequests, R!Receive(c, r)
      PROVE  GateInv'
  <2>1. /\ UNCHANGED <<rGate, rEdits>> /\ UNCHANGED R!Seen
        /\ \/ UNCHANGED rJob
           \/ rJob' = [rJob EXCEPT ![c] = [step |-> "gate", req |-> r]]
    BY <1>1 DEF R!Receive, R!Seen, R!HeadCommit, R!repo
  <2> QED
    BY <2>1 DEF Jobs, Doing, R!ChecksStillHold
<1>2. CASE R!GetHistory \/ UNCHANGED rVars
  <2>1. UNCHANGED <<rGate, rJob, rEdits>> /\ UNCHANGED R!Seen
    BY <1>2 DEF R!GetHistory, rVars, R!Seen, R!HeadCommit, R!repo
  <2> QED
    BY <2>1 DEF Jobs, Doing, R!ChecksStillHold
<1>3. CASE \/ R!Edit \/ R!Detach
           \/ \E b \in Branches : R!Orphan(b) \/ R!Elsewhere(b)
  <2>1. rEdits' = rEdits + 1 /\ UNCHANGED <<rGate, rJob>>
    BY <1>3 DEF R!Edit, R!Detach, R!Orphan, R!Elsewhere
  <2> QED
    BY <2>1 DEF Jobs, Doing, R!ChecksStillHold
<1> QED
  BY <1>1, <1>2, <1>3, OneHandles DEF R!Next

LEMMA RepositoryPart ==
  /\ HostInit => R!Init
  /\ [HostNext]_hostVars => [R!Next]_rVars
BY DEF HostInit, HostNext, KeepAwakeStep, InhibitorStep, DevicesStep,
       RepositoryStep, FilesStep, hostVars, rVars

\* What a commit or a checkout was allowed on still holds when it acts, unless
\* something around the gate changed it.
THEOREM NothingMovesUnderTheGate == HostSpec => []ChecksStillHold
<1>1. HostSpec => []GateInv
  BY RepositoryPart, GateInit, GateKeeps, PTL DEF HostSpec
<1>2. GateInv => ChecksStillHold
  BY DEF GateInv, ChecksStillHold
<1> QED
  BY <1>1, <1>2, PTL

-----------------------------------------------------------------------------
(* The repository: the results a connection remembers.                     *)

IsASequence(s) == \E T : s \in Seq(T)

LEMMA SeqGrows ==
  ASSUME NEW s, IsASequence(s), NEW x
  PROVE  /\ IsASequence(Append(s, x)) /\ Len(s) \in Nat
         /\ DOMAIN s = 1..Len(s) /\ Len(Append(s, x)) = Len(s) + 1
         /\ DOMAIN Append(s, x) = 1..(Len(s) + 1)
         /\ \A i \in 1..Len(s) : Append(s, x)[i] = s[i]
         /\ Append(s, x)[Len(s) + 1] = x
<1>1. PICK T : s \in Seq(T)
  BY DEF IsASequence
<1>2. s \in Seq(T \cup {x}) /\ x \in T \cup {x}
  BY <1>1
<1>3. Append(s, x) \in Seq(T \cup {x})
  BY <1>2
<1> QED
  BY <1>1, <1>2, <1>3 DEF IsASequence

LEMMA SeqShrinks ==
  ASSUME NEW s, IsASequence(s), s # <<>>
  PROVE  /\ IsASequence(Tail(s)) /\ Len(s) \in Nat \ {0}
         /\ Len(Tail(s)) = Len(s) - 1
         /\ \A i \in 1..(Len(s) - 1) : Tail(s)[i] = s[i + 1]
<1>1. PICK T : s \in Seq(T)
  BY DEF IsASequence
<1>2. Tail(s) \in Seq(T)
  BY <1>1
<1> QED
  BY <1>1, <1>2 DEF IsASequence

LEMMA CardinalityOfRepository == \A T : R!Cardinality(T) = Cardinality(T)
BY Zenon DEF R!Cardinality, Cardinality

\* How many of the replies i + 1 .. j of a history were executions.
RanWithin(rs, i, j) == {k \in (i + 1)..j : rs[k].ran}

LEMMA RanIsFinite ==
  ASSUME NEW rs, NEW i \in Int, NEW j \in Int
  PROVE  IsFiniteSet(RanWithin(rs, i, j))
         /\ Cardinality(RanWithin(rs, i, j)) \in Nat
<1>1. RanWithin(rs, i, j) \in SUBSET ((i + 1)..j) /\ IsFiniteSet((i + 1)..j)
  BY FS_Interval DEF RanWithin
<1> QED
  BY <1>1, FS_Subset, FS_CardinalityType

\* One more reply counts if it was an execution.
LEMMA RanGrows ==
  ASSUME NEW rs, IsASequence(rs), NEW x, NEW i \in 1..Len(rs)
  PROVE  LET new == Append(rs, x)
             n == Len(rs)
         IN /\ RanWithin(new, i, n) = RanWithin(rs, i, n)
            /\ x.ran => Cardinality(RanWithin(new, i, n + 1))
                          = Cardinality(RanWithin(rs, i, n)) + 1
            /\ ~x.ran => RanWithin(new, i, n + 1) = RanWithin(rs, i, n)
<1> DEFINE new == Append(rs, x)
           n == Len(rs)
<1>1. /\ n \in Nat /\ \A k \in 1..n : new[k] = rs[k]
      /\ new[n + 1] = x
  BY SeqGrows
<1> HIDE DEF new, n
<1>2. i \in 1..n
  BY DEF n
<1>3. RanWithin(new, i, n) = RanWithin(rs, i, n)
  BY <1>1, <1>2 DEF RanWithin
<1>4. (i + 1)..(n + 1) = ((i + 1)..n) \cup {n + 1}
  BY <1>1, <1>2
<1>5. CASE x.ran
  <2>1. RanWithin(new, i, n + 1) = RanWithin(rs, i, n) \cup {n + 1}
    BY <1>1, <1>3, <1>4, <1>5 DEF RanWithin
  <2>2. n + 1 \notin RanWithin(rs, i, n)
    BY <1>1, <1>2 DEF RanWithin
  <2>3. IsFiniteSet(RanWithin(rs, i, n))
    BY <1>1, <1>2, RanIsFinite
  <2> QED
    BY <1>3, <1>5, <2>1, <2>2, <2>3, FS_AddElement DEF new, n
<1>6. CASE ~x.ran
  <2>1. RanWithin(new, i, n + 1) = RanWithin(rs, i, n)
    BY <1>1, <1>3, <1>4, <1>6 DEF RanWithin
  <2> QED
    BY <1>3, <1>6, <2>1 DEF new, n
<1> QED
  BY <1>5, <1>6

EntryOf(a) ==
  [key |-> R!KeyOf(a.req), fp |-> R!Fingerprint(a.req), result |-> a.result]

Answered(a, b) ==
  b.result = IF R!Fingerprint(a.req) = R!Fingerprint(b.req)
             THEN a.result ELSE <<"mismatch", 0>>

Since(rs, i) == Cardinality(RanWithin(rs, i, Len(rs)))

\* A cache is a sequence of at most CacheSize entries, no two of one key.
IsCache(ca) ==
  /\ IsASequence(ca) /\ Len(ca) <= CacheSize
  /\ \A i, j \in DOMAIN ca : ca[i].key = ca[j].key => i = j

\* The cache holds the last executions, each at its place.
Remembers(ca, rs) ==
  \A i \in DOMAIN rs :
    rs[i].ran /\ Since(rs, i) < CacheSize =>
      /\ Len(ca) - Since(rs, i) \in DOMAIN ca
      /\ ca[Len(ca) - Since(rs, i)] = EntryOf(rs[i])

\* RepeatsAreRemembered of one connection.
Repeated(rs) ==
  \A j \in DOMAIN rs : \A i \in 1..(j - 1) :
    /\ rs[i].ran /\ R!KeyOf(rs[i].req) = R!KeyOf(rs[j].req)
    /\ Cardinality(RanWithin(rs, i, j - 1)) < CacheSize
    => ~rs[j].ran /\ Answered(rs[i], rs[j])

\* A reply may be added if it suits the executions still remembered.
LEMMA SuitableReply ==
  ASSUME NEW rs, IsASequence(rs), Repeated(rs), NEW x,
         \A i \in DOMAIN rs :
           /\ rs[i].ran /\ R!KeyOf(rs[i].req) = R!KeyOf(x.req)
           /\ Since(rs, i) < CacheSize
           => ~x.ran /\ Answered(rs[i], x)
  PROVE  Repeated(Append(rs, x))
<1> DEFINE new == Append(rs, x)
           n == Len(rs)
<1>1. /\ n \in Nat /\ DOMAIN rs = 1..n /\ DOMAIN new = 1..(n + 1)
      /\ \A i \in 1..n : new[i] = rs[i]
      /\ new[n + 1] = x
  BY SeqGrows
<1>2. \A i \in 1..n : RanWithin(new, i, n) = RanWithin(rs, i, n)
  BY RanGrows
<1> HIDE DEF new
<1> SUFFICES ASSUME NEW j \in 1..(n + 1), NEW i \in 1..(j - 1),
                    new[i].ran, R!KeyOf(new[i].req) = R!KeyOf(new[j].req),
                    Cardinality(RanWithin(new, i, j - 1)) < CacheSize
             PROVE  ~new[j].ran /\ Answered(new[i], new[j])
  BY <1>1 DEF Repeated, new
<1>3. i \in 1..n /\ new[i] = rs[i]
  BY <1>1
<1>4. CASE j = n + 1
  BY <1>1, <1>2, <1>3, <1>4 DEF Since
<1>5. CASE j \in 1..n
  <2>1. RanWithin(new, i, j - 1) = RanWithin(rs, i, j - 1)
    BY <1>1, <1>3, <1>5 DEF RanWithin
  <2>2. new[j] = rs[j]
    BY <1>1, <1>5
  <2> QED
    BY <1>1, <1>3, <1>5, <2>1, <2>2 DEF Repeated
<1> QED
  BY <1>1, <1>4, <1>5

\* What was not executed displaces nothing.
LEMMA RememberedStay ==
  ASSUME NEW ca, NEW rs, IsASequence(rs), Remembers(ca, rs), NEW x, ~x.ran
  PROVE  Remembers(ca, Append(rs, x))
<1> DEFINE new == Append(rs, x)
<1>1. /\ DOMAIN rs = 1..Len(rs) /\ DOMAIN new = 1..(Len(rs) + 1)
      /\ Len(new) = Len(rs) + 1 /\ Len(rs) \in Nat
      /\ \A i \in 1..Len(rs) : new[i] = rs[i]
      /\ new[Len(rs) + 1] = x
  BY SeqGrows
<1>2. \A i \in 1..Len(rs) : Since(new, i) = Since(rs, i)
  BY <1>1, RanGrows DEF Since
<1> HIDE DEF new
<1>3. \A i \in 1..(Len(rs) + 1) : new[i].ran => i \in 1..Len(rs)
  BY <1>1
<1> QED
  BY <1>1, <1>2, <1>3 DEF Remembers, new

Stored(ca, e) == Append(IF Len(ca) < CacheSize THEN ca ELSE Tail(ca), e)

LEMMA StoredLast ==
  ASSUME NEW ca, IsCache(ca), NEW e
  PROVE  LET new == Stored(ca, e)
         IN /\ IsASequence(new) /\ Len(ca) \in Nat
            /\ Len(new) \in 1..CacheSize /\ Len(new) <= Len(ca) + 1
            /\ new[Len(new)] = e
            /\ DOMAIN ca = 1..Len(ca) /\ DOMAIN new = 1..Len(new)
            /\ \A m \in 1..(Len(new) - 1) :
                 /\ Len(ca) - Len(new) + 1 + m \in 1..Len(ca)
                 /\ new[m] = ca[Len(ca) - Len(new) + 1 + m]
            /\ Len(ca) < CacheSize => Len(new) = Len(ca) + 1
            /\ ~(Len(ca) < CacheSize) => Len(new) = CacheSize
<1>1. /\ CacheSize \in Nat \ {0} /\ Len(ca) <= CacheSize
      /\ IsASequence(ca) /\ Len(ca) \in Nat /\ DOMAIN ca = 1..Len(ca)
  BY RepositoryAssumption, SeqGrows DEF IsCache
<1>2. CASE Len(ca) < CacheSize
  <2>1. Stored(ca, e) = Append(ca, e)
    BY <1>2 DEF Stored
  <2> QED
    BY <1>1, <1>2, <2>1, SeqGrows
<1>3. CASE ~(Len(ca) < CacheSize)
  <2>1. Stored(ca, e) = Append(Tail(ca), e)
    BY <1>3 DEF Stored
  <2>2. Len(ca) = CacheSize /\ ca # <<>>
    <3> DEFINE l == Len(ca)
    <3>1. l = CacheSize
      <4>1. l \in Nat /\ CacheSize \in Nat /\ l <= CacheSize
            /\ ~(l < CacheSize)
        BY <1>1, <1>3
      <4> HIDE DEF l
      <4> QED
        BY <4>1
    <3>2. ca = <<>> => l = 0
      OBVIOUS
    <3>3. CacheSize # 0
      BY <1>1
    <3> HIDE DEF l
    <3>4. ca # <<>>
      BY <3>1, <3>2, <3>3
    <3> QED
      BY <3>1, <3>4 DEF l
  <2>3. /\ IsASequence(Tail(ca)) /\ Len(Tail(ca)) = CacheSize - 1
        /\ \A m \in 1..(CacheSize - 1) : Tail(ca)[m] = ca[m + 1]
    BY <1>1, <2>2, SeqShrinks
  <2> QED
    BY <1>1, <2>1, <2>2, <2>3, SeqGrows
<1> QED
  BY <1>2, <1>3

\* An entry of a new key makes a cache of a cache.
LEMMA StoredIsCache ==
  ASSUME NEW ca, IsCache(ca), NEW e, \A m \in DOMAIN ca : ca[m].key # e.key
  PROVE  IsCache(Stored(ca, e))
<1> DEFINE new == Stored(ca, e)
<1>1. /\ IsASequence(new) /\ Len(ca) \in Nat /\ Len(new) \in 1..CacheSize
      /\ new[Len(new)] = e
      /\ DOMAIN ca = 1..Len(ca) /\ DOMAIN new = 1..Len(new)
      /\ \A m \in 1..(Len(new) - 1) :
           /\ Len(ca) - Len(new) + 1 + m \in 1..Len(ca)
           /\ new[m] = ca[Len(ca) - Len(new) + 1 + m]
      /\ CacheSize \in Nat
  BY StoredLast, RepositoryAssumption
<1> DEFINE a == Len(ca)
           b == Len(new)
<1> HIDE DEF new
<1>2. /\ a \in Nat /\ b \in Nat \ {0} /\ b <= CacheSize
      /\ DOMAIN ca = 1..a /\ DOMAIN new = 1..b /\ new[b] = e
      /\ \A m \in 1..(b - 1) : a - b + 1 + m \in 1..a
                              /\ new[m] = ca[a - b + 1 + m]
  <2>1. /\ a \in Nat /\ b \in Nat \ {0} /\ b <= CacheSize
        /\ DOMAIN ca = 1..a /\ DOMAIN new = 1..b /\ new[b] = e
    BY <1>1
  <2>2. ASSUME NEW m \in 1..(b - 1)
        PROVE  a - b + 1 + m \in 1..a /\ new[m] = ca[a - b + 1 + m]
    BY <1>1
  <2> QED
    BY <2>1, <2>2
<1>3. /\ \A m \in 1..a : ca[m].key # e.key
      /\ \A k, m \in 1..a : ca[k].key = ca[m].key => k = m
  BY <1>1 DEF IsCache
<1> HIDE DEF a, b
<1>4. ASSUME NEW i \in 1..b, NEW j \in 1..b, new[i].key = new[j].key
      PROVE  i = j
  <2>1. \A k \in 1..(b - 1) : new[k].key # e.key
    BY <1>2, <1>3
  <2>2. CASE i = b \/ j = b
    <3>1. i \in 1..(b - 1) \/ i = b
      BY <1>2
    <3>2. j \in 1..(b - 1) \/ j = b
      BY <1>2
    <3> QED
      BY <1>2, <1>4, <2>1, <2>2, <3>1, <3>2
  <2>3. CASE i \in 1..(b - 1) /\ j \in 1..(b - 1)
    <3>1. a - b + 1 + i = a - b + 1 + j
      BY <1>2, <1>3, <1>4, <2>3
    <3> QED
      BY <1>2, <3>1
  <2> QED
    BY <1>2, <2>2, <2>3
<1> QED
  BY <1>1, <1>2, <1>4 DEF IsCache, new, b

\* An execution is remembered from now on, and CacheSize - 1 before it are.
LEMMA RememberedMove ==
  ASSUME NEW ca, IsCache(ca), NEW rs, IsASequence(rs), Remembers(ca, rs),
         NEW x, x.ran
  PROVE  Remembers(Stored(ca, EntryOf(x)), Append(rs, x))
<1> DEFINE new == Append(rs, x)
           sc == Stored(ca, EntryOf(x))
           n == Len(rs)
<1>1. /\ DOMAIN rs = 1..n /\ DOMAIN new = 1..(n + 1)
      /\ Len(new) = n + 1 /\ n \in Nat
      /\ \A i \in 1..n : new[i] = rs[i]
      /\ new[n + 1] = x
  BY SeqGrows
<1>2. /\ Len(ca) \in Nat /\ Len(sc) \in 1..CacheSize
      /\ sc[Len(sc)] = EntryOf(x)
      /\ DOMAIN ca = 1..Len(ca) /\ DOMAIN sc = 1..Len(sc)
      /\ \A m \in 1..(Len(sc) - 1) : sc[m] = ca[Len(ca) - Len(sc) + 1 + m]
      /\ Len(ca) < CacheSize => Len(sc) = Len(ca) + 1
      /\ ~(Len(ca) < CacheSize) => Len(sc) = CacheSize
      /\ Len(ca) <= CacheSize /\ CacheSize \in Nat
  BY StoredLast, RepositoryAssumption DEF IsCache
<1>3. ASSUME NEW i \in 1..n
      PROVE  Since(rs, i) \in Nat /\ Since(new, i) = Since(rs, i) + 1
  <2>1. i \in 1..Len(rs) /\ i \in Int /\ Len(rs) \in Int
    BY <1>1
  <2>2. Cardinality(RanWithin(rs, i, Len(rs))) \in Nat
    BY <2>1, RanIsFinite
  <2>3. Cardinality(RanWithin(Append(rs, x), i, Len(rs) + 1))
          = Cardinality(RanWithin(rs, i, Len(rs))) + 1
    BY <2>1, RanGrows
  <2> QED
    BY <1>1, <2>2, <2>3 DEF Since
<1>4. Since(new, n + 1) = 0
  <2>1. RanWithin(new, n + 1, n + 1) = {}
    BY <1>1 DEF RanWithin
  <2> QED
    BY <1>1, <2>1, FS_EmptySet DEF Since
<1> DEFINE a == Len(ca)
           b == Len(sc)
           T(i) == Since(rs, i)
<1>5. /\ a \in Nat /\ b \in Nat \ {0} /\ CacheSize \in Nat /\ a <= CacheSize
      /\ DOMAIN sc = 1..b /\ sc[b] = EntryOf(x)
      /\ \A m \in 1..(b - 1) : sc[m] = ca[a - b + 1 + m]
      /\ a < CacheSize => b = a + 1
      /\ ~(a < CacheSize) => b = CacheSize
  <2>1. a \in Nat /\ b \in 1..CacheSize /\ CacheSize \in Nat
    BY <1>2
  <2>2. b \in Nat \ {0}
    <3> HIDE DEF a, b, sc
    <3> QED
      BY <2>1
  <2> HIDE DEF sc
  <2> QED
    BY <1>2, <2>1, <2>2, Zenon
<1>6. \A i \in 1..n : rs[i].ran /\ T(i) < CacheSize =>
        a - T(i) \in 1..a /\ ca[a - T(i)] = EntryOf(rs[i])
  BY <1>1, <1>2 DEF Remembers
<1>7. \A i \in 1..n : T(i) \in Nat /\ Since(new, i) = T(i) + 1
  BY <1>3
<1> HIDE DEF new, sc, n, a, b, T
<1>8. ASSUME NEW i \in 1..n, new[i].ran, Since(new, i) < CacheSize
      PROVE  b - Since(new, i) \in 1..b
             /\ sc[b - Since(new, i)] = EntryOf(new[i])
  <2>1. /\ T(i) \in Nat /\ T(i) + 1 < CacheSize /\ T(i) < CacheSize
        /\ Since(new, i) = T(i) + 1
    BY <1>5, <1>7, <1>8
  <2>2. new[i] = rs[i]
    BY <1>1
  <2>3. a - T(i) \in 1..a /\ ca[a - T(i)] = EntryOf(rs[i])
    BY <1>6, <1>8, <2>1, <2>2
  <2>4. /\ b - (T(i) + 1) \in 1..(b - 1)
        /\ a - b + 1 + (b - (T(i) + 1)) = a - T(i)
    BY <1>5, <2>1, <2>3, SMTT(30)
  <2>5. sc[b - (T(i) + 1)] = ca[a - T(i)]
    BY <1>5, <2>4
  <2> QED
    BY <1>5, <2>1, <2>2, <2>3, <2>4, <2>5
<1>9. ASSUME NEW i \in 1..(n + 1), new[i].ran, Since(new, i) < CacheSize
      PROVE  b - Since(new, i) \in 1..b
             /\ sc[b - Since(new, i)] = EntryOf(new[i])
  <2>1. CASE i = n + 1
    BY <1>1, <1>4, <1>5, <2>1
  <2>2. CASE i # n + 1
    <3>1. i \in 1..n
      BY <1>1, <2>2
    <3> QED
      BY <1>8, <1>9, <3>1
  <2> QED
    BY <2>1, <2>2
<1> QED
  BY <1>1, <1>5, <1>9 DEF Remembers, new, sc, b

Busy(c) == Doing(c) \in {"gate", "work", "act"}

\* What a connection remembers suits what it answered, and it does not run a
\* request whose result it remembers.
MemoryOf(c) ==
  /\ IsCache(rCache[c]) /\ IsASequence(rReplies[c])
  /\ Remembers(rCache[c], rReplies[c]) /\ Repeated(rReplies[c])
  /\ Busy(c) =>
       \A m \in DOMAIN rCache[c] : rCache[c][m].key # R!KeyOf(rJob[c].req)

MemoryInv ==
  /\ Jobs
  /\ rCache = [c \in Peers |-> rCache[c]]
  /\ rReplies = [c \in Peers |-> rReplies[c]]
  /\ \A c \in Peers : MemoryOf(c)

LEMMA MemoryInit == R!Init => MemoryInv
<1> SUFFICES ASSUME R!Init PROVE MemoryInv
  OBVIOUS
<1>1. /\ rJob = [c \in Peers |-> R!Idle]
      /\ rCache = [c \in Peers |-> <<>>]
      /\ rReplies = [c \in Peers |-> <<>>]
  BY DEF R!Init
<1>2. Jobs /\ \A c \in Peers : ~Busy(c)
  BY <1>1 DEF Jobs, Busy, Doing, R!Idle
<1>3. IsASequence(<<>>)
  <2>1. <<>> \in Seq({})
    OBVIOUS
  <2> QED
    BY <2>1 DEF IsASequence
<1>4. DOMAIN <<>> = {} /\ Len(<<>>) = 0
  OBVIOUS
<1>5. IsCache(<<>>) /\ Remembers(<<>>, <<>>) /\ Repeated(<<>>)
  BY <1>3, <1>4, RepositoryAssumption DEF IsCache, Remembers, Repeated
<1> QED
  BY <1>1, <1>2, <1>3, <1>5 DEF MemoryInv, MemoryOf

\* One connection's memory changes, the others keep theirs.
LEMMA OneRemembers ==
  ASSUME MemoryInv, NEW c \in Peers,
         \E x : rJob' = [rJob EXCEPT ![c] = x], Jobs',
         \E x : rCache' = [rCache EXCEPT ![c] = x],
         \E x : rReplies' = [rReplies EXCEPT ![c] = x],
         MemoryOf(c)'
  PROVE  MemoryInv'
<1>1. \A d \in Peers \ {c} : /\ rJob'[d] = rJob[d] /\ rCache'[d] = rCache[d]
                             /\ rReplies'[d] = rReplies[d]
  BY DEF MemoryInv, Jobs
<1>2. ASSUME NEW d \in Peers \ {c} PROVE MemoryOf(d)'
  <2>1. /\ rJob'[d] = rJob[d] /\ rCache'[d] = rCache[d]
        /\ rReplies'[d] = rReplies[d]
    BY <1>1
  <2>2. MemoryOf(d)
    BY DEF MemoryInv
  <2> QED
    BY <2>1, <2>2, Zenon DEF MemoryOf, Busy, Doing
<1>3. /\ rCache' = [d \in Peers |-> rCache'[d]]
      /\ rReplies' = [d \in Peers |-> rReplies'[d]]
  BY DEF MemoryInv
<1> QED
  BY <1>2, <1>3 DEF MemoryInv

LEMMA NothingToRemember ==
  ASSUME MemoryInv, UNCHANGED <<rJob, rCache, rReplies>>
  PROVE  MemoryInv'
BY DEF MemoryInv, Jobs, MemoryOf, Busy, Doing

\* A request met again is answered from memory.
LEMMA ReceiveRemembers ==
  ASSUME MemoryInv, NEW c \in Peers, NEW r \in RepoRequests, R!Receive(c, r)
  PROVE  MemoryInv'
<1> DEFINE ca == rCache[c]
           rs == rReplies[c]
<1>1. UNCHANGED rCache /\ rJob[c] = R!Idle
  BY DEF R!Receive
<1>2. /\ IsCache(ca) /\ IsASequence(rs) /\ Remembers(ca, rs) /\ Repeated(rs)
      /\ Jobs
  BY DEF MemoryInv, MemoryOf
<1>3. CASE R!EntriesOf(c, r) = {}
  <2>1. /\ rJob' = [rJob EXCEPT ![c] = [step |-> "gate", req |-> r]]
        /\ UNCHANGED rReplies
    BY <1>3 DEF R!Receive
  <2>2. rJob'[c] = [step |-> "gate", req |-> r] /\ Jobs'
    BY <1>2, <2>1 DEF Jobs, Doing
  <2>3. \A m \in DOMAIN ca : ca[m].key # R!KeyOf(rJob'[c].req)
    BY <1>3, <2>2 DEF R!EntriesOf
  <2>4. MemoryOf(c)'
    BY <1>1, <1>2, <2>1, <2>3 DEF MemoryOf
  <2>5. rCache' = [rCache EXCEPT ![c] = ca]
        /\ rReplies' = [rReplies EXCEPT ![c] = rs]
    BY <1>1, <2>1 DEF MemoryInv
  <2> QED
    BY <2>1, <2>2, <2>4, <2>5, OneRemembers
<1>4. CASE R!EntriesOf(c, r) # {}
  <2> DEFINE m == CHOOSE i \in R!EntriesOf(c, r) : TRUE
             e == ca[m]
             x == [req |-> r,
                   result |-> IF e.fp = R!Fingerprint(r) THEN e.result
                              ELSE <<"mismatch", 0>>,
                   ran |-> FALSE]
  <2>1. rReplies' = [rReplies EXCEPT ![c] = Append(@, x)] /\ UNCHANGED rJob
    BY <1>4 DEF R!Receive, R!Reply
  <2>2. m \in DOMAIN ca /\ ca[m].key = R!KeyOf(r)
    BY <1>4 DEF R!EntriesOf
  <2>3. /\ x.req = r /\ ~x.ran
        /\ x.result = IF ca[m].fp = R!Fingerprint(r) THEN ca[m].result
                      ELSE <<"mismatch", 0>>
    OBVIOUS
  <2> HIDE DEF m, e, x
  <2>4. ASSUME NEW i \in DOMAIN rs, rs[i].ran,
               R!KeyOf(rs[i].req) = R!KeyOf(x.req), Since(rs, i) < CacheSize
        PROVE  Answered(rs[i], x)
    <3> DEFINE p == Len(ca) - Since(rs, i)
    <3>1. p \in DOMAIN ca /\ ca[p] = EntryOf(rs[i])
      BY <1>2, <2>4 DEF Remembers
    <3>2. /\ ca[p].key = R!KeyOf(rs[i].req) /\ ca[p].result = rs[i].result
          /\ ca[p].fp = R!Fingerprint(rs[i].req)
      BY <3>1 DEF EntryOf
    <3> HIDE DEF p
    <3>3. p = m
      BY <1>2, <2>2, <2>3, <2>4, <3>1, <3>2 DEF IsCache
    <3> QED
      BY <2>3, <3>2, <3>3 DEF Answered
  <2>5. Repeated(Append(rs, x))
    BY <1>2, <2>3, <2>4, SuitableReply
  <2>6. Remembers(ca, Append(rs, x)) /\ IsASequence(Append(rs, x))
    BY <1>2, <2>3, RememberedStay, SeqGrows
  <2>7. rReplies'[c] = Append(rs, x)
        /\ rReplies' = [rReplies EXCEPT ![c] = Append(rs, x)]
    BY <2>1 DEF MemoryInv
  <2>8. Jobs' /\ ~Busy(c)'
    BY <1>1, <1>2, <2>1 DEF Jobs, Busy, Doing, R!Idle
  <2>9. MemoryOf(c)'
    BY <1>1, <1>2, <2>5, <2>6, <2>7, <2>8 DEF MemoryOf
  <2>10. rCache' = [rCache EXCEPT ![c] = ca] /\ rJob' = [rJob EXCEPT ![c] = @]
    BY <1>1, <1>2, <2>1 DEF MemoryInv, Jobs
  <2> QED
    BY <2>7, <2>8, <2>9, <2>10, OneRemembers
<1> QED
  BY <1>3, <1>4

\* A request that was executed is remembered.
LEMMA FinishRemembers ==
  ASSUME MemoryInv, NEW c \in Peers, Finishes(c)
  PROVE  MemoryInv'
<1> DEFINE ca == rCache[c]
           rs == rReplies[c]
<1>1. PICK code, commit : R!Finish(c, code, commit)
  BY DEF Finishes
<1> DEFINE x == [req |-> rJob[c].req, result |-> <<code, commit>>,
                 ran |-> TRUE]
<1>2. /\ IsCache(ca) /\ IsASequence(rs) /\ Remembers(ca, rs) /\ Repeated(rs)
      /\ Jobs
      /\ \A m \in DOMAIN ca : ca[m].key # R!KeyOf(rJob[c].req)
  BY DEF MemoryInv, MemoryOf, Finishes, Busy
<1>3. /\ EntryOf(x) = [key |-> R!KeyOf(rJob[c].req),
                       fp |-> R!Fingerprint(rJob[c].req),
                       result |-> <<code, commit>>]
      /\ x.ran /\ x.req = rJob[c].req
      /\ EntryOf(x).key = R!KeyOf(rJob[c].req)
  BY DEF EntryOf
<1>4. /\ rCache' = [rCache EXCEPT ![c] = Stored(ca, EntryOf(x))]
      /\ rReplies' = [rReplies EXCEPT ![c] = Append(rs, x)]
      /\ rJob' = [rJob EXCEPT ![c] = R!Idle]
  BY <1>1, <1>3 DEF R!Finish, R!Store, R!Reply, Stored
<1> HIDE DEF x
<1>5. ASSUME NEW i \in DOMAIN rs, rs[i].ran,
             R!KeyOf(rs[i].req) = R!KeyOf(x.req), Since(rs, i) < CacheSize
      PROVE  FALSE
  <2> DEFINE p == Len(ca) - Since(rs, i)
  <2>1. p \in DOMAIN ca /\ ca[p] = EntryOf(rs[i])
    BY <1>2, <1>5 DEF Remembers
  <2>2. ca[p].key = R!KeyOf(rs[i].req)
    BY <2>1 DEF EntryOf
  <2> HIDE DEF p
  <2> QED
    BY <1>2, <1>3, <1>5, <2>1, <2>2
<1>6. Repeated(Append(rs, x)) /\ IsASequence(Append(rs, x))
  BY <1>2, <1>5, SuitableReply, SeqGrows
<1>7. IsCache(Stored(ca, EntryOf(x)))
  BY <1>2, <1>3, StoredIsCache
<1>8. Remembers(Stored(ca, EntryOf(x)), Append(rs, x))
  BY <1>2, <1>3, RememberedMove
<1>9. Jobs' /\ ~Busy(c)'
  BY <1>2, <1>4 DEF Jobs, Busy, Doing, R!Idle
<1>10. rCache'[c] = Stored(ca, EntryOf(x)) /\ rReplies'[c] = Append(rs, x)
  BY <1>4 DEF MemoryInv
<1>11. MemoryOf(c)'
  BY <1>6, <1>7, <1>8, <1>9, <1>10 DEF MemoryOf
<1> QED
  BY <1>4, <1>9, <1>11, OneRemembers

LEMMA MemoryKeeps == MemoryInv /\ [R!Next]_rVars => MemoryInv'
<1> SUFFICES ASSUME MemoryInv, [R!Next]_rVars PROVE MemoryInv'
  OBVIOUS
<1>1. ASSUME NEW c \in Peers, Begins(c) PROVE MemoryInv'
  <2>1. /\ rJob[c] \in [step : {"gate"}, req : RepoRequests]
        /\ rJob' = [rJob EXCEPT ![c].step = "work"]
        /\ UNCHANGED <<rCache, rReplies>>
    BY <1>1 DEF Begins, MemoryInv, Jobs
  <2>2. /\ rJob'[c] = [rJob[c] EXCEPT !.step = "work"]
        /\ rJob' = [d \in Peers |-> rJob'[d]]
        /\ \A d \in Peers \ {c} : rJob'[d] = rJob[d]
    BY <2>1, Zenon DEF MemoryInv, Jobs
  <2>3. Doing(c)' = "work" /\ rJob'[c].req = rJob[c].req /\ Busy(c)
    BY <2>1, <2>2 DEF Doing, Busy
  <2>4. Jobs'
    BY <2>2, <2>3 DEF MemoryInv, Jobs, Doing
  <2>5. MemoryOf(c)'
    BY <2>1, <2>3 DEF MemoryInv, MemoryOf
  <2>6. /\ rCache' = [rCache EXCEPT ![c] = @]
        /\ rReplies' = [rReplies EXCEPT ![c] = @]
        /\ rJob' = [rJob EXCEPT ![c] = [rJob[c] EXCEPT !.step = "work"]]
    BY <2>1 DEF MemoryInv
  <2> QED
    BY <2>4, <2>5, <2>6, OneRemembers
<1>2. ASSUME NEW c \in Peers, GoesOn(c) PROVE MemoryInv'
  <2> DEFINE x == [step |-> "act", req |-> rJob[c].req, saw |-> R!Seen,
                   around |-> rEdits]
  <2>1. /\ rJob' = [rJob EXCEPT ![c] = x]
        /\ UNCHANGED <<rCache, rReplies>> /\ Busy(c)
    BY <1>2 DEF GoesOn, R!Proceed, Busy
  <2>2. x.step = "act" /\ x.req = rJob[c].req
    OBVIOUS
  <2> HIDE DEF x
  <2>3. /\ rJob'[c] = x /\ rJob' = [d \in Peers |-> rJob'[d]]
        /\ \A d \in Peers \ {c} : rJob'[d] = rJob[d]
    BY <2>1, Zenon DEF MemoryInv, Jobs
  <2>4. Jobs'
    BY <2>2, <2>3 DEF MemoryInv, Jobs, Doing
  <2>5. MemoryOf(c)'
    BY <2>1, <2>2, <2>3 DEF MemoryInv, MemoryOf
  <2>6. /\ rCache' = [rCache EXCEPT ![c] = @]
        /\ rReplies' = [rReplies EXCEPT ![c] = @]
    BY <2>1 DEF MemoryInv
  <2> QED
    BY <2>1, <2>4, <2>5, <2>6, OneRemembers
<1>3. CASE \/ R!GetHistory \/ R!Edit \/ R!Detach \/ UNCHANGED rVars
           \/ \E b \in Branches : R!Orphan(b) \/ R!Elsewhere(b)
  BY <1>3, NothingToRemember
  DEF R!GetHistory, R!Edit, R!Detach, R!Orphan, R!Elsewhere, rVars
<1> QED
  BY <1>1, <1>2, <1>3, HandleCases, FinishRemembers, ReceiveRemembers
  DEF R!Next

\* A request repeated on its connection gets the answer of the first one and
\* is not executed again, unless CacheSize others were executed in between.
THEOREM ResultsAreRemembered == HostSpec => []RepeatsAreRemembered
<1>1. HostSpec => []MemoryInv
  BY RepositoryPart, MemoryInit, MemoryKeeps, PTL DEF HostSpec
<1>2. MemoryInv => RepeatsAreRemembered
  BY CardinalityOfRepository
  DEF MemoryInv, MemoryOf, Repeated, Answered, RanWithin,
      RepeatsAreRemembered, R!RepeatsAreRemembered
<1> QED
  BY <1>1, <1>2, PTL

-----------------------------------------------------------------------------
(* The repository: the pages of its history.                               *)

\* First parents: of every commit an older one, or 0 of a root.
IsHistory(ps) == ps \in Seq(Nat) /\ \A n \in DOMAIN ps : ps[n] \in 0..(n - 1)

\* Chain of RepoCommands, in the history ps.
ChainIn(ps, n) ==
  LET from[k \in 0..Len(ps)] ==
        IF k = 0 THEN <<>> ELSE <<k>> \o from[ps[k]]
  IN from[n]

LEMMA ChainOfRepository == \A n : R!Chain(n) = ChainIn(rParent, n)
BY DEF R!Chain, ChainIn

\* A chain is a commit and the chain of its parent.
LEMMA ChainLinks ==
  ASSUME NEW ps, IsHistory(ps)
  PROVE  /\ ChainIn(ps, 0) = <<>>
         /\ \A n \in 1..Len(ps) : ChainIn(ps, n) = <<n>> \o ChainIn(ps, ps[n])
<1> DEFINE N == Len(ps)
           T == Seq(Nat)
           next == [a \in (1..N) \X T |-> <<a[1]>> \o a[2]]
           Links(h) == h = [k \in 0..N |->
                              IF k = 0 THEN <<>> ELSE <<k>> \o h[ps[k]]]
           from == CHOOSE h : Links(h)
<1>1. /\ N \in Nat /\ ps \in [1..N -> Nat]
      /\ \A k \in 1..N : ps[k] < k /\ ps[k] \in 0..N
  BY DEF IsHistory
<1>2. <<>> \in T
  OBVIOUS
<1>3. next \in [(1..N) \X T -> T]
  <2>1. ASSUME NEW a \in (1..N) \X T PROVE <<a[1]>> \o a[2] \in T
    OBVIOUS
  <2> QED
    BY <2>1
<1>4. \A k \in 1..N, x \in T : next[<<k, x>>] = <<k>> \o x
  <2> TAKE k \in 1..N, x \in T
  <2>1. <<k, x>> \in (1..N) \X T
    OBVIOUS
  <2> QED
    BY <2>1
<1> HIDE DEF N, T, next
<1>5. PICK g \in [0..N -> T] : Recursive(g, N, <<>>, next, ps)
  BY <1>1, <1>2, <1>3, RecursionDefines
<1>6. Links(g)
  <2>1. g = [k \in 0..N |-> IF k = 0 THEN <<>> ELSE next[<<k, g[ps[k]]>>]]
    BY <1>5 DEF Recursive
  <2>2. \A k \in 0..N : g[k] = IF k = 0 THEN <<>> ELSE <<k>> \o g[ps[k]]
    <3> TAKE k \in 0..N
    <3>1. g[k] = IF k = 0 THEN <<>> ELSE next[<<k, g[ps[k]]>>]
      BY <2>1
    <3>2. CASE k = 0
      BY <3>1, <3>2
    <3>3. CASE k # 0
      <4>1. k \in 1..N /\ g[ps[k]] \in T
        BY <1>1, <1>5, <3>3
      <4> QED
        BY <1>4, <3>1, <3>3, <4>1
    <3> QED
      BY <3>2, <3>3
  <2>3. g = [k \in 0..N |-> g[k]]
    BY <1>5
  <2> QED
    BY <2>2, <2>3
<1>7. Links(from)
  <2> HIDE DEF Links
  <2> QED
    BY <1>6
<1> HIDE DEF from
<1>8. \A k \in 0..N : from[k] = IF k = 0 THEN <<>> ELSE <<k>> \o from[ps[k]]
  BY <1>7
<1>9. \A n : ChainIn(ps, n) = from[n]
  BY DEF ChainIn, from, N
<1>10. from[0] = <<>> /\ \A n \in 1..N : from[n] = <<n>> \o from[ps[n]]
  BY <1>1, <1>8
<1> QED
  BY <1>1, <1>9, <1>10 DEF N

\* A chain is made of commits.
LEMMA ChainTyped ==
  ASSUME NEW ps, IsHistory(ps)
  PROVE  \A n \in 0..Len(ps) : ChainIn(ps, n) \in Seq(1..Len(ps))
<1> DEFINE N == Len(ps)
           S == {n \in Nat : n <= N => ChainIn(ps, n) \in Seq(1..N)}
<1>1. /\ N \in Nat /\ \A k \in 1..N : ps[k] \in 0..(k - 1)
      /\ ChainIn(ps, 0) = <<>>
      /\ \A n \in 1..N : ChainIn(ps, n) = <<n>> \o ChainIn(ps, ps[n])
  BY ChainLinks DEF IsHistory
<1> HIDE DEF N
<1>2. ASSUME NEW n \in 0..N, 0..(n - 1) \subseteq S PROVE n \in S
  <2>1. CASE n = 0
    <3>1. <<>> \in Seq(1..N)
      OBVIOUS
    <3> QED
      BY <1>1, <2>1, <3>1
  <2>2. CASE n # 0
    <3>1. n \in 1..N /\ ps[n] \in S /\ ps[n] <= N
      BY <1>1, <1>2, <2>2
    <3>2. ChainIn(ps, ps[n]) \in Seq(1..N)
      BY <3>1
    <3>3. <<n>> \o ChainIn(ps, ps[n]) \in Seq(1..N)
      BY <3>1, <3>2
    <3>4. ChainIn(ps, n) = <<n>> \o ChainIn(ps, ps[n])
      BY <1>1, <3>1
    <3> HIDE DEF S
    <3>5. ChainIn(ps, n) \in Seq(1..N)
      BY <3>3, <3>4
    <3>6. n \in Nat
      OBVIOUS
    <3> QED
      BY <3>5, <3>6 DEF S
  <2> QED
    BY <2>1, <2>2
<1>3. 0..N \subseteq S
  <2> HIDE DEF S
  <2> QED
    BY <1>1, <1>2, StrongInduction
<1> QED
  BY <1>3 DEF N

\* What follows a commit in a chain is the chain of its parent.
Follows(s, i, t) ==
  Len(t) = Len(s) - i /\ \A j \in 1..Len(t) : t[j] = s[i + j]

LEMMA ChainGoesOn ==
  ASSUME NEW ps, IsHistory(ps)
  PROVE  \A n \in 0..Len(ps) : \A i \in 1..Len(ChainIn(ps, n)) :
           Follows(ChainIn(ps, n), i, ChainIn(ps, ps[ChainIn(ps, n)[i]]))
<1> DEFINE N == Len(ps)
           Ch(n) == ChainIn(ps, n)
           Goes(n) ==
             \A i \in 1..Len(Ch(n)) : Follows(Ch(n), i, Ch(ps[Ch(n)[i]]))
           S == {n \in Nat : n <= N => Goes(n)}
<1>1. /\ N \in Nat /\ \A k \in 1..N : ps[k] \in 0..(k - 1)
      /\ Ch(0) = <<>> /\ \A n \in 1..N : Ch(n) = <<n>> \o Ch(ps[n])
      /\ \A n \in 0..N : Ch(n) \in Seq(1..N)
  BY ChainLinks, ChainTyped, SMTT(30) DEF IsHistory
<1> HIDE DEF N, Ch
<1>2. ASSUME NEW n \in 0..N, 0..(n - 1) \subseteq S PROVE n \in S
  <2>1. CASE n = 0
    <3>1. Goes(0)
      BY <1>1
    <3> QED
      BY <2>1, <3>1
  <2>2. CASE n # 0
    <3> DEFINE m == ps[n]
               s == Ch(m)
    <3>1. n \in 1..N /\ m \in 0..N /\ Goes(m)
      <4>1. n \in 1..N /\ m \in 0..(n - 1) /\ m \in 0..N
        BY <1>1, <2>2
      <4> HIDE DEF Goes, m
      <4>2. m \in S
        BY <1>2, <4>1
      <4> QED
        BY <4>1, <4>2
    <3>2. s \in Seq(1..N) /\ Ch(n) = <<n>> \o s
      BY <1>1, <3>1
    <3>3. \A i \in 1..Len(s) : Follows(s, i, Ch(ps[s[i]]))
      BY <3>1
    <3> HIDE DEF s
    <3>4. /\ Len(Ch(n)) = Len(s) + 1 /\ Ch(n)[1] = n
          /\ \A j \in 1..Len(s) : Ch(n)[j + 1] = s[j]
          /\ Len(s) \in Nat
      BY <3>1, <3>2
    <3>5. ASSUME NEW i \in 1..Len(Ch(n))
          PROVE  Follows(Ch(n), i, Ch(ps[Ch(n)[i]]))
      <4>1. CASE i = 1
        <5>1. Ch(ps[Ch(n)[i]]) = s
          BY <3>4, <4>1 DEF s
        <5> QED
          BY <3>4, <4>1, <5>1 DEF Follows
      <4>2. CASE i # 1
        <5> DEFINE k == i - 1
                   t == Ch(ps[s[k]])
        <5>1. k \in 1..Len(s) /\ i = k + 1
          BY <3>4, <4>2
        <5>2. Ch(n)[i] = s[k]
          BY <3>4, <5>1
        <5>3. /\ Len(t) = Len(s) - k
              /\ \A j \in 1..Len(t) : t[j] = s[k + j]
          BY <3>3, <5>1 DEF Follows
        <5> HIDE DEF t, k
        <5>4. Len(t) = Len(Ch(n)) - i
          BY <3>4, <5>1, <5>3
        <5>5. ASSUME NEW j \in 1..Len(t) PROVE t[j] = Ch(n)[i + j]
          <6>1. k + j \in 1..Len(s) /\ (k + j) + 1 = i + j
            BY <3>4, <5>1, <5>3
          <6> QED
            BY <3>4, <5>3, <6>1
        <5> QED
          BY <5>2, <5>4, <5>5 DEF Follows, t
      <4> QED
        BY <4>1, <4>2
    <3>6. Goes(n)
      BY <3>5
    <3> HIDE DEF Goes
    <3> QED
      BY <3>6
  <2> QED
    BY <2>1, <2>2
<1>3. 0..N \subseteq S
  <2> HIDE DEF S
  <2> QED
    BY <1>1, <1>2, StrongInduction
<1>4. \A n \in 0..N : Goes(n)
  <2> HIDE DEF Goes
  <2> QED
    BY <1>3
<1> QED
  BY <1>4 DEF N, Ch

\* A new commit changes no chain.
LEMMA ChainStays ==
  ASSUME NEW ps, IsHistory(ps), NEW p \in 0..Len(ps)
  PROVE  /\ IsHistory(Append(ps, p))
         /\ \A n \in 0..Len(ps) : ChainIn(Append(ps, p), n) = ChainIn(ps, n)
<1> DEFINE N == Len(ps)
           qs == Append(ps, p)
           S == {n \in Nat : n <= N => ChainIn(qs, n) = ChainIn(ps, n)}
<1>1. /\ N \in Nat /\ \A k \in 1..N : ps[k] \in 0..(k - 1)
      /\ ps \in Seq(Nat) /\ DOMAIN ps = 1..N
  BY DEF IsHistory
<1>2. /\ qs \in Seq(Nat) /\ Len(qs) = N + 1 /\ DOMAIN qs = 1..(N + 1)
      /\ qs[N + 1] = p /\ \A k \in 1..N : qs[k] = ps[k]
  BY <1>1
<1> HIDE DEF qs, N
<1>3. IsHistory(qs)
  <2>1. p \in 0..N
    BY DEF N
  <2>2. \A n \in 1..(N + 1) : n \in 1..N \/ n = N + 1
    BY <1>1
  <2> QED
    BY <1>1, <1>2, <2>1, <2>2 DEF IsHistory
<1>4. /\ ChainIn(ps, 0) = <<>> /\ ChainIn(qs, 0) = <<>>
      /\ \A n \in 1..N : /\ ChainIn(ps, n) = <<n>> \o ChainIn(ps, ps[n])
                         /\ ChainIn(qs, n) = <<n>> \o ChainIn(qs, ps[n])
  <2>1. /\ ChainIn(ps, 0) = <<>>
        /\ \A n \in 1..N : ChainIn(ps, n) = <<n>> \o ChainIn(ps, ps[n])
    BY ChainLinks DEF N
  <2>2. /\ ChainIn(qs, 0) = <<>>
        /\ \A n \in 1..Len(qs) : ChainIn(qs, n) = <<n>> \o ChainIn(qs, qs[n])
    BY <1>3, ChainLinks
  <2>3. \A n \in 1..N : n \in 1..Len(qs)
    BY <1>1, <1>2
  <2> QED
    BY <1>2, <2>1, <2>2, <2>3
<1>5. ASSUME NEW n \in 0..N, 0..(n - 1) \subseteq S PROVE n \in S
  <2>1. CASE n = 0
    BY <1>1, <1>4, <2>1
  <2>2. CASE n # 0
    <3>1. n \in 1..N /\ ps[n] \in S /\ ps[n] <= N
      BY <1>1, <1>5, <2>2
    <3>2. ChainIn(qs, ps[n]) = ChainIn(ps, ps[n])
      BY <3>1
    <3>3. ChainIn(qs, n) = ChainIn(ps, n)
      BY <1>4, <3>1, <3>2
    <3> QED
      BY <3>1, <3>3
  <2> QED
    BY <2>1, <2>2
<1>6. 0..N \subseteq S
  <2> HIDE DEF S
  <2> QED
    BY <1>1, <1>5, StrongInduction
<1> QED
  BY <1>3, <1>6 DEF N, qs

Commits == 0..Len(rParent)
Heads == Branches \cup {R!Detached}

RepoTyped ==
  /\ IsHistory(rParent) /\ Len(rParent) <= MaxCommits
  /\ rTip \in [Branches -> Commits] /\ rRemote \in [Branches -> Commits]
  /\ rTracking \in [Branches -> Commits]
  /\ rHead \in Heads /\ rAt \in Commits /\ rTree \in R!Trees

\* A checkout that goes on names a branch.
StepsTyped ==
  /\ rGate \in Peers \cup {R!NoOne}
  /\ \A c \in Peers :
       /\ Doing(c) \in {"idle", "gate", "work", "act"}
       /\ Doing(c) = "act" /\ rJob[c].req.op = "branch_switch" =>
            rJob[c].req.arg \in Branches

\* The pages so far are the first commits of the chain, and the cursor is the
\* last of them.
PageType(ps) == [start : 0..Len(ps), got : Seq(Nat), cursor : 0..Len(ps),
                 cut : BOOLEAN]

Paged(ps, page) ==
  LET all == ChainIn(ps, page.start)  n == Len(page.got)
  IN /\ page \in PageType(ps)
     /\ page.cursor = 0 /\ ~page.cut => page.got = all
     /\ page.cursor # 0 => n \in 1..(Len(all) - 1) /\ page.cursor = all[n]
     /\ n <= Len(all) /\ \A j \in 1..n : page.got[j] = all[j]

PageInv == RepoTyped /\ StepsTyped /\ Paged(rParent, rPage)

LEMMA HeadIsCommit == RepoTyped => R!HeadCommit \in Commits
BY DEF RepoTyped, Heads, R!HeadCommit, R!Detached

LEMMA PageInit == R!Init => PageInv
<1> SUFFICES ASSUME R!Init PROVE PageInv
  OBVIOUS
<1>1. /\ rParent \in {<<>>, <<0>>, <<0, 1>>}
      /\ rTip = [b \in Branches |-> IF b = "main" THEN Len(rParent) ELSE 0]
      /\ rHead = "main" /\ rAt = 0 /\ rTree = R!Clean
      /\ rRemote = rTip /\ rTracking = rTip
      /\ rGate = R!NoOne /\ rJob = [c \in Peers |-> [step |-> "idle"]]
      /\ rPage = R!NoPages
  BY DEF R!Init, R!Idle
<1>2. IsHistory(rParent) /\ Len(rParent) \in Nat /\ Len(rParent) <= MaxCommits
  <2>1. /\ <<>> \in Seq(Nat) /\ Len(<<>>) = 0 /\ DOMAIN <<>> = {}
        /\ <<0>> \in Seq(Nat) /\ Len(<<0>>) = 1 /\ DOMAIN <<0>> = {1}
        /\ <<0>>[1] = 0
        /\ <<0, 1>> \in Seq(Nat) /\ Len(<<0, 1>>) = 2
        /\ DOMAIN <<0, 1>> = {1, 2} /\ <<0, 1>>[1] = 0 /\ <<0, 1>>[2] = 1
    OBVIOUS
  <2>2. IsHistory(<<>>) /\ IsHistory(<<0>>) /\ IsHistory(<<0, 1>>)
    BY <2>1 DEF IsHistory
  <2>3. 0 <= MaxCommits /\ 1 <= MaxCommits /\ 2 <= MaxCommits
    BY RepositoryAssumption
  <2> QED
    BY <1>1, <2>1, <2>2, <2>3
<1>3. rTip \in [Branches -> Commits] /\ rAt \in Commits
  BY <1>1, <1>2 DEF Commits
<1>4. RepoTyped
  BY <1>1, <1>2, <1>3, RepositoryAssumption
  DEF RepoTyped, Heads, R!Trees, R!Clean
<1>5. StepsTyped
  BY <1>1 DEF StepsTyped, Doing
<1>6. Paged(rParent, rPage)
  <2>1. ChainIn(rParent, 0) = <<>> /\ <<>> \in Seq(Nat)
    BY <1>2, ChainLinks
  <2> QED
    BY <1>1, <1>2, <2>1 DEF Paged, PageType, R!NoPages
<1> QED
  BY <1>4, <1>5, <1>6 DEF PageInv

\* A new commit leaves the pages right.
LEMMA PagedStays ==
  ASSUME NEW ps, IsHistory(ps), NEW p \in 0..Len(ps), NEW page,
         Paged(ps, page)
  PROVE  Paged(Append(ps, p), page)
<1>1. /\ Len(ps) \in Nat
      /\ page.start \in 0..Len(ps) /\ page.cursor \in 0..Len(ps)
  BY DEF IsHistory, Paged, PageType
<1>2. ChainIn(Append(ps, p), page.start) = ChainIn(ps, page.start)
  BY <1>1, ChainStays
<1>3. 0..Len(ps) \subseteq 0..Len(Append(ps, p))
  BY <1>1 DEF IsHistory
<1> DEFINE all == ChainIn(ps, page.start)
<1> HIDE DEF all
<1>4. ChainIn(Append(ps, p), page.start) = all
  BY <1>2 DEF all
<1>5. /\ page \in PageType(ps)
      /\ page.cursor = 0 /\ ~page.cut => page.got = all
      /\ page.cursor # 0 => /\ Len(page.got) \in 1..(Len(all) - 1)
                            /\ page.cursor = all[Len(page.got)]
      /\ Len(page.got) <= Len(all)
      /\ \A j \in 1..Len(page.got) : page.got[j] = all[j]
  BY DEF Paged, all
<1>6. page \in PageType(Append(ps, p))
  BY <1>3, <1>5 DEF PageType
<1> QED
  BY <1>4, <1>5, <1>6 DEF Paged

\* What handling a request may do to the repository.
RepoMoves ==
  \/ UNCHANGED R!repo
  \/ /\ Len(rParent) < MaxCommits /\ rParent' = Append(rParent, R!HeadCommit)
     /\ R!MoveHead(Len(rParent) + 1)
     /\ rTree' = [rTree EXCEPT !.staged = FALSE]
     /\ UNCHANGED <<rHead, rRemote, rTracking>>
  \/ /\ \E b \in Branches : /\ rRemote' = [rRemote EXCEPT ![b] = rTip[b]]
                            /\ rTracking' = [rTracking EXCEPT ![b] = rTip[b]]
     /\ UNCHANGED <<rParent, rTip, rHead, rAt, rTree>>
  \/ /\ rTracking' = rRemote
     /\ \/ UNCHANGED rTip
        \/ /\ rHead # R!Detached
           /\ rTip' = [rTip EXCEPT ![rHead] = rRemote[rHead]]
     /\ UNCHANGED <<rParent, rHead, rAt, rTree, rRemote>>
  \/ /\ \E b \in Branches : rTip' = [rTip EXCEPT ![b] = R!HeadCommit]
     /\ UNCHANGED <<rParent, rHead, rAt, rTree, rRemote, rTracking>>
  \/ /\ rHead' \in Branches
     /\ UNCHANGED <<rParent, rTip, rAt, rTree, rRemote, rTracking>>
  \/ /\ rHead' = "pr" /\ rTip' = [rTip EXCEPT !["pr"] = rRemote["pr"]]
     /\ rTracking' = [rTracking EXCEPT !["pr"] = rRemote["pr"]]
     /\ UNCHANGED <<rParent, rAt, rTree, rRemote>>

LEMMA HandlingMoves ==
  ASSUME StepsTyped, NEW c \in Peers, R!Handle(c)
  PROVE  RepoMoves
<1> USE DEF RepoMoves, R!Fail, R!Working, R!GitFails, R!GhFails
<1>1. CASE R!Enter(c)
  BY <1>1, Zenon DEF R!Enter, R!repo
<1>2. CASE R!HandleCommit(c)
  BY <1>2, Zenon DEF R!HandleCommit, R!Proceed
<1>3. CASE R!Commit(c)
  BY <1>3, Zenon DEF R!Commit
<1>4. CASE R!HandlePush(c)
  BY <1>4, Zenon DEF R!HandlePush, R!Push
<1>5. CASE R!HandleFetch(c)
  BY <1>5, Zenon DEF R!HandleFetch, R!Fetch
<1>6. CASE R!HandlePull(c)
  BY <1>6, Zenon DEF R!HandlePull, R!PullFFOnly
<1>7. CASE R!HandleBranchCreate(c)
  BY <1>7, Zenon DEF R!HandleBranchCreate, R!CreateBranch
<1>8. CASE R!HandleBranchSwitch(c)
  BY <1>8, Zenon DEF R!HandleBranchSwitch, R!Proceed
<1>9. CASE R!SwitchBranch(c)
  <2>1. rJob[c].req.arg \in Branches
    BY <1>9, Zenon DEF R!SwitchBranch, StepsTyped, Doing
  <2> QED
    BY <1>9, <2>1, Zenon DEF R!SwitchBranch
<1>10. CASE R!PrCheckout(c)
  BY <1>10, Zenon DEF R!PrCheckout
<1>11. CASE R!HandlePrCreate(c) \/ R!HandlePrCheckout(c)
  BY <1>11, Zenon
  DEF R!HandlePrCreate, R!PrCreate, R!HandlePrCheckout, R!Proceed
<1> QED
  BY <1>1, <1>2, <1>3, <1>4, <1>5, <1>6, <1>7, <1>8, <1>9, <1>10, <1>11
  DEF R!Handle

LEMMA RepoGrows ==
  ASSUME RepoTyped, NEW p \in Commits, Len(rParent) < MaxCommits,
         rParent' = Append(rParent, p)
  PROVE  /\ IsHistory(rParent') /\ Len(rParent') <= MaxCommits
         /\ Commits \subseteq Commits' /\ Len(rParent) + 1 \in Commits'
<1>1. IsHistory(rParent')
  BY ChainStays DEF RepoTyped, Commits
<1>2. Len(rParent') = Len(rParent) + 1 /\ Len(rParent) \in Nat
  BY DEF RepoTyped, IsHistory
<1> QED
  BY <1>1, <1>2, RepositoryAssumption DEF Commits

LEMMA MovesKeepRepo ==
  ASSUME RepoTyped, Paged(rParent, rPage), UNCHANGED rPage, RepoMoves
  PROVE  RepoTyped' /\ Paged(rParent, rPage)'
<1> USE RepositoryAssumption
<1>0. R!HeadCommit \in Commits
  BY HeadIsCommit
<1>1. CASE UNCHANGED rParent
  <2>1. UNCHANGED Commits
    BY <1>1 DEF Commits
  <2>2. Paged(rParent, rPage)'
    BY <1>1
  <2>3. CASE UNCHANGED R!repo
    BY <2>1, <2>2, <2>3 DEF RepoTyped, R!repo
  <2>4. CASE /\ \E b \in Branches :
                  /\ rRemote' = [rRemote EXCEPT ![b] = rTip[b]]
                  /\ rTracking' = [rTracking EXCEPT ![b] = rTip[b]]
             /\ UNCHANGED <<rParent, rTip, rHead, rAt, rTree>>
    BY <2>1, <2>2, <2>4 DEF RepoTyped
  <2>5. CASE /\ rTracking' = rRemote
             /\ \/ UNCHANGED rTip
                \/ /\ rHead # R!Detached
                   /\ rTip' = [rTip EXCEPT ![rHead] = rRemote[rHead]]
             /\ UNCHANGED <<rParent, rHead, rAt, rTree, rRemote>>
    BY <2>1, <2>2, <2>5 DEF RepoTyped, Heads
  <2>6. CASE /\ \E b \in Branches : rTip' = [rTip EXCEPT ![b] = R!HeadCommit]
             /\ UNCHANGED <<rParent, rHead, rAt, rTree, rRemote, rTracking>>
    BY <1>0, <2>1, <2>2, <2>6 DEF RepoTyped
  <2>7. CASE /\ rHead' \in Branches
             /\ UNCHANGED <<rParent, rTip, rAt, rTree, rRemote, rTracking>>
    BY <2>1, <2>2, <2>7 DEF RepoTyped, Heads
  <2>8. CASE /\ rHead' = "pr" /\ rTip' = [rTip EXCEPT !["pr"] = rRemote["pr"]]
             /\ rTracking' = [rTracking EXCEPT !["pr"] = rRemote["pr"]]
             /\ UNCHANGED <<rParent, rAt, rTree, rRemote>>
    BY <2>1, <2>2, <2>8 DEF RepoTyped, Heads
  <2>9. rParent' # Append(rParent, R!HeadCommit)
    BY <1>1 DEF RepoTyped, IsHistory
  <2> QED
    BY <2>3, <2>4, <2>5, <2>6, <2>7, <2>8, <2>9 DEF RepoMoves
<1>2. CASE /\ Len(rParent) < MaxCommits
           /\ rParent' = Append(rParent, R!HeadCommit)
           /\ R!MoveHead(Len(rParent) + 1)
           /\ rTree' = [rTree EXCEPT !.staged = FALSE]
           /\ UNCHANGED <<rHead, rRemote, rTracking>>
  <2>1. /\ IsHistory(rParent') /\ Len(rParent') <= MaxCommits
        /\ Commits \subseteq Commits' /\ Len(rParent) + 1 \in Commits'
    BY <1>0, <1>2, RepoGrows
  <2>2. Paged(rParent, rPage)'
    BY <1>0, <1>2, PagedStays DEF RepoTyped, Commits
  <2>3. rTree' \in R!Trees
    BY <1>2 DEF RepoTyped, R!Trees
  <2>4. rTip' \in [Branches -> Commits'] /\ rAt' \in Commits'
    BY <1>2, <2>1 DEF RepoTyped, R!MoveHead, Heads
  <2>5. /\ rRemote' \in [Branches -> Commits'] /\ rHead' \in Heads
        /\ rTracking' \in [Branches -> Commits']
    BY <1>2, <2>1 DEF RepoTyped
  <2> QED
    BY <2>1, <2>2, <2>3, <2>4, <2>5 DEF RepoTyped, Heads
<1> QED
  BY <1>1, <1>2 DEF RepoMoves, R!repo

LEMMA PagesJoin ==
  ASSUME NEW s \in Seq(Nat), NEW t \in Seq(Nat)
  PROVE  s \o t \in Seq(Nat) /\ Len(s \o t) = Len(s) + Len(t)
OBVIOUS

LEMMA EqualPages ==
  ASSUME NEW s \in Seq(Nat), NEW t \in Seq(Nat), Len(s) = Len(t),
         \A j \in 1..Len(s) : s[j] = t[j]
  PROVE  s = t
OBVIOUS

\* What a page of the commits that are left makes of the pages so far.
NextPage(all, got, more) ==
  LET some == SubSeq(more, 1, PageSize)
      new == got \o some
  IN /\ Len(more) <= PageSize => got \o more = all
     /\ Len(more) > PageSize =>
          /\ new \in Seq(Nat) /\ Len(new) \in 1..(Len(all) - 1)
          /\ some[PageSize] = all[Len(new)]
          /\ \A j \in 1..Len(new) : new[j] = all[j]

\* The next page goes on where the pages so far end.
LEMMA PageIsNext ==
  ASSUME NEW ps, IsHistory(ps), NEW start \in 0..Len(ps), NEW got \in Seq(Nat),
         NEW more \in Seq(Nat), Len(got) <= Len(ChainIn(ps, start)),
         \A j \in 1..Len(got) : got[j] = ChainIn(ps, start)[j],
         Follows(ChainIn(ps, start), Len(got), more)
  PROVE  NextPage(ChainIn(ps, start), got, more)
<1> DEFINE all == ChainIn(ps, start)
<1> USE RepositoryAssumption
<1>1. /\ all \in Seq(Nat) /\ Len(got) <= Len(all)
      /\ \A j \in 1..Len(got) : got[j] = all[j]
      /\ Len(more) = Len(all) - Len(got)
      /\ \A j \in 1..Len(more) : more[j] = all[Len(got) + j]
  <2>1. all \in Seq(1..Len(ps))
    BY ChainTyped
  <2>2. all \in Seq(Nat)
    BY <2>1
  <2> QED
    BY <2>2 DEF Follows
<1>2. ASSUME Len(more) <= PageSize PROVE got \o more = all
  <2>1. got \o more \in Seq(Nat) /\ Len(got \o more) = Len(all)
    BY <1>1
  <2>2. ASSUME NEW j \in 1..Len(all) PROVE (got \o more)[j] = all[j]
    <3>1. CASE j <= Len(got)
      BY <1>1, <3>1
    <3>2. CASE j > Len(got)
      <4>1. j - Len(got) \in 1..Len(more) /\ Len(got) + (j - Len(got)) = j
        BY <1>1, <3>2
      <4>2. (got \o more)[j] = more[j - Len(got)]
        BY <3>2, <4>1
      <4> QED
        BY <1>1, <4>1, <4>2
    <3> QED
      BY <1>1, <3>1, <3>2
  <2> HIDE DEF all
  <2> QED
    BY <1>1, <2>1, <2>2, EqualPages
<1>3. ASSUME Len(more) > PageSize
      PROVE  LET some == SubSeq(more, 1, PageSize)
                 new == got \o some
             IN /\ new \in Seq(Nat) /\ Len(new) \in 1..(Len(all) - 1)
                /\ some[PageSize] = all[Len(new)]
                /\ \A j \in 1..Len(new) : new[j] = all[j]
  <2> DEFINE some == SubSeq(more, 1, PageSize)
             new == got \o some
  <2>1. /\ some \in Seq(Nat) /\ Len(some) = PageSize
        /\ \A j \in 1..PageSize : some[j] = more[j]
    BY <1>3
  <2> HIDE DEF some
  <2>2. new \in Seq(Nat) /\ Len(new) = Len(got) + PageSize
    <3>1. some \in Seq(Nat) /\ Len(some) = PageSize
      BY <2>1
    <3>2. got \o some \in Seq(Nat) /\ Len(got \o some) = Len(got) + Len(some)
      BY <3>1, PagesJoin
    <3> QED
      BY <3>1, <3>2
  <2>3. ASSUME NEW j \in 1..Len(new) PROVE new[j] = all[j]
    <3>1. CASE j <= Len(got)
      BY <1>1, <2>1, <3>1
    <3>2. CASE j > Len(got)
      <4>1. j - Len(got) \in 1..PageSize /\ Len(got) + (j - Len(got)) = j
        BY <2>2, <3>2
      <4>2. j - Len(got) \in 1..Len(more)
        BY <1>1, <1>3, <4>1
      <4>3. new[j] = some[j - Len(got)]
        BY <2>1, <2>2, <3>2, <4>1
      <4> QED
        BY <1>1, <2>1, <4>1, <4>2, <4>3
    <3> QED
      BY <2>2, <3>1, <3>2
  <2>4. some[PageSize] = all[Len(new)]
    <3>1. PageSize \in 1..Len(more) /\ PageSize \in 1..PageSize
      BY <1>1, <1>3, SMTT(30)
    <3> QED
      BY <1>1, <2>1, <2>2, <3>1
  <2>5. Len(new) \in 1..(Len(all) - 1)
    <3> HIDE DEF new
    <3>1. Len(all) \in Nat /\ Len(got) \in Nat /\ Len(more) \in Nat
      BY <1>1
    <3>2. /\ Len(more) = Len(all) - Len(got) /\ Len(more) > PageSize
          /\ Len(new) = Len(got) + PageSize
      BY <1>1, <1>3, <2>2
    <3> QED
      BY <3>1, <3>2
  <2> QED
    BY <2>2, <2>3, <2>4, <2>5 DEF some
<1> QED
  BY <1>2, <1>3 DEF NextPage

LEMMA ReadIsPaged ==
  ASSUME RepoTyped, Paged(rParent, rPage), R!ReadPage, UNCHANGED rParent
  PROVE  Paged(rParent, rPage)'
<1> USE RepositoryAssumption
<1> DEFINE ps == rParent
           first == rPage.cursor = 0
           start == IF first THEN R!HeadCommit ELSE rPage.start
           got == IF first THEN <<>> ELSE rPage.got
           more == ChainIn(ps, IF first THEN R!HeadCommit
                               ELSE ps[rPage.cursor])
           all == ChainIn(ps, start)
           some == SubSeq(more, 1, PageSize)
<1>1. /\ UNCHANGED rParent
      /\ rPage' = [start |-> start,
                   got |-> IF Len(more) > PageSize THEN got \o some
                           ELSE got \o more,
                   cursor |-> IF Len(more) > PageSize THEN some[PageSize]
                              ELSE 0,
                   cut |-> FALSE]
  <2>1. /\ UNCHANGED rParent
        /\ rPage' = [start |-> start,
                     got |-> IF Len(R!PageFrom(R!HeadCommit)) > PageSize
                             THEN got \o SubSeq(R!PageFrom(R!HeadCommit), 1,
                                                PageSize)
                             ELSE got \o R!PageFrom(R!HeadCommit),
                     cursor |-> IF Len(R!PageFrom(R!HeadCommit)) > PageSize
                                THEN SubSeq(R!PageFrom(R!HeadCommit), 1,
                                            PageSize)[PageSize]
                                ELSE 0,
                     cut |-> FALSE]
    BY DEF R!ReadPage
  <2>2. R!PageFrom(R!HeadCommit) = more
    BY ChainOfRepository DEF R!PageFrom
  <2> QED
    BY <2>1, <2>2
<1>2. IsHistory(ps) /\ R!HeadCommit \in 0..Len(ps) /\ Len(ps) \in Nat
  BY HeadIsCommit DEF RepoTyped, Commits, IsHistory
<1>3. /\ start \in 0..Len(ps) /\ got \in Seq(Nat) /\ more \in Seq(1..Len(ps))
      /\ all \in Seq(1..Len(ps)) /\ Len(got) <= Len(all)
      /\ \A j \in 1..Len(got) : got[j] = all[j]
      /\ Follows(all, Len(got), more)
  <2>1. CASE first
    <3>1. start = R!HeadCommit /\ got = <<>> /\ more = all
      BY <2>1
    <3>2. all \in Seq(1..Len(ps))
      BY <1>2, <3>1, ChainTyped
    <3> HIDE DEF all, more, start, got
    <3>3. <<>> \in Seq(Nat) /\ Len(<<>>) = 0 /\ Len(all) \in Nat
      BY <3>2
    <3> QED
      BY <1>2, <3>1, <3>2, <3>3 DEF Follows
  <2>2. CASE ~first
    <3>1. /\ start = rPage.start /\ got = rPage.got
          /\ more = ChainIn(ps, ps[rPage.cursor])
      BY <2>2
    <3>2. /\ start \in 0..Len(ps) /\ got \in Seq(Nat)
          /\ Len(got) \in 1..(Len(all) - 1) /\ rPage.cursor = all[Len(got)]
          /\ \A j \in 1..Len(got) : got[j] = all[j]
      BY <2>2, <3>1 DEF Paged, PageType
    <3>3. all \in Seq(1..Len(ps))
      BY <1>2, <3>2, ChainTyped
    <3>4. Len(got) \in 1..Len(all) /\ Len(got) <= Len(all)
      BY <3>2, <3>3
    <3>5. Follows(all, Len(got), more)
      BY <1>2, <3>1, <3>2, <3>4, ChainGoesOn
    <3>6. rPage.cursor \in 1..Len(ps)
      BY <3>2, <3>3, <3>4, SMTT(30)
    <3>7. ps[rPage.cursor] \in 0..Len(ps)
      BY <1>2, <3>6 DEF IsHistory
    <3>8. more \in Seq(1..Len(ps))
      BY <1>2, <3>1, <3>7, ChainTyped
    <3> QED
      BY <3>2, <3>3, <3>4, <3>5, <3>8
  <2> QED
    BY <2>1, <2>2
<1>4. more \in Seq(Nat) /\ all = ChainIn(ps, start)
  BY <1>2, <1>3
<1> HIDE DEF all, more, start, got, first
<1>5. /\ Len(more) <= PageSize => got \o more = all
      /\ Len(more) > PageSize =>
           /\ got \o some \in Seq(Nat)
           /\ Len(got \o some) \in 1..(Len(all) - 1)
           /\ some[PageSize] = all[Len(got \o some)]
           /\ \A j \in 1..Len(got \o some) : (got \o some)[j] = all[j]
  <2> HIDE DEF some, ps
  <2>1. /\ IsHistory(ps) /\ start \in 0..Len(ps) /\ got \in Seq(Nat)
        /\ more \in Seq(Nat) /\ Len(got) <= Len(ChainIn(ps, start))
        /\ \A j \in 1..Len(got) : got[j] = ChainIn(ps, start)[j]
        /\ Follows(ChainIn(ps, start), Len(got), more)
    BY <1>2, <1>3, <1>4
  <2>2. NextPage(ChainIn(ps, start), got, more)
    BY <2>1, PageIsNext
  <2> QED
    BY <1>4, <2>2 DEF NextPage, some
<1> HIDE DEF some, ps
<1>6. CASE Len(more) <= PageSize
  <2>1. ~ (Len(more) > PageSize)
    BY <1>4, <1>6
  <2>2. rPage' = [start |-> start, got |-> all, cursor |-> 0, cut |-> FALSE]
    BY <1>1, <1>5, <1>6, <2>1
  <2>3. all \in Seq(Nat) /\ Len(all) <= Len(all)
    BY <1>2, <1>3
  <2>4. UNCHANGED ps /\ all = ChainIn(ps, start)
    BY <1>1, <1>4 DEF ps
  <2>5. rPage' \in PageType(ps)
    BY <1>2, <1>3, <2>2, <2>3 DEF PageType
  <2> QED
    BY <1>2, <1>3, <2>2, <2>3, <2>4, <2>5 DEF Paged, ps
<1>7. CASE Len(more) > PageSize
  <2> DEFINE new == got \o some
  <2>1. /\ rPage' = [start |-> start, got |-> new, cursor |-> some[PageSize],
                     cut |-> FALSE]
        /\ new \in Seq(Nat) /\ Len(new) \in 1..(Len(all) - 1)
        /\ some[PageSize] = all[Len(new)]
        /\ \A j \in 1..Len(new) : new[j] = all[j]
    BY <1>1, <1>5, <1>7
  <2> HIDE DEF new
  <2>2. some[PageSize] \in 0..Len(ps) /\ some[PageSize] # 0
    BY <1>2, <1>3, <2>1, SMTT(30)
  <2>3. rParent' = ps /\ all = ChainIn(ps, start)
    BY <1>1, <1>4 DEF ps
  <2> DEFINE last == some[PageSize]
  <2> HIDE DEF last
  <2>4. /\ rPage' = [start |-> start, got |-> new, cursor |-> last,
                     cut |-> FALSE]
        /\ last \in 0..Len(ps) /\ last # 0 /\ last = all[Len(new)]
    BY <2>1, <2>2 DEF last
  <2>5. rPage' \in PageType(ps)
    BY <1>3, <2>1, <2>4 DEF PageType
  <2>6. /\ rPage'.start = start /\ rPage'.got = new /\ rPage'.cursor = last
        /\ Len(new) <= Len(all)
    BY <1>3, <2>1, <2>4
  <2> QED
    BY <2>1, <2>3, <2>4, <2>5, <2>6 DEF Paged
<1> QED
  BY <1>2, <1>4, <1>6, <1>7

\* An empty page adds nothing, and cuts the pages off or finds no commit.
LEMMA EmptyIsPaged ==
  ASSUME RepoTyped, Paged(rParent, rPage), R!EmptyPage, UNCHANGED rParent
  PROVE  Paged(rParent, rPage)'
<1>1. IsHistory(rParent) /\ Len(rParent) \in Nat
  BY DEF RepoTyped, IsHistory
<1>2. CASE rPage.cursor = 0
  <2>1. ChainIn(rParent, 0) = <<>> /\ <<>> \in Seq(Nat) /\ Len(<<>>) = 0
    BY <1>1, ChainLinks
  <2>2. rPage' = R!NoPages
    BY <1>2 DEF R!EmptyPage
  <2> QED
    BY <1>1, <2>1, <2>2 DEF Paged, PageType, R!NoPages
<1>3. CASE rPage.cursor # 0
  <2>1. /\ rPage' = [rPage EXCEPT !.cursor = 0, !.cut = TRUE]
        /\ rPage \in PageType(rParent)
    BY <1>3 DEF R!EmptyPage, Paged
  <2> DEFINE cutOff == [rPage EXCEPT !.cursor = 0, !.cut = TRUE]
  <2>2. 0 \in 0..Len(rParent) /\ rPage \in PageType(rParent)
    BY <1>1, <2>1
  <2>3. /\ cutOff \in PageType(rParent) /\ cutOff.start = rPage.start
        /\ cutOff.got = rPage.got /\ cutOff.cursor = 0 /\ cutOff.cut = TRUE
    BY <2>2, ZenonT(30) DEF PageType
  <2> QED
    BY <2>1, <2>3 DEF Paged
<1> QED
  BY <1>2, <1>3

LEMMA HistoryIsPaged ==
  ASSUME RepoTyped, Paged(rParent, rPage), R!GetHistory
  PROVE  Paged(rParent, rPage)'
BY ReadIsPaged, EmptyIsPaged DEF R!GetHistory, R!repo

LEMMA StepsStayTyped ==
  ASSUME Jobs, StepsTyped, NEW c \in Peers, R!Handle(c)
  PROVE  StepsTyped'
<1>1. CASE Begins(c)
  <2>1. /\ rJob'[c] = [rJob[c] EXCEPT !.step = "work"]
        /\ \A d \in Peers \ {c} : rJob'[d] = rJob[d]
        /\ rGate' = c
    BY <1>1, Zenon DEF Begins, Jobs
  <2>2. rJob[c] \in [step : {"gate"}, req : RepoRequests]
    BY <1>1 DEF Begins, Jobs
  <2>3. Doing(c)' = "work"
    BY <2>1, <2>2 DEF Doing
  <2> QED
    BY <2>1, <2>3 DEF StepsTyped, Doing
<1>2. CASE GoesOn(c)
  <2>1. /\ rJob' = [rJob EXCEPT ![c] =
                      [step |-> "act", req |-> rJob[c].req, saw |-> R!Seen,
                       around |-> rEdits]]
        /\ UNCHANGED rGate
        /\ rJob[c].req.op = "branch_switch" => rJob[c].req.arg \in Branches
    BY <1>2 DEF GoesOn, R!Proceed
  <2> DEFINE seen == R!Seen
  <2> HIDE DEF seen
  <2>2. /\ rJob'[c] = [step |-> "act", req |-> rJob[c].req, saw |-> seen,
                       around |-> rEdits]
        /\ \A d \in Peers \ {c} : rJob'[d] = rJob[d]
    BY <2>1, Zenon DEF Jobs, seen
  <2>3. Doing(c)' = "act" /\ rJob'[c].req = rJob[c].req
    BY <2>2 DEF Doing
  <2>4. \A d \in Peers \ {c} : Doing(d)' = Doing(d)
    BY <2>2 DEF Doing
  <2> QED
    BY <2>1, <2>2, <2>3, <2>4, Zenon DEF StepsTyped
<1>3. CASE Finishes(c)
  <2>1. /\ rJob' = [rJob EXCEPT ![c] = R!Idle]
        /\ rGate' = IF rGate = c THEN R!NoOne ELSE rGate
    BY <1>3 DEF Finishes, R!Finish
  <2>2. /\ rJob'[c].step = "idle"
        /\ \A d \in Peers \ {c} : rJob'[d] = rJob[d]
    BY <2>1 DEF Jobs, R!Idle
  <2> QED
    BY <2>1, <2>2 DEF StepsTyped, Doing
<1> QED
  BY <1>1, <1>2, <1>3, HandleCases

LEMMA PageKeeps == Jobs /\ PageInv /\ [R!Next]_rVars => PageInv'
<1> SUFFICES ASSUME Jobs, PageInv, [R!Next]_rVars PROVE PageInv'
  OBVIOUS
<1>0. RepoTyped /\ StepsTyped /\ Paged(rParent, rPage)
  BY DEF PageInv
<1>1. ASSUME NEW c \in Peers, R!Handle(c) PROVE PageInv'
  <2>1. UNCHANGED rPage
    BY <1>1, HandleCases
    DEF Begins, GoesOn, Finishes, R!Finish, R!Proceed
  <2>2. RepoMoves
    BY <1>0, <1>1, HandlingMoves
  <2>3. RepoTyped' /\ Paged(rParent, rPage)'
    BY <1>0, <2>1, <2>2, MovesKeepRepo
  <2> QED
    BY <1>0, <1>1, <2>3, StepsStayTyped DEF PageInv
<1>2. ASSUME NEW c \in Peers, NEW r \in RepoRequests, R!Receive(c, r)
      PROVE  PageInv'
  <2>1. /\ UNCHANGED R!repo /\ UNCHANGED <<rGate, rPage>>
        /\ \/ UNCHANGED rJob
           \/ rJob' = [rJob EXCEPT ![c] = [step |-> "gate", req |-> r]]
    BY <1>2 DEF R!Receive
  <2>2. RepoTyped' /\ Paged(rParent, rPage)'
    BY <1>0, <2>1 DEF RepoTyped, Commits, R!repo
  <2>3. StepsTyped'
    BY <1>0, <2>1 DEF StepsTyped, Doing, Jobs
  <2> QED
    BY <2>2, <2>3 DEF PageInv
<1>3. CASE R!GetHistory
  <2>1. /\ UNCHANGED R!repo /\ UNCHANGED <<rGate, rJob>>
    BY <1>3 DEF R!GetHistory
  <2>2. RepoTyped'
    BY <1>0, <2>1 DEF RepoTyped, Commits, R!repo
  <2>3. StepsTyped'
    BY <1>0, <2>1 DEF StepsTyped, Doing
  <2> QED
    BY <1>0, <1>3, <2>2, <2>3, HistoryIsPaged DEF PageInv
<1>4. CASE R!Edit \/ R!Detach \/ \E b \in Branches : R!Orphan(b)
  <2>1. /\ UNCHANGED <<rParent, rTip, rRemote, rTracking, rGate, rJob, rPage>>
        /\ \/ rTree' \in R!Trees /\ UNCHANGED <<rHead, rAt>>
           \/ rHead' = R!Detached /\ rAt' = R!HeadCommit /\ UNCHANGED rTree
           \/ rHead' \in Branches /\ rTree' \in R!Trees /\ UNCHANGED rAt
    BY <1>0, <1>4 DEF R!Edit, R!Detach, R!Orphan, RepoTyped, R!Trees
  <2>2. RepoTyped' /\ Paged(rParent, rPage)'
    BY <1>0, <2>1, HeadIsCommit DEF RepoTyped, Commits, Heads
  <2>3. StepsTyped'
    BY <1>0, <2>1 DEF StepsTyped, Doing
  <2> QED
    BY <2>2, <2>3 DEF PageInv
<1>5. ASSUME NEW b \in Branches, R!Elsewhere(b) PROVE PageInv'
  <2>1. /\ Len(rParent) < MaxCommits /\ rParent' = Append(rParent, rRemote[b])
        /\ rRemote' = [rRemote EXCEPT ![b] = Len(rParent) + 1]
        /\ UNCHANGED <<rTip, rHead, rAt, rTree, rTracking, rGate, rJob, rPage>>
    BY <1>5 DEF R!Elsewhere
  <2>2. rRemote[b] \in Commits
    BY <1>0 DEF RepoTyped
  <2>3. /\ IsHistory(rParent') /\ Len(rParent') <= MaxCommits
        /\ Commits \subseteq Commits' /\ Len(rParent) + 1 \in Commits'
    BY <1>0, <2>1, <2>2, RepoGrows
  <2>4. Paged(rParent, rPage)'
    BY <1>0, <2>1, <2>2, PagedStays DEF RepoTyped, Commits
  <2>5. RepoTyped'
    <3>1. /\ rTip' \in [Branches -> Commits']
          /\ rRemote' \in [Branches -> Commits']
          /\ rTracking' \in [Branches -> Commits'] /\ rAt' \in Commits'
      BY <1>0, <2>1, <2>3 DEF RepoTyped
    <3> QED
      BY <1>0, <2>1, <2>3, <3>1 DEF RepoTyped, Heads
  <2>6. StepsTyped'
    BY <1>0, <2>1 DEF StepsTyped, Doing
  <2> QED
    BY <2>4, <2>5, <2>6 DEF PageInv
<1>6. CASE UNCHANGED rVars
  <2>1. RepoTyped' /\ Paged(rParent, rPage)'
    BY <1>0, <1>6 DEF RepoTyped, Commits, rVars
  <2>2. StepsTyped'
    BY <1>0, <1>6 DEF StepsTyped, Doing, rVars
  <2> QED
    BY <2>1, <2>2 DEF PageInv
<1> QED
  BY <1>1, <1>2, <1>3, <1>4, <1>5, <1>6 DEF R!Next

LEMMA PagedIsHistory == PageInv => PagesAreTheHistory
<1> SUFFICES ASSUME PageInv PROVE R!PagesAreTheHistory
  BY DEF PagesAreTheHistory
<1> DEFINE all == ChainIn(rParent, rPage.start)
           n == Len(rPage.got)
<1>1. /\ rPage.start \in 0..Len(rParent) /\ rPage.got \in Seq(Nat)
      /\ rPage.cursor = 0 /\ ~rPage.cut => rPage.got = all
      /\ rPage.cursor # 0 => n \in 1..(Len(all) - 1)
      /\ n <= Len(all) /\ \A j \in 1..n : rPage.got[j] = all[j]
  BY DEF PageInv, Paged, PageType
<1>2. all \in Seq(Nat)
  <2>1. all \in Seq(1..Len(rParent))
    BY <1>1, ChainTyped DEF PageInv, RepoTyped
  <2> QED
    BY <2>1
<1>3. R!Chain(rPage.start) = all
  BY ChainOfRepository
<1> HIDE DEF all
<1>4. rPage.got = SubSeq(all, 1, n)
  <2>1. n \in Nat /\ n <= Len(all)
    BY <1>1
  <2>2. /\ SubSeq(all, 1, n) \in Seq(Nat) /\ Len(SubSeq(all, 1, n)) = n
        /\ \A j \in 1..n : SubSeq(all, 1, n)[j] = all[j]
    BY <1>2, <2>1
  <2> QED
    BY <1>1, <2>2, EqualPages
<1>5. rPage.cursor # 0 => n < Len(all)
  BY <1>1, <1>2
<1> QED
  BY <1>1, <1>3, <1>4, <1>5 DEF R!PagesAreTheHistory

\* The pages of the history put one after the other are the history from the
\* commit they started at, whatever is committed or checked out in between,
\* and the whole of it unless an empty page cut them off.
THEOREM PagesMakeUpTheHistory == HostSpec => []PagesAreTheHistory
<1>1. GateInv => Jobs
  BY DEF GateInv
<1>2. HostSpec => []GateInv
  BY RepositoryPart, GateInit, GateKeeps, PTL DEF HostSpec
<1>3. HostSpec => []PageInv
  BY <1>1, <1>2, RepositoryPart, PageInit, PageKeeps, PTL DEF HostSpec
<1> QED
  BY <1>3, PagedIsHistory, PTL

-----------------------------------------------------------------------------
(* The files the poller watches.                                           *)

\* The events of one kind name the paths they are made for, and no other.
LEMMA SortedNamesAll ==
  ASSUME NEW S \in SUBSET F!Paths, NEW change
  PROVE  /\ F!Sorted(S, change) \in Seq(S \X {change})
         /\ \A p \in S : \E i \in DOMAIN F!Sorted(S, change) :
              F!Sorted(S, change)[i] = <<p, change>>
<1> USE CountsAssumption DEF F!Paths
<1> DEFINE N == FileCount
           T == Seq(S \X {change})
           Own(p) == IF p \in S THEN <<<<p, change>>>> ELSE <<>>
           next == [a \in (1..N) \X T |-> Own(N + 1 - a[1]) \o a[2]]
           before == [k \in 1..N |-> k - 1]
           Sorts(h) == h = [p \in 1..(N + 1) |->
                              IF p > N THEN <<>> ELSE Own(p) \o h[p + 1]]
           from == CHOOSE h : Sorts(h)
<1>1. \A p : Own(p) \in T
  <2>1. <<>> \in T
    OBVIOUS
  <2>2. \A p \in S : <<<<p, change>>>> \in T
    OBVIOUS
  <2> QED
    BY <2>1, <2>2
<1>2. \A s, t \in T : s \o t \in T
  OBVIOUS
<1>3. <<>> \in T
  OBVIOUS
<1> HIDE DEF T, Own
<1>4. next \in [(1..N) \X T -> T]
  <2>1. ASSUME NEW a \in (1..N) \X T PROVE Own(N + 1 - a[1]) \o a[2] \in T
    BY <1>1, <1>2
  <2> QED
    BY <2>1
<1>5. before \in [1..N -> Nat] /\ \A k \in 1..N : before[k] = k - 1
  OBVIOUS
<1>6. \A k \in 1..N, x \in T : next[<<k, x>>] = Own(N + 1 - k) \o x
  <2> TAKE k \in 1..N, x \in T
  <2>1. <<k, x>> \in (1..N) \X T
    OBVIOUS
  <2> QED
    BY <2>1
<1> HIDE DEF next, before
<1>7. PICK g \in [0..N -> T] : Recursive(g, N, <<>>, next, before)
  <2>1. N \in Nat /\ \A k \in 1..N : before[k] < k
    BY <1>5
  <2> HIDE DEF N
  <2> QED
    BY <1>3, <1>4, <1>5, <2>1, RecursionDefines
<1>8. \E h : Sorts(h)
  <2> DEFINE h == [p \in 1..(N + 1) |-> g[N + 1 - p]]
  <2>1. ASSUME NEW p \in 1..(N + 1)
        PROVE  h[p] = IF p > N THEN <<>> ELSE Own(p) \o h[p + 1]
    <3> DEFINE k == N + 1 - p
    <3>1. g[k] = IF k = 0 THEN <<>> ELSE next[<<k, g[before[k]]>>]
      <4>1. k \in 0..N
        OBVIOUS
      <4> HIDE DEF k
      <4> QED
        BY <1>7, <4>1 DEF Recursive
    <3>2. CASE p = N + 1
      BY <3>1, <3>2
    <3>3. CASE p \in 1..N
      <4>1. /\ k \in 1..N /\ k # 0 /\ before[k] = N + 1 - (p + 1)
            /\ N + 1 - k = p /\ p + 1 \in 1..(N + 1)
            /\ N + 1 - (p + 1) \in 0..N
        BY <1>5, <3>3
      <4>2. g[N + 1 - (p + 1)] \in T
        BY <1>7, <4>1
      <4>3. g[k] = Own(p) \o g[N + 1 - (p + 1)]
        <5> DEFINE x == g[N + 1 - (p + 1)]
        <5> HIDE DEF k, x
        <5>1. x \in T /\ g[k] = next[<<k, x>>]
          BY <3>1, <4>1, <4>2 DEF x
        <5>2. next[<<k, x>>] = Own(N + 1 - k) \o x
          BY <1>6, <4>1, <5>1
        <5> QED
          BY <4>1, <5>1, <5>2 DEF x
      <4>4. h[p] = g[N + 1 - p] /\ h[p + 1] = g[N + 1 - (p + 1)]
        BY <4>1
      <4>5. ~ (p > N)
        BY <3>3
      <4> QED
        BY <4>3, <4>4, <4>5
    <3> QED
      BY <3>2, <3>3
  <2>2. h = [p \in 1..(N + 1) |-> h[p]]
    OBVIOUS
  <2> HIDE DEF h
  <2>3. Sorts(h)
    BY <2>1, <2>2
  <2> HIDE DEF Sorts
  <2> QED
    BY <2>3
<1>9. Sorts(from)
  <2> HIDE DEF Sorts
  <2> QED
    BY <1>8
<1> HIDE DEF from
<1>10. \A p \in 1..(N + 1) :
         from[p] = IF p > N THEN <<>> ELSE Own(p) \o from[p + 1]
  BY <1>9
<1> DEFINE Names(s, p) == \E i \in DOMAIN s : s[i] = <<p, change>>
           Right(k) == /\ from[N + 1 - k] \in T
                       /\ \A p \in S : p >= N + 1 - k =>
                            Names(from[N + 1 - k], p)
           U == {k \in Nat : k <= N => Right(k)}
<1>11. 0 \in U
  <2>1. from[N + 1] = <<>> /\ N + 1 - 0 = N + 1 /\ \A p \in S : p < N + 1
    BY <1>10
  <2>2. Right(0)
    BY <1>3, <2>1
  <2> QED
    BY <2>2
<1>12. ASSUME NEW k \in U PROVE k + 1 \in U
  <2>0. k \in Nat /\ (k <= N => Right(k))
    <3> HIDE DEF Right
    <3> QED
      OBVIOUS
  <2> SUFFICES ASSUME k + 1 <= N PROVE Right(k + 1)
    <3> HIDE DEF Right
    <3> QED
      BY <2>0
  <2> DEFINE q == N + 1 - (k + 1)
             rest == from[N + 1 - k]
  <2>1. /\ k \in Nat /\ rest \in T
        /\ \A p \in S : p >= N + 1 - k => Names(rest, p)
    <3>1. k <= N
      BY <2>0
    <3> QED
      BY <2>0, <3>1
  <2>2. q \in 1..(N + 1) /\ q + 1 = N + 1 - k /\ ~ (q > N)
    BY <2>1
  <2>3. from[q] = Own(q) \o rest
    <3> HIDE DEF q
    <3>1. from[q] = Own(q) \o from[q + 1]
      BY <1>10, <2>2
    <3> QED
      BY <2>2, <3>1
  <2> HIDE DEF q, rest
  <2>4. from[q] \in T
    BY <1>1, <1>2, <2>1, <2>3
  <2>5. ASSUME NEW p \in S, p >= q PROVE Names(from[q], p)
    <3>1. CASE p = q
      <4>1. Own(q) = <<<<p, change>>>>
        BY <3>1 DEF Own
      <4>2. from[q] = <<<<p, change>>>> \o rest /\ rest \in Seq(S \X {change})
        BY <2>1, <2>3, <4>1 DEF T
      <4>3. 1 \in DOMAIN from[q] /\ from[q][1] = <<p, change>>
        BY <4>2
      <4> QED
        BY <4>3
    <3>2. CASE p # q
      <4>1. p >= N + 1 - k
        BY <2>1, <2>2, <2>5, <3>2
      <4>2. PICK i \in DOMAIN rest : rest[i] = <<p, change>>
        BY <2>1, <4>1
      <4>3. /\ Own(q) \in Seq(S \X {change}) /\ rest \in Seq(S \X {change})
            /\ i \in 1..Len(rest)
        BY <1>1, <2>1, <4>2 DEF T
      <4>4. /\ Len(Own(q)) + i \in DOMAIN (Own(q) \o rest)
            /\ (Own(q) \o rest)[Len(Own(q)) + i] = rest[i]
        BY <4>3
      <4> QED
        BY <2>3, <4>2, <4>4
    <3> QED
      BY <3>1, <3>2
  <2> QED
    BY <2>4, <2>5 DEF q
<1>13. U = Nat
  <2>1. U \in SUBSET Nat
    OBVIOUS
  <2> HIDE DEF U
  <2> QED
    BY <1>11, <1>12, <2>1, SetInduction
<1>14. from[1] \in T /\ \A p \in S : Names(from[1], p)
  <2>1. Right(N)
    <3>1. N \in U
      BY <1>13
    <3> HIDE DEF Right
    <3> QED
      BY <3>1
  <2>2. N + 1 - N = 1 /\ \A p \in S : p >= 1
    OBVIOUS
  <2> HIDE DEF Names
  <2> QED
    BY <2>1, <2>2
<1>15. F!Sorted(S, change) = from[1]
  BY DEF F!Sorted, from, Own
<1> QED
  BY <1>14, <1>15 DEF T

\* The handler of a file request names a path.
JobsName == \A c \in Peers : fJob[c].at # "idle" => fJob[c].path \in F!Paths

\* What the poller has seen are files there have been.
SeenAreFiles ==
  \A p \in F!Paths : fSnapshot[p] <= fChanges /\ fScan[p] <= fChanges

\* Events are told before the next scan.
QuietPoller == fPhase # "send" => fEvents = <<>>

FilesTyped == F!TypeOK /\ JobsName /\ SeenAreFiles

\* An event will make a client look at the file.
WillTell(p) ==
  \E i \in DOMAIN fEvents : fEvents[i][1] = p /\ fEvents[i][2] # "deleted"

SeenIsTold ==
  \A p \in F!Paths :
    F!Listed /\ fDisk[p] # 0 /\ fSnapshot[p] = fDisk[p] =>
      fView[p] = fDisk[p] \/ p \in fMissed \/ WillTell(p)

FilesInv == FilesTyped /\ QuietPoller /\ SeenIsTold

LEMMA FilesInit == F!Init => FilesInv
<1> SUFFICES ASSUME F!Init PROVE FilesInv
  OBVIOUS
<1>0. F!Absent = 0 /\ F!Unlisted = -1
  BY DEF F!Absent, F!Unlisted
<1>1. /\ fDisk \in [F!Paths -> {0, 1}] /\ fChanges = 1 /\ fEvents = <<>>
      /\ fJob = [c \in Peers |-> F!Idle] /\ fPhase = "new"
      /\ fSnapshot = [p \in F!Paths |-> 0] /\ fScan = fSnapshot
      /\ fLooked = 0 /\ fErrPaths = {} /\ fMissed = {}
      /\ fView = [p \in F!Paths |-> -1]
  BY <1>0 DEF F!Init
<1>2. fEvents \in Seq(F!Paths \X {"created", "modified", "deleted"})
  BY <1>1
<1>3. F!TypeOK
  BY <1>1, <1>2, CountsAssumption DEF F!TypeOK, F!Idle
<1>4. JobsName /\ SeenAreFiles /\ QuietPoller
  BY <1>1 DEF JobsName, SeenAreFiles, QuietPoller, F!Idle
<1>5. F!Paths # {} => ~F!Listed
  BY <1>0, <1>1, CountsAssumption DEF F!Listed, F!Paths
<1> QED
  BY <1>3, <1>4, <1>5 DEF FilesInv, FilesTyped, SeenIsTold

\* A client that is told of a path has looked at it, or misses a file.
LEMMA ToldIsKnown ==
  ASSUME FilesTyped, NEW q \in F!Paths, NEW change, F!Told(q, change)
  PROVE  /\ fView' \in [F!Paths -> -1..MaxChanges]
         /\ fMissed' \subseteq F!Paths
         /\ F!Listed' = F!Listed
         /\ \A p \in F!Paths \ {q} :
              fView'[p] = fView[p] /\ (p \in fMissed' <=> p \in fMissed)
         /\ F!Listed /\ fDisk[q] # 0 =>
              IF change = "deleted" THEN q \in fMissed'
              ELSE fView'[q] = fDisk[q]
<1>0. F!Absent = 0 /\ F!Unlisted = -1 /\ F!Read(q) = fDisk[q]
  BY DEF F!Absent, F!Unlisted, F!Read
<1>1. /\ fDisk \in [F!Paths -> 0..fChanges] /\ fChanges \in 0..MaxChanges
      /\ fView \in [F!Paths -> -1..MaxChanges] /\ fMissed \subseteq F!Paths
  BY DEF FilesTyped, F!TypeOK
<1>2. /\ fDisk[q] \in 0..MaxChanges /\ fDisk[q] # -1
      /\ -1 \in -1..MaxChanges /\ 0 \in -1..MaxChanges
      /\ fDisk[q] \in -1..MaxChanges
  BY <1>1, CountsAssumption
<1>3. CASE F!Listed
  <2>1. fView' = [fView EXCEPT ![q] = IF change = "deleted" THEN 0
                                      ELSE fDisk[q]]
    BY <1>0, <1>3 DEF F!Told
  <2>2. fMissed' = IF change = "deleted" /\ fDisk[q] # 0
                   THEN fMissed \cup {q} ELSE fMissed \ {q}
    BY <1>0, <1>3 DEF F!Told
  <2>3. fView'[1] # -1
    BY <1>0, <1>1, <1>2, <1>3, <2>1, CountsAssumption DEF F!Listed, F!Paths
  <2>4. F!Listed'
    BY <1>0, <2>3 DEF F!Listed, F!Unlisted
  <2> QED
    BY <1>1, <1>2, <1>3, <2>1, <2>2, <2>4
<1>4. CASE ~F!Listed
  <2>1. fView' = fView /\ fMissed' = fMissed \ {q}
    BY <1>4 DEF F!Told
  <2>2. ~F!Listed'
    BY <1>4, <2>1 DEF F!Listed
  <2>3. F!Listed' = F!Listed
    BY <1>4, <2>2 DEF F!Listed
  <2>4. /\ fView' \in [F!Paths -> -1..MaxChanges] /\ fMissed' \subseteq F!Paths
        /\ \A p \in F!Paths \ {q} :
             fView'[p] = fView[p] /\ (p \in fMissed' <=> p \in fMissed)
    BY <1>1, <2>1
  <2> QED
    BY <1>4, <2>3, <2>4
<1> QED
  BY <1>3, <1>4

\* A change of the tree makes a file no one has seen.
TreeMoves(p, n) ==
  /\ fChanges' = fChanges + 1 /\ fChanges < MaxChanges /\ p \in F!Paths
  /\ n \in {0, fChanges + 1} /\ fDisk' = [fDisk EXCEPT ![p] = n]

LEMMA TreeChanges ==
  ASSUME FilesInv, UNCHANGED <<fPhase, fSnapshot, fScan, fLooked, fErrPaths,
                               fEvents, fView, fMissed>>,
         fJob' \in [Peers -> [at : {"idle", "rename", "fill", "created",
                                    "modified", "deleted"},
                              path : 0..FileCount, file : 0..MaxChanges]],
         JobsName',
         UNCHANGED <<fDisk, fChanges>> \/ \E p, n : TreeMoves(p, n)
  PROVE  FilesInv'
<1> USE CountsAssumption
<1>0. /\ fDisk \in [F!Paths -> 0..fChanges] /\ fChanges \in 0..MaxChanges
      /\ F!TypeOK /\ SeenAreFiles /\ QuietPoller /\ SeenIsTold
      /\ fSnapshot \in [F!Paths -> 0..MaxChanges]
      /\ fScan \in [F!Paths -> 0..MaxChanges]
  BY DEF FilesInv, FilesTyped, F!TypeOK
<1>1. F!Listed' = F!Listed
  BY DEF F!Listed
<1>2. /\ fDisk' \in [F!Paths -> 0..fChanges'] /\ fChanges' \in 0..MaxChanges
      /\ fChanges <= fChanges'
      /\ \A p \in F!Paths : fDisk'[p] # 0 /\ fSnapshot[p] = fDisk'[p] =>
           fDisk'[p] = fDisk[p]
  <2>1. CASE UNCHANGED <<fDisk, fChanges>>
    BY <1>0, <2>1
  <2>2. ASSUME NEW p, NEW n, TreeMoves(p, n)
        PROVE  /\ fDisk' \in [F!Paths -> 0..fChanges']
               /\ fChanges' \in 0..MaxChanges /\ fChanges <= fChanges'
               /\ \A q \in F!Paths : fDisk'[q] # 0 /\ fSnapshot[q] = fDisk'[q]
                    => fDisk'[q] = fDisk[q]
    BY <1>0, <2>2 DEF TreeMoves, SeenAreFiles
  <2> QED
    BY <2>1, <2>2
<1>3. F!TypeOK'
  BY <1>0, <1>2 DEF F!TypeOK, F!Paths
<1>4. SeenAreFiles'
  BY <1>0, <1>2 DEF SeenAreFiles
<1>5. QuietPoller' /\ SeenIsTold'
  BY <1>0, <1>1, <1>2 DEF QuietPoller, SeenIsTold, WillTell
<1> QED
  BY <1>3, <1>4, <1>5 DEF FilesInv, FilesTyped

\* The events that tell of what has been seen now and was not before.
LEMMA DiffTells ==
  ASSUME F!TypeOK
  PROVE  LET evs == F!Sorted(F!Deleted \ fErrPaths, "deleted")
                    \o F!Sorted(F!Created, "created")
                    \o F!Sorted(F!Modified, "modified")
         IN /\ evs \in Seq(F!Paths \X {"created", "modified", "deleted"})
            /\ \A p \in F!Created \cup F!Modified : \E i \in DOMAIN evs :
                 evs[i][1] = p /\ evs[i][2] # "deleted"
<1> DEFINE K == {"created", "modified", "deleted"}
           T == F!Paths \X K
           d == F!Sorted(F!Deleted \ fErrPaths, "deleted")
           c == F!Sorted(F!Created, "created")
           m == F!Sorted(F!Modified, "modified")
<1>1. /\ F!Deleted \ fErrPaths \in SUBSET F!Paths
      /\ F!Created \in SUBSET F!Paths /\ F!Modified \in SUBSET F!Paths
  BY DEF F!Deleted, F!Created, F!Modified
<1>2. \A S \in SUBSET F!Paths, k \in K : Seq(S \X {k}) \subseteq Seq(T)
  OBVIOUS
<1>3. d \in Seq(T) /\ c \in Seq(T) /\ m \in Seq(T)
  <2>1. d \in Seq((F!Deleted \ fErrPaths) \X {"deleted"})
    BY <1>1, SortedNamesAll
  <2>2. c \in Seq(F!Created \X {"created"})
    BY <1>1, SortedNamesAll
  <2>3. m \in Seq(F!Modified \X {"modified"})
    BY <1>1, SortedNamesAll
  <2> HIDE DEF d, c, m, T
  <2> QED
    BY <1>1, <1>2, <2>1, <2>2, <2>3
<1>4. \A p \in F!Created : \E i \in DOMAIN c : c[i] = <<p, "created">>
  BY <1>1, SortedNamesAll
<1>5. \A p \in F!Modified : \E i \in DOMAIN m : m[i] = <<p, "modified">>
  BY <1>1, SortedNamesAll
<1> HIDE DEF d, c, m, T
<1>6. \A r, s \in Seq(T) :
        /\ r \o s \in Seq(T)
        /\ \A i \in DOMAIN r :
             i \in DOMAIN (r \o s) /\ (r \o s)[i] = r[i]
        /\ \A i \in DOMAIN s : /\ Len(r) + i \in DOMAIN (r \o s)
                               /\ (r \o s)[Len(r) + i] = s[i]
  OBVIOUS
<1>7. d \o c \in Seq(T) /\ (d \o c) \o m \in Seq(T)
  BY <1>3, <1>6
<1>8. ASSUME NEW p \in F!Created
      PROVE  \E i \in DOMAIN ((d \o c) \o m) :
               ((d \o c) \o m)[i] = <<p, "created">>
  <2>1. PICK i \in DOMAIN c : c[i] = <<p, "created">>
    BY <1>4
  <2>2. /\ Len(d) + i \in DOMAIN (d \o c)
        /\ (d \o c)[Len(d) + i] = <<p, "created">>
    BY <1>3, <1>6, <2>1
  <2>3. /\ Len(d) + i \in DOMAIN ((d \o c) \o m)
        /\ ((d \o c) \o m)[Len(d) + i] = <<p, "created">>
    BY <1>3, <1>6, <1>7, <2>2
  <2> QED
    BY <2>3
<1>9. ASSUME NEW p \in F!Modified
      PROVE  \E i \in DOMAIN ((d \o c) \o m) :
               ((d \o c) \o m)[i] = <<p, "modified">>
  <2>1. PICK i \in DOMAIN m : m[i] = <<p, "modified">>
    BY <1>5
  <2>2. /\ Len(d \o c) + i \in DOMAIN ((d \o c) \o m)
        /\ ((d \o c) \o m)[Len(d \o c) + i] = <<p, "modified">>
    BY <1>3, <1>6, <1>7, <2>1
  <2> QED
    BY <2>2
<1>10. \A p : /\ <<p, "created">>[1] = p /\ <<p, "created">>[2] # "deleted"
              /\ <<p, "modified">>[1] = p /\ <<p, "modified">>[2] # "deleted"
  OBVIOUS
<1> DEFINE evs == (d \o c) \o m
<1>11. \A p \in F!Created \cup F!Modified : \E i \in DOMAIN evs :
         evs[i][1] = p /\ evs[i][2] # "deleted"
  BY <1>8, <1>9, <1>10
<1> QED
  BY <1>7, <1>11 DEF d, c, m, T

LEMMA FilesKeep == FilesInv /\ [F!Next]_fVars => FilesInv'
<1> SUFFICES ASSUME FilesInv, [F!Next]_fVars PROVE FilesInv'
  OBVIOUS
<1> USE CountsAssumption
<1> DEFINE Tasks == [at : {"idle", "rename", "fill", "created", "modified",
                           "deleted"},
                     path : 0..FileCount, file : 0..MaxChanges]
<1>0. /\ F!TypeOK /\ JobsName /\ SeenAreFiles /\ QuietPoller /\ SeenIsTold
      /\ fJob \in [Peers -> Tasks] /\ fChanges \in 0..MaxChanges
      /\ fDisk \in [F!Paths -> 0..fChanges]
      /\ F!Absent = 0 /\ F!Paths = 1..FileCount
      /\ fSnapshot \in [F!Paths -> 0..MaxChanges]
      /\ fScan \in [F!Paths -> 0..MaxChanges]
      /\ fView \in [F!Paths -> -1..MaxChanges] /\ fMissed \subseteq F!Paths
  BY DEF FilesInv, FilesTyped, F!TypeOK, F!Absent, F!Paths
<1>1. ASSUME NEW c \in Peers, NEW at, NEW p \in 0..FileCount,
             NEW file \in 0..MaxChanges, F!GoTo(c, at, p, file),
             \/ at = "idle"
             \/ /\ at \in {"rename", "fill", "created", "modified",
                            "deleted"}
                /\ p \in F!Paths
      PROVE  fJob' \in [Peers -> Tasks] /\ JobsName'
  BY <1>0, <1>1 DEF F!GoTo, JobsName
<1>2. /\ \A p : F!Change(p) /\ p \in F!Paths => TreeMoves(p, fChanges + 1)
      /\ \A p : F!Change(p) => fChanges' = fChanges + 1
                               /\ fChanges' \in 0..MaxChanges
      /\ \A p : F!Remove(p) /\ p \in F!Paths => TreeMoves(p, 0)
  BY <1>0, SMTT(30) DEF F!Change, F!Remove, TreeMoves
<1>3. CASE F!List
  <2>1. /\ fView' = fDisk
        /\ UNCHANGED <<fDisk, fChanges, fJob, fPhase, fSnapshot, fScan,
                       fLooked, fErrPaths, fEvents, fMissed>>
    BY <1>3 DEF F!List, F!poller
  <2>2. fView' \in [F!Paths -> -1..MaxChanges]
    BY <1>0, <2>1
  <2>3. F!TypeOK'
    BY <1>0, <2>1, <2>2 DEF F!TypeOK
  <2>4. JobsName' /\ SeenAreFiles' /\ QuietPoller'
    BY <1>0, <2>1 DEF JobsName, SeenAreFiles, QuietPoller
  <2>5. SeenIsTold'
    BY <2>1 DEF SeenIsTold
  <2> QED
    BY <2>3, <2>4, <2>5 DEF FilesInv, FilesTyped
<1>4. ASSUME NEW p \in F!Paths, F!Edit(p) PROVE FilesInv'
  <2>1. /\ UNCHANGED <<fJob, fPhase, fSnapshot, fScan, fLooked, fErrPaths,
                       fEvents, fView, fMissed>>
        /\ F!Change(p) \/ F!Remove(p)
    BY <1>4 DEF F!Edit, F!poller
  <2>2. \E q, n : TreeMoves(q, n)
    BY <1>2, <2>1
  <2>3. fJob' \in [Peers -> Tasks] /\ JobsName'
    BY <1>0, <2>1 DEF JobsName
  <2> QED
    BY <2>1, <2>2, <2>3, TreeChanges
<1>5. ASSUME NEW c \in Peers, NEW at, NEW p \in F!Paths,
             NEW file \in 0..MaxChanges, F!GoTo(c, at, p, file),
             at \in {"rename", "fill", "created", "modified", "deleted"},
             UNCHANGED <<fPhase, fSnapshot, fScan, fLooked, fErrPaths,
                         fEvents, fView, fMissed>>,
             UNCHANGED <<fDisk, fChanges>> \/ \E q, n : TreeMoves(q, n)
      PROVE  FilesInv'
  <2>0. p \in 0..FileCount
    BY <1>0
  <2>1. fJob' \in [Peers -> Tasks] /\ JobsName'
    BY <1>1, <1>5, <2>0
  <2> QED
    BY <1>5, <2>1, TreeChanges
<1>6. ASSUME NEW c \in Peers, F!handleFileWrite(c) PROVE FilesInv'
  <2>1. PICK p \in F!Paths, base \in 1..fChanges : F!Write(c, p, base)
    BY <1>6 DEF F!handleFileWrite
  <2>2. /\ base \in 0..MaxChanges /\ F!GoTo(c, "rename", p, base)
        /\ UNCHANGED <<fDisk, fChanges, fPhase, fSnapshot, fScan, fLooked,
                       fErrPaths, fEvents, fView, fMissed>>
    BY <1>0, <2>1 DEF F!Write, F!poller
  <2> QED
    BY <1>5, <2>2
<1>7. ASSUME NEW c \in Peers, F!handleFileCreate(c) PROVE FilesInv'
  <2>1. PICK p \in F!Paths : F!Create(c, p)
    BY <1>7 DEF F!handleFileCreate
  <2>2. /\ F!Change(p) /\ F!GoTo(c, "fill", p, fChanges')
        /\ UNCHANGED <<fPhase, fSnapshot, fScan, fLooked, fErrPaths, fEvents,
                       fView, fMissed>>
    BY <2>1 DEF F!Create, F!poller
  <2>3. fChanges' \in 0..MaxChanges /\ \E q, n : TreeMoves(q, n)
    BY <1>2, <2>2
  <2> QED
    BY <1>5, <2>2, <2>3
<1>8. ASSUME NEW c \in Peers, F!handleFileDelete(c) PROVE FilesInv'
  <2>1. PICK p \in F!Paths : F!Delete(c, p)
    BY <1>8 DEF F!handleFileDelete
  <2>2. /\ F!Remove(p) /\ F!GoTo(c, "deleted", p, 0)
        /\ UNCHANGED <<fPhase, fSnapshot, fScan, fLooked, fErrPaths, fEvents,
                       fView, fMissed>>
    BY <2>1 DEF F!Delete, F!poller
  <2>3. 0 \in 0..MaxChanges /\ \E q, n : TreeMoves(q, n)
    BY <1>2, <2>2
  <2> QED
    BY <1>5, <2>2, <2>3
<1>9. ASSUME NEW c \in Peers, F!GoTo(c, "idle", 0, 0),
             UNCHANGED <<fPhase, fSnapshot, fScan, fLooked, fErrPaths,
                         fEvents, fView, fMissed>>,
             UNCHANGED <<fDisk, fChanges>> \/ \E q, n : TreeMoves(q, n)
      PROVE  FilesInv'
  <2>1. fJob' \in [Peers -> Tasks] /\ JobsName'
    BY <1>0, <1>1, <1>9
  <2> QED
    BY <1>9, <2>1, TreeChanges
<1>10. ASSUME NEW c \in Peers, fJob[c].at # "idle"
       PROVE  fJob[c].path \in F!Paths /\ fJob[c].file \in 0..MaxChanges
  BY <1>0, <1>10 DEF JobsName
<1>11. ASSUME NEW c \in Peers, F!atomicWriteFile(c) PROVE FilesInv'
  <2> DEFINE p == fJob[c].path
  <2>1. /\ p \in F!Paths
        /\ UNCHANGED <<fPhase, fSnapshot, fScan, fLooked, fErrPaths, fEvents,
                       fView, fMissed>>
        /\ \/ F!Change(p) /\ F!GoTo(c, "modified", p, fChanges')
           \/ F!GoTo(c, "idle", 0, 0) /\ UNCHANGED <<fDisk, fChanges>>
    BY <1>10, <1>11 DEF F!atomicWriteFile, F!poller
  <2> HIDE DEF p
  <2>2. F!Change(p) => fChanges' \in 0..MaxChanges /\ \E q, n : TreeMoves(q, n)
    BY <1>2, <2>1
  <2>3. CASE F!Change(p) /\ F!GoTo(c, "modified", p, fChanges')
    BY <1>5, <2>1, <2>2, <2>3
  <2>4. CASE F!GoTo(c, "idle", 0, 0) /\ UNCHANGED <<fDisk, fChanges>>
    BY <1>9, <2>1, <2>4
  <2> QED
    BY <2>1, <2>3, <2>4
<1>12. ASSUME NEW c \in Peers, F!Fill(c) PROVE FilesInv'
  <2> DEFINE p == fJob[c].path
  <2>1. /\ p \in F!Paths /\ fJob[c].file \in 0..MaxChanges
        /\ UNCHANGED <<fPhase, fSnapshot, fScan, fLooked, fErrPaths, fEvents,
                       fView, fMissed>>
        /\ \/ F!Change(p) /\ F!GoTo(c, "created", p, fChanges')
           \/ /\ F!GoTo(c, "created", p, fJob[c].file)
              /\ UNCHANGED <<fDisk, fChanges>>
           \/ F!Remove(p) /\ F!GoTo(c, "idle", 0, 0)
           \/ F!GoTo(c, "idle", 0, 0) /\ UNCHANGED <<fDisk, fChanges>>
    BY <1>10, <1>12 DEF F!Fill, F!poller
  <2> HIDE DEF p
  <2>2. /\ F!Change(p) => fChanges' \in 0..MaxChanges
                          /\ \E q, n : TreeMoves(q, n)
        /\ F!Remove(p) => \E q, n : TreeMoves(q, n)
    BY <1>2, <2>1
  <2>3. CASE F!Change(p) /\ F!GoTo(c, "created", p, fChanges')
    BY <1>5, <2>1, <2>2, <2>3
  <2>4. CASE /\ F!GoTo(c, "created", p, fJob[c].file)
             /\ UNCHANGED <<fDisk, fChanges>>
    BY <1>5, <2>1, <2>4
  <2>5. CASE F!Remove(p) /\ F!GoTo(c, "idle", 0, 0)
    BY <1>9, <2>1, <2>2, <2>5
  <2>6. CASE F!GoTo(c, "idle", 0, 0) /\ UNCHANGED <<fDisk, fChanges>>
    BY <1>9, <2>1, <2>6
  <2> QED
    BY <2>1, <2>3, <2>4, <2>5, <2>6
<1>13. ASSUME NEW c \in Peers, F!Announce(c) PROVE FilesInv'
  <2> DEFINE q == fJob[c].path
  <2>1. /\ q \in F!Paths /\ F!Told(q, fJob[c].at) /\ F!GoTo(c, "idle", 0, 0)
        /\ UNCHANGED <<fDisk, fChanges, fPhase, fSnapshot, fScan, fLooked,
                       fErrPaths, fEvents>>
    BY <1>10, <1>13 DEF F!Announce, F!poller
  <2> DEFINE change == fJob[c].at
  <2> HIDE DEF q
  <2>2. /\ fView' \in [F!Paths -> -1..MaxChanges] /\ fMissed' \subseteq F!Paths
        /\ F!Listed' = F!Listed
        /\ \A p \in F!Paths \ {q} :
             fView'[p] = fView[p] /\ (p \in fMissed' <=> p \in fMissed)
        /\ F!Listed /\ fDisk[q] # 0 =>
             q \in fMissed' \/ fView'[q] = fDisk[q]
    <3> HIDE DEF change
    <3>1. F!Told(q, change)
      BY <2>1 DEF change
    <3>2. FilesTyped
      BY DEF FilesInv
    <3> QED
      BY <2>1, <3>1, <3>2, ToldIsKnown
  <2>3. fJob' \in [Peers -> Tasks] /\ JobsName'
    BY <1>1, <2>1
  <2>4. F!TypeOK'
    BY <1>0, <2>1, <2>2, <2>3 DEF F!TypeOK
  <2>5. SeenAreFiles' /\ QuietPoller'
    BY <1>0, <2>1 DEF SeenAreFiles, QuietPoller
  <2>6. SeenIsTold'
    <3>1. \A p : WillTell(p)' <=> WillTell(p)
      BY <2>1 DEF WillTell
    <3>2. \A p \in F!Paths : p # q \/ p = q
      OBVIOUS
    <3> QED
      BY <1>0, <2>1, <2>2, <3>1, <3>2 DEF SeenIsTold
  <2> QED
    BY <2>3, <2>4, <2>5, <2>6 DEF FilesInv, FilesTyped
<1>14. CASE F!Start \/ F!Tick \/ F!Stop
  <2>1. /\ UNCHANGED <<fDisk, fChanges, fJob, fSnapshot, fScan, fLooked,
                       fErrPaths, fEvents, fView, fMissed>>
        /\ fPhase # "send" /\ fPhase' \in {"baseline", "scan", "stopped"}
    BY <1>14 DEF F!Start, F!Tick, F!Stop, F!BeginScan
  <2>2. F!Listed' = F!Listed
    BY <2>1 DEF F!Listed
  <2>3. F!TypeOK' /\ JobsName'
    BY <1>0, <2>1 DEF F!TypeOK, JobsName
  <2>4. SeenAreFiles' /\ QuietPoller'
    BY <1>0, <2>1 DEF SeenAreFiles, QuietPoller
  <2>5. SeenIsTold'
    <3>1. \A p : WillTell(p)' <=> WillTell(p)
      BY <2>1 DEF WillTell
    <3> QED
      BY <1>0, <2>1, <2>2, <3>1 DEF SeenIsTold
  <2> QED
    BY <2>3, <2>4, <2>5 DEF FilesInv, FilesTyped
<1>15. CASE F!Look
  <2>1. /\ UNCHANGED <<fDisk, fChanges, fJob, fPhase, fSnapshot, fEvents,
                       fView, fMissed>>
        /\ fLooked < FileCount /\ fLooked' = fLooked + 1
        /\ \/ /\ fScan' = [fScan EXCEPT ![fLooked + 1] = fDisk[fLooked + 1]]
              /\ UNCHANGED fErrPaths
           \/ fErrPaths' = fErrPaths \cup {fLooked + 1} /\ UNCHANGED fScan
    BY <1>15 DEF F!Look
  <2>2. fLooked \in 0..FileCount /\ fErrPaths \subseteq 1..fLooked
    BY <1>0 DEF F!TypeOK
  <2>3. fLooked' \in 0..FileCount /\ fErrPaths' \subseteq 1..fLooked'
    <3>1. 1..fLooked \cup {fLooked + 1} = 1..fLooked'
      BY <2>1, <2>2
    <3>2. fErrPaths' \subseteq fErrPaths \cup {fLooked + 1}
      BY <2>1
    <3>3. fLooked' \in 0..FileCount
      BY <2>1, <2>2
    <3> QED
      BY <2>2, <3>1, <3>2, <3>3
  <2>4. /\ fScan' \in [F!Paths -> 0..MaxChanges]
        /\ \A p \in F!Paths : fScan'[p] <= fChanges
    <3>1. fDisk[fLooked + 1] \in 0..fChanges
          /\ fDisk[fLooked + 1] \in 0..MaxChanges
      BY <1>0, <2>1, <2>2
    <3>2. \A p \in F!Paths : fScan[p] <= fChanges
      BY <1>0 DEF SeenAreFiles
    <3>3. CASE UNCHANGED fScan
      BY <1>0, <3>2, <3>3
    <3>4. CASE fScan' = [fScan EXCEPT ![fLooked + 1] = fDisk[fLooked + 1]]
      <4> DEFINE k == fLooked + 1
                 n == fDisk[k]
      <4>1. n \in 0..fChanges /\ n \in 0..MaxChanges
        BY <3>1
      <4>2. fScan' = [fScan EXCEPT ![k] = n]
        BY <3>4
      <4> HIDE DEF k, n
      <4>3. fScan \in [F!Paths -> 0..MaxChanges]
        BY <1>0
      <4>4. /\ fScan' \in [F!Paths -> 0..MaxChanges]
            /\ \A p \in F!Paths : fScan'[p] \in {n, fScan[p]}
        BY <4>1, <4>2, <4>3
      <4>5. n <= fChanges
        BY <4>1
      <4> QED
        BY <3>2, <4>4, <4>5
    <3> QED
      BY <2>1, <3>3, <3>4
  <2>5. F!Listed' = F!Listed
    BY <2>1 DEF F!Listed
  <2>6. F!TypeOK' /\ JobsName'
    BY <1>0, <2>1, <2>3, <2>4 DEF F!TypeOK, JobsName
  <2>7. SeenAreFiles' /\ QuietPoller' /\ SeenIsTold'
    BY <1>0, <2>1, <2>4, <2>5
    DEF SeenAreFiles, QuietPoller, SeenIsTold, WillTell
  <2> QED
    BY <2>6, <2>7 DEF FilesInv, FilesTyped
<1>16. CASE F!Baseline
  <2>1. /\ UNCHANGED <<fDisk, fChanges, fJob, fEvents, fView>>
        /\ fPhase # "send" /\ fPhase' = "wait" /\ fSnapshot' = fScan
        /\ fScan' = [p \in F!Paths |-> 0] /\ fLooked' = 0 /\ fErrPaths' = {}
        /\ fMissed' = {p \in F!Paths : F!Listed /\ fView[p] # fScan[p]}
    BY <1>0, <1>16 DEF F!Baseline, F!EndScan
  <2>2. F!Listed' = F!Listed
    BY <2>1 DEF F!Listed
  <2>3. F!TypeOK' /\ JobsName'
    <3>1. /\ fScan' \in [F!Paths -> 0..MaxChanges] /\ fLooked' \in 0..FileCount
          /\ fErrPaths' \subseteq 1..fLooked' /\ fMissed' \subseteq F!Paths
      BY <2>1
    <3> QED
      BY <1>0, <2>1, <3>1 DEF F!TypeOK, JobsName
  <2>4. SeenAreFiles' /\ QuietPoller'
    BY <1>0, <2>1 DEF SeenAreFiles, QuietPoller
  <2>5. SeenIsTold'
    BY <1>0, <2>1, <2>2 DEF SeenIsTold
  <2> QED
    BY <2>3, <2>4, <2>5 DEF FilesInv, FilesTyped
<1>17. CASE F!Diff
  <2>1. /\ UNCHANGED <<fDisk, fChanges, fJob, fView, fMissed>>
        /\ fPhase = "scan" /\ fPhase' = "send" /\ fSnapshot' = fScan
        /\ fScan' = [p \in F!Paths |-> 0] /\ fLooked' = 0 /\ fErrPaths' = {}
    BY <1>0, <1>17 DEF F!Diff, F!EndScan
  <2>2. fEvents = <<>>
    BY <1>0, <2>1 DEF QuietPoller
  <2>3. /\ fEvents' \in Seq(F!Paths \X {"created", "modified", "deleted"})
        /\ \A p \in F!Created \cup F!Modified : \E i \in DOMAIN fEvents' :
             fEvents'[i][1] = p /\ fEvents'[i][2] # "deleted"
    BY <1>0, <1>17, DiffTells DEF F!Diff
  <2>4. F!Listed' = F!Listed
    BY <2>1 DEF F!Listed
  <2>5. F!TypeOK' /\ JobsName'
    <3>1. /\ fScan' \in [F!Paths -> 0..MaxChanges] /\ fLooked' \in 0..FileCount
          /\ fErrPaths' \subseteq 1..fLooked'
      BY <2>1
    <3> QED
      BY <1>0, <2>1, <2>3, <3>1 DEF F!TypeOK, JobsName
  <2>6. SeenAreFiles' /\ QuietPoller'
    BY <1>0, <2>1 DEF SeenAreFiles, QuietPoller
  <2>7. ASSUME NEW p \in F!Paths, F!Listed, fDisk[p] # 0, fScan[p] = fDisk[p]
        PROVE  fView[p] = fDisk[p] \/ p \in fMissed \/ WillTell(p)'
    <3>1. CASE fSnapshot[p] = fScan[p]
      <4>1. ~WillTell(p)
        BY <2>2 DEF WillTell
      <4> QED
        BY <1>0, <2>7, <3>1, <4>1 DEF SeenIsTold
    <3>2. CASE fSnapshot[p] # fScan[p]
      <4>1. p \in F!Created \cup F!Modified
        BY <1>0, <2>7, <3>2 DEF F!Created, F!Modified
      <4> QED
        BY <2>3, <4>1 DEF WillTell
    <3> QED
      BY <3>1, <3>2
  <2>8. SeenIsTold'
    BY <2>1, <2>4, <2>7 DEF SeenIsTold
  <2> QED
    BY <2>5, <2>6, <2>8 DEF FilesInv, FilesTyped
<1>18. CASE F!Send
  <2>0. /\ UNCHANGED <<fDisk, fChanges, fJob, fSnapshot, fScan, fLooked,
                       fErrPaths>>
        /\ fPhase = "send"
        /\ fEvents \in Seq(F!Paths \X {"created", "modified", "deleted"})
    BY <1>0, <1>18 DEF F!Send, F!TypeOK
  <2>1. CASE fEvents = <<>>
    <3>1. fPhase' = "wait" /\ UNCHANGED <<fView, fMissed, fEvents>>
      BY <1>18, <2>1 DEF F!Send
    <3>2. F!Listed' = F!Listed
      BY <3>1 DEF F!Listed
    <3>3. F!TypeOK' /\ JobsName'
      BY <1>0, <2>0, <3>1 DEF F!TypeOK, JobsName
    <3>4. SeenAreFiles' /\ QuietPoller' /\ SeenIsTold'
      BY <1>0, <2>0, <2>1, <3>1, <3>2
      DEF SeenAreFiles, QuietPoller, SeenIsTold, WillTell
    <3> QED
      BY <3>3, <3>4 DEF FilesInv, FilesTyped
  <2>2. CASE fEvents # <<>>
    <3> DEFINE q == Head(fEvents)[1]
               change == Head(fEvents)[2]
    <3>1. /\ F!Told(q, change) /\ fEvents' = Tail(fEvents)
          /\ UNCHANGED fPhase
      BY <1>18, <2>2 DEF F!Send
    <3>2. /\ q \in F!Paths /\ Head(fEvents) = fEvents[1]
          /\ fEvents' \in Seq(F!Paths \X {"created", "modified", "deleted"})
          /\ \A i \in DOMAIN fEvents \ {1} :
               i - 1 \in DOMAIN fEvents' /\ fEvents'[i - 1] = fEvents[i]
      BY <2>0, <2>2, <3>1
    <3>3. \A p \in F!Paths : WillTell(p) =>
            WillTell(p)' \/ (q = p /\ change # "deleted")
      BY <3>2 DEF WillTell
    <3> HIDE DEF q, change
    <3>4. /\ fView' \in [F!Paths -> -1..MaxChanges]
          /\ fMissed' \subseteq F!Paths /\ F!Listed' = F!Listed
          /\ \A p \in F!Paths \ {q} :
               fView'[p] = fView[p] /\ (p \in fMissed' <=> p \in fMissed)
          /\ F!Listed /\ fDisk[q] # 0 =>
               q \in fMissed' \/ fView'[q] = fDisk[q]
      <4>1. FilesTyped
        BY DEF FilesInv
      <4> QED
        BY <3>1, <3>2, <4>1, ToldIsKnown
    <3>5. F!TypeOK' /\ JobsName'
      BY <1>0, <2>0, <3>1, <3>2, <3>4 DEF F!TypeOK, JobsName
    <3>6. SeenAreFiles' /\ QuietPoller'
      BY <1>0, <2>0, <3>1 DEF SeenAreFiles, QuietPoller
    <3>7. SeenIsTold'
      BY <1>0, <2>0, <3>3, <3>4 DEF SeenIsTold
    <3> QED
      BY <3>5, <3>6, <3>7 DEF FilesInv, FilesTyped
  <2> QED
    BY <2>1, <2>2
<1>19. CASE UNCHANGED fVars
  <2>1. F!Listed' = F!Listed
    BY <1>19 DEF F!Listed, fVars
  <2>2. F!TypeOK' /\ JobsName'
    BY <1>0, <1>19 DEF F!TypeOK, JobsName, fVars
  <2>3. SeenAreFiles' /\ QuietPoller' /\ SeenIsTold'
    BY <1>0, <1>19, <2>1
    DEF SeenAreFiles, QuietPoller, SeenIsTold, WillTell, fVars
  <2> QED
    BY <2>2, <2>3 DEF FilesInv, FilesTyped
<1> QED
  BY <1>3, <1>4, <1>6, <1>7, <1>8, <1>11, <1>12, <1>13, <1>14, <1>15, <1>16,
     <1>17, <1>18, <1>19
  DEF F!Next

LEMMA FilesPart ==
  /\ HostInit => F!Init
  /\ [HostNext]_hostVars => [F!Next]_fVars
BY DEF HostInit, HostNext, KeepAwakeStep, InhibitorStep, DevicesStep,
       RepositoryStep, FilesStep, hostVars, fVars

\* A file the poller has seen and has nothing to tell of is known as it is to
\* a client that acts on every event, whatever changed during the scans.
THEOREM SeenFilesAreKnown == HostSpec => []SeenIsKnown
<1>1. HostSpec => []FilesInv
  BY FilesPart, FilesInit, FilesKeep, PTL DEF HostSpec
<1>2. FilesInv => SeenIsKnown
  BY DEF FilesInv, QuietPoller, SeenIsTold, WillTell, SeenIsKnown,
         F!SeenIsKnown, F!Absent
<1> QED
  BY <1>1, <1>2, PTL

-----------------------------------------------------------------------------
(* The types of every part.                                                *)

\* The manager's counts only grow, and it names a process only by its number.
ManagerMoves ==
  /\ Len(iProcs') \in {Len(iProcs), Len(iProcs) + 1}
  /\ iCall'.proc \in {0, iCall.proc, iHandle, Len(iProcs')}
  /\ iClosing'.proc \in {0, iClosing.proc, iHandle}
  /\ iMonitor' \in {iMonitor, iMonitor + 1} /\ iClosed' \in {TRUE, iClosed}
  /\ \/ iWatchers' \subseteq iWatchers
     \/ /\ iCall.at = "adopt"
        /\ iWatchers' = iWatchers \cup
                          {[proc |-> iCall.proc, gen |-> iMonitor']}

LEMMA ManagerStep ==
  ASSUME InhibitorInv, I!Next
  PROVE  ManagerMoves
<1>0. ManagerTyped
  BY DEF InhibitorInv
<1>1. CASE I!Enable \/ I!AcquireFails \/ I!Adopt
  <2>1. Len(iProcs') = Len(iProcs)
    BY <1>1 DEF I!Enable, I!AcquireFails, I!Adopt
  <2>2. iCall'.proc = 0 /\ UNCHANGED <<iClosing, iClosed>>
    BY <1>1 DEF I!Enable, I!AcquireFails, I!Adopt, I!Idle
  <2>3. iMonitor' \in {iMonitor, iMonitor + 1}
    BY <1>1 DEF I!Enable, I!AcquireFails, I!Adopt
  <2>4. \/ UNCHANGED iWatchers
        \/ /\ iCall.at = "adopt"
           /\ iWatchers' = iWatchers \cup
                             {[proc |-> iCall.proc, gen |-> iMonitor']}
    BY <1>1 DEF I!Enable, I!AcquireFails, I!Adopt
  <2> QED
    BY <2>1, <2>2, <2>3, <2>4 DEF ManagerMoves
<1>2. CASE I!Acquire
  <2>1. Len(iProcs') = Len(iProcs) + 1
    BY <1>0, <1>2 DEF I!Acquire, ManagerTyped, Processes
  <2>2. /\ iCall'.proc = Len(iProcs')
        /\ UNCHANGED <<iClosing, iMonitor, iClosed, iWatchers>>
    BY <1>2 DEF I!Acquire
  <2> QED
    BY <2>1, <2>2 DEF ManagerMoves
<1>3. \A p : Len([iProcs EXCEPT ![p].running = FALSE]) = Len(iProcs)
             /\ Len([iProcs EXCEPT ![p].term = TRUE]) = Len(iProcs)
  BY <1>0 DEF ManagerTyped, Processes
<1>4. CASE I!Surrender \/ I!Surrendered \/ I!Released \/ I!CloseReleased
           \/ I!CloseTimesOut
  <2>1. Len(iProcs') = Len(iProcs)
    BY <1>3, <1>4
    DEF I!Surrender, I!Surrendered, I!Released, I!CloseReleased,
        I!CloseTimesOut
  <2>2. iCall'.proc \in {0, iCall.proc} /\ iClosing'.proc = iClosing.proc
    BY <1>0, <1>4
    DEF I!Surrender, I!Surrendered, I!Released, I!CloseReleased,
        I!CloseTimesOut, I!Idle, ManagerTyped
  <2>3. UNCHANGED <<iMonitor, iClosed, iWatchers>>
    BY <1>4
    DEF I!Surrender, I!Surrendered, I!Released, I!CloseReleased,
        I!CloseTimesOut
  <2> QED
    BY <2>1, <2>2, <2>3 DEF ManagerMoves
<1>5. CASE I!Disable \/ I!Close
  <2>1. Len(iProcs') = Len(iProcs)
    BY <1>3, <1>5 DEF I!Disable, I!Close, I!LetGo
  <2>2. /\ iCall'.proc \in {0, iCall.proc, iHandle}
        /\ iClosing'.proc \in {0, iClosing.proc, iHandle}
    BY <1>5 DEF I!Disable, I!Close, I!Idle
  <2>3. /\ iMonitor' = iMonitor + 1 /\ iClosed' \in {TRUE, iClosed}
        /\ UNCHANGED iWatchers
    BY <1>5 DEF I!Disable, I!Close, I!LetGo
  <2> QED
    BY <2>1, <2>2, <2>3 DEF ManagerMoves
<1>6. ASSUME NEW p \in DOMAIN iProcs, I!Exit(p) PROVE ManagerMoves
  BY <1>3, <1>6 DEF I!Exit, ManagerMoves
<1>7. ASSUME NEW w \in iWatchers, I!WatchHandle(w) PROVE ManagerMoves
  BY <1>7 DEF I!WatchHandle, ManagerMoves
<1> QED
  BY <1>1, <1>2, <1>4, <1>5, <1>6, <1>7 DEF I!Next

LEMMA InhibitorTyped ==
  /\ I!Init => I!TypeOK
  /\ I!TypeOK /\ InhibitorInv /\ InhibitorInv' /\ [I!Next]_iVars => I!TypeOK'
<1>1. I!Init => I!TypeOK
  <2>1. <<>> \in Seq([running : BOOLEAN, term : BOOLEAN]) /\ Len(<<>>) = 0
    OBVIOUS
  <2> SUFFICES ASSUME I!Init PROVE I!TypeOK
    OBVIOUS
  <2>2. /\ iStatus = [state |-> "OFF", desired |-> FALSE]
        /\ iHandle = 0 /\ iMonitor = 0 /\ iClosed = FALSE
        /\ iProcs = <<>> /\ iWatchers = {}
        /\ iCall = [at |-> "idle", proc |-> 0]
        /\ iClosing = [at |-> "idle", proc |-> 0]
    BY DEF I!Init, I!Idle
  <2>3. 0 \in Nat /\ 0 \in 0..0
    OBVIOUS
  <2> QED
    BY <2>1, <2>2, <2>3 DEF I!TypeOK
<1>2. ASSUME I!TypeOK, InhibitorInv, InhibitorInv', I!Next PROVE I!TypeOK'
  <2>0. /\ ManagerMoves /\ iMonitor \in Nat /\ iClosed \in BOOLEAN
        /\ Len(iProcs) \in Nat /\ DOMAIN iProcs = 1..Len(iProcs)
        /\ iHandle \in 0..Len(iProcs) /\ iCall.proc \in 0..Len(iProcs)
        /\ iClosing.proc \in 0..Len(iProcs)
        /\ iWatchers \subseteq [proc : DOMAIN iProcs, gen : 0..iMonitor]
        /\ iCall.at = "adopt" => iCall.proc \in DOMAIN iProcs
    BY <1>2, ManagerStep DEF InhibitorInv, ManagerTyped, I!TypeOK
  <2>1. /\ iStatus' \in [state : {"OFF", "PENDING", "ON", "DEGRADED"},
                         desired : BOOLEAN]
        /\ iProcs' \in Seq([running : BOOLEAN, term : BOOLEAN])
        /\ iHandle' \in {0} \cup DOMAIN iProcs'
        /\ iCall' \in [at : {"idle", "acquire", "adopt", "surrender",
                             "release"}, proc : Nat]
        /\ iClosing' \in [at : {"idle", "release", "done"}, proc : Nat]
    BY <1>2 DEF InhibitorInv, ManagerTyped, Processes, Process
  <2>2. /\ Len(iProcs') \in Nat /\ DOMAIN iProcs' = 1..Len(iProcs')
        /\ Len(iProcs) <= Len(iProcs')
    BY <2>0, <2>1 DEF ManagerMoves
  <2>3. /\ iMonitor' \in Nat /\ iMonitor <= iMonitor' /\ iClosed' \in BOOLEAN
    <3>1. /\ iMonitor' \in {iMonitor, iMonitor + 1}
          /\ iClosed' \in {TRUE, iClosed}
      BY <2>0 DEF ManagerMoves
    <3>2. iMonitor' \in Nat /\ iMonitor <= iMonitor'
      BY <2>0, <3>1
    <3> QED
      BY <2>0, <3>1, <3>2
  <2>4. iCall'.proc \in 0..Len(iProcs') /\ iClosing'.proc \in 0..Len(iProcs')
    <3>1. /\ iCall'.proc \in {0, iCall.proc, iHandle, Len(iProcs')}
          /\ iClosing'.proc \in {0, iClosing.proc, iHandle}
      BY <2>0 DEF ManagerMoves
    <3>2. \A n \in 0..Len(iProcs) : n \in 0..Len(iProcs')
      BY <2>0, <2>2
    <3>3. 0 \in 0..Len(iProcs') /\ Len(iProcs') \in 0..Len(iProcs')
      BY <2>2
    <3> QED
      BY <2>0, <3>1, <3>2, <3>3
  <2>5. iWatchers' \subseteq [proc : DOMAIN iProcs', gen : 0..iMonitor']
    <3>1. [proc : DOMAIN iProcs, gen : 0..iMonitor]
            \subseteq [proc : DOMAIN iProcs', gen : 0..iMonitor']
      BY <2>0, <2>2, <2>3
    <3>2. iCall.at = "adopt" =>
            [proc |-> iCall.proc, gen |-> iMonitor']
              \in [proc : DOMAIN iProcs', gen : 0..iMonitor']
      BY <2>0, <2>2, <2>3
    <3> QED
      BY <2>0, <3>1, <3>2 DEF ManagerMoves
  <2>6. iHandle' \in 0..Len(iProcs')
    BY <2>1, <2>2
  <2> QED
    BY <2>1, <2>3, <2>4, <2>5, <2>6 DEF I!TypeOK
<1>3. ASSUME I!TypeOK, UNCHANGED iVars PROVE I!TypeOK'
  BY <1>3 DEF I!TypeOK, iVars
<1> QED
  BY <1>1, <1>2, <1>3

\* What is being revoked is a device, and handlers run for it.
Revoking ==
  /\ dStored \subseteq D!Ids /\ dSwept \subseteq D!Ids
  /\ dDirect \subseteq D!Ids
  /\ dCode \in [n : 0..MaxCodes, expires : 0..MaxSeconds + Expiry,
                used : BOOLEAN]
  /\ dConn \in [Peers -> [at : {"none", "validated", "open", "closed"},
                          dev : 0..MaxCodes, late : BOOLEAN]]
  /\ dCli \in [dev : 0..MaxCodes, i : 0..Candidates + 1]
  /\ dHandler \in [1..Candidates ->
                    {"idle", "lookup", "close", "delete", "ok", "failed"}]
  /\ dCli.i # 0 => dCli.dev # 0
  /\ \A i \in 1..Candidates :
       dHandler[i] \in {"lookup", "close", "delete"} => dCli.dev # 0

LEMMA RevokingInit == D!Init => Revoking
<1> SUFFICES ASSUME D!Init PROVE Revoking
  OBVIOUS
<1>1. /\ dCode = [n |-> 0, expires |-> 0, used |-> FALSE]
      /\ dStored = {} /\ dSwept = {} /\ dDirect = {}
      /\ dCli = [dev |-> 0, i |-> 0]
      /\ dConn = [c \in Peers |-> [at |-> "none", dev |-> 0, late |-> FALSE]]
      /\ dHandler = [i \in 1..Candidates |-> "idle"]
  BY DEF D!Init, D!NoCli, D!NoConn
<1>2. 0 \in 0..MaxCodes /\ 0 \in 0..MaxSeconds + Expiry
      /\ 0 \in 0..Candidates + 1
  BY CountsAssumption
<1> QED
  BY <1>1, <1>2 DEF Revoking

LEMMA RevokingKeeps ==
  Revoking /\ AttemptsTyped /\ [D!Next]_dVars => Revoking'
<1> SUFFICES ASSUME Revoking, AttemptsTyped, [D!Next]_dVars PROVE Revoking'
  OBVIOUS
<1> USE CountsAssumption DEF Revoking
<1> DEFINE Kept == UNCHANGED <<dCode, dStored, dConn, dCli, dHandler, dSwept,
                               dDirect>>
           Conn == [at : {"none", "validated", "open", "closed"},
                    dev : 0..MaxCodes, late : BOOLEAN]
<1>0. /\ dCli.dev \in 0..MaxCodes /\ dCli.i \in 0..Candidates + 1
      /\ dNow \in 0..MaxSeconds /\ dCode.n \in 0..MaxCodes
      /\ D!Ids = 1..MaxCodes /\ 0 \in 0..Candidates + 1
      /\ dCli.dev # 0 => dCli.dev \in D!Ids
  BY DEF AttemptsTyped, D!Ids
<1>1. CASE D!Tick \/ D!Limited \/ UNCHANGED dVars
  BY <1>1 DEF D!Tick, D!Limited, D!pairing, D!revoking, dVars
<1>2. CASE D!GenerateCode
  <2>1. dCode.n + 1 \in 0..MaxCodes /\ dNow + Expiry \in 0..MaxSeconds + Expiry
    BY <1>0, <1>2 DEF D!GenerateCode
  <2>2. dCode' \in [n : 0..MaxCodes, expires : 0..MaxSeconds + Expiry,
                    used : BOOLEAN]
    BY <1>2, <2>1 DEF D!GenerateCode
  <2>3. UNCHANGED <<dStored, dConn, dCli, dHandler, dSwept, dDirect>>
    BY <1>2 DEF D!GenerateCode, D!revoking
  <2> QED
    BY <2>2, <2>3
<1>3. ASSUME NEW right \in BOOLEAN, NEW saved \in BOOLEAN,
             D!ValidateCode(right, saved)
      PROVE  Revoking'
  <2>1. UNCHANGED <<dConn, dCli, dHandler, dSwept, dDirect>>
    BY <1>3 DEF D!ValidateCode, D!revoking
  <2>2. CASE D!Redeemable(right)
    <3>1. /\ dCode' = [dCode EXCEPT !.used = TRUE]
          /\ dStored' \subseteq dStored \cup {dCode.n} /\ dCode.n # 0
      BY <1>3, <2>2 DEF D!ValidateCode, D!SaveDevice, D!Redeemable
    <3>2. dStored' \subseteq D!Ids
      BY <1>0, <3>1
    <3>3. dCode' \in [n : 0..MaxCodes, expires : 0..MaxSeconds + Expiry,
                      used : BOOLEAN]
      BY <3>1
    <3> QED
      BY <2>1, <3>2, <3>3
  <2>3. CASE ~D!Redeemable(right)
    <3>1. UNCHANGED <<dCode, dStored>>
      BY <1>3, <2>3 DEF D!ValidateCode
    <3> QED
      BY <2>1, <3>1
  <2> QED
    BY <2>2, <2>3
<1>4. ASSUME NEW c \in Peers, NEW x \in Conn, dConn' = [dConn EXCEPT ![c] = x],
             UNCHANGED <<dCode, dStored, dCli, dHandler, dSwept, dDirect>>
      PROVE  Revoking'
  BY <1>4
<1>5. ASSUME NEW c \in Peers, NEW d \in D!Ids, D!ValidateToken(c, d)
      PROVE  Revoking'
  <2> DEFINE x == [D!NoConn EXCEPT !.at = "validated", !.dev = d]
  <2>1. x \in Conn
    <3>1. D!NoConn \in Conn /\ d \in 0..MaxCodes
      BY <1>0 DEF D!NoConn
    <3>2. \A y \in Conn : [y EXCEPT !.at = "validated", !.dev = d] \in Conn
      BY <3>1
    <3> QED
      BY <3>1, <3>2
  <2>2. /\ dConn' = [dConn EXCEPT ![c] = x]
        /\ UNCHANGED <<dCode, dStored, dCli, dHandler, dSwept, dDirect>>
    BY <1>5 DEF D!ValidateToken, D!pairing, D!revoking
  <2> HIDE DEF x, Conn, Revoking
  <2> QED
    BY <1>4, <2>1, <2>2
<1>6. ASSUME NEW c \in Peers, D!Register(c) PROVE Revoking'
  <2> DEFINE x == [dConn[c] EXCEPT !.at = "open",
                                   !.late = dConn[c].dev \in dSwept]
  <2>1. x \in Conn
    <3>1. dConn[c] \in Conn /\ (dConn[c].dev \in dSwept) \in BOOLEAN
      OBVIOUS
    <3> QED
      BY <3>1
  <2>2. /\ dConn' = [dConn EXCEPT ![c] = x]
        /\ UNCHANGED <<dCode, dStored, dCli, dHandler, dSwept, dDirect>>
    BY <1>6 DEF D!Register, D!pairing, D!revoking
  <2> HIDE DEF x, Conn, Revoking
  <2> QED
    BY <1>4, <2>1, <2>2
<1>7. ASSUME NEW c \in Peers, D!HangUp(c) PROVE Revoking'
  <2>1. D!NoConn \in Conn
    BY DEF D!NoConn
  <2>2. /\ dConn' = [dConn EXCEPT ![c] = D!NoConn]
        /\ UNCHANGED <<dCode, dStored, dCli, dHandler, dSwept, dDirect>>
    BY <1>7 DEF D!HangUp, D!pairing, D!revoking
  <2> HIDE DEF Conn, Revoking
  <2> QED
    BY <1>4, <2>1, <2>2
<1>8. ASSUME NEW i \in 1..Candidates, NEW to \in {"close", "delete", "ok",
                                                 "failed"},
             dHandler' = [dHandler EXCEPT ![i] = to],
             dHandler[i] \in {"lookup", "close", "delete"}
      PROVE  /\ dCli.dev \in D!Ids
             /\ dHandler' \in [1..Candidates -> {"idle", "lookup", "close",
                                                 "delete", "ok", "failed"}]
             /\ \A j \in 1..Candidates :
                  dHandler'[j] \in {"lookup", "close", "delete"} =>
                    dCli.dev # 0
  BY <1>0, <1>8
<1>9. ASSUME NEW i \in 1..Candidates, D!Lookup(i) PROVE Revoking'
  <2>1. /\ \E to \in {"close", "failed"} :
             dHandler' = [dHandler EXCEPT ![i] = to]
        /\ dHandler[i] = "lookup"
        /\ UNCHANGED <<dCode, dStored, dConn, dCli, dSwept, dDirect>>
    BY <1>9 DEF D!Lookup, D!At, D!pairing
  <2> QED
    BY <1>8, <2>1
<1>10. ASSUME NEW i \in 1..Candidates, D!Close(i) PROVE Revoking'
  <2>1. /\ dHandler' = [dHandler EXCEPT ![i] = "delete"]
        /\ dHandler[i] = "close" /\ dSwept' = dSwept \cup {dCli.dev}
        /\ UNCHANGED <<dCode, dStored, dCli, dDirect>>
        /\ dConn' = [c \in Peers |-> IF c \in D!OpenConns(dCli.dev)
                                     THEN [dConn[c] EXCEPT !.at = "closed"]
                                     ELSE dConn[c]]
    BY <1>10 DEF D!Close, D!At, D!pairing, D!CloseConns
  <2>2. dConn' \in [Peers -> Conn]
    <3>1. ASSUME NEW c \in Peers
          PROVE  /\ dConn[c] \in Conn
                 /\ [dConn[c] EXCEPT !.at = "closed"] \in Conn
      <4>1. dConn[c] \in Conn
        OBVIOUS
      <4> QED
        BY <4>1
    <3> HIDE DEF Conn
    <3> QED
      BY <2>1, <3>1
  <2> QED
    BY <1>8, <2>1, <2>2
<1>11. ASSUME NEW i \in 1..Candidates, D!Delete(i) PROVE Revoking'
  <2>1. /\ \E to \in {"ok", "failed"} :
             dHandler' = [dHandler EXCEPT ![i] = to]
        /\ dHandler[i] = "delete" /\ dStored' \subseteq dStored
        /\ UNCHANGED <<dCode, dConn, dCli, dSwept, dDirect>>
    BY <1>11 DEF D!Delete, D!At, D!DeleteDevice, D!pairing
  <2> QED
    BY <1>8, <2>1
<1>12. ASSUME NEW d \in D!Ids, D!Revoke(d) PROVE Revoking'
  <2>1. /\ dCli' = [dev |-> d, i |-> 1]
        /\ UNCHANGED <<dCode, dStored, dConn, dSwept, dDirect>>
        /\ \/ UNCHANGED dHandler
           \/ dHandler' = [dHandler EXCEPT ![1] = "lookup"]
    BY <1>12 DEF D!Revoke, D!Ask, D!pairing
  <2>2. d \in 0..MaxCodes /\ d # 0 /\ 1 \in 0..Candidates + 1
    BY <1>0
  <2>3. dCli' \in [dev : 0..MaxCodes, i : 0..Candidates + 1]
        /\ dCli'.dev # 0
    BY <2>1, <2>2
  <2> QED
    BY <2>1, <2>3
<1>13. CASE D!AskNext
  <2>1. /\ dCli' = [dCli EXCEPT !.i = @ + 1] /\ dCli.i \in 1..Candidates
        /\ UNCHANGED <<dCode, dStored, dConn, dSwept, dDirect>>
        /\ \/ UNCHANGED dHandler
           \/ dHandler' = [dHandler EXCEPT ![dCli.i + 1] = "lookup"]
    BY <1>13 DEF D!AskNext, D!Ask, D!pairing
  <2>2. dCli.i + 1 \in 0..Candidates + 1 /\ dCli.dev # 0
    BY <2>1
  <2>3. dCli' \in [dev : 0..MaxCodes, i : 0..Candidates + 1]
        /\ dCli'.dev = dCli.dev
    BY <2>1, <2>2
  <2>4. dHandler' \in [1..Candidates -> {"idle", "lookup", "close", "delete",
                                         "ok", "failed"}]
    BY <2>1
  <2> QED
    BY <2>1, <2>2, <2>3, <2>4
<1>14. CASE D!Answered
  <2>1. /\ dCli' = [dCli EXCEPT !.i = 0]
        /\ UNCHANGED <<dCode, dStored, dConn, dHandler, dSwept, dDirect>>
    BY <1>14 DEF D!Answered, D!pairing
  <2>2. dCli' \in [dev : 0..MaxCodes, i : 0..Candidates + 1]
        /\ dCli'.dev = dCli.dev /\ dCli'.i = 0
    BY <1>0, <2>1
  <2> QED
    BY <2>1, <2>2
<1>15. CASE D!DeleteDirectly
  <2>1. /\ dCli' = [dCli EXCEPT !.i = 0] /\ dCli.i = Candidates + 1
        /\ dStored' \subseteq dStored
        /\ dDirect' \subseteq dDirect \cup {dCli.dev}
        /\ UNCHANGED <<dCode, dConn, dHandler, dSwept>>
    BY <1>15 DEF D!DeleteDirectly, D!DeleteDevice, D!pairing
  <2>2. dCli.dev \in D!Ids
    BY <1>0, <2>1
  <2>3. dCli' \in [dev : 0..MaxCodes, i : 0..Candidates + 1]
        /\ dCli'.dev = dCli.dev /\ dCli'.i = 0
    BY <1>0, <2>1
  <2>4. dStored' \subseteq D!Ids /\ dDirect' \subseteq D!Ids
    BY <2>1, <2>2
  <2> QED
    BY <2>1, <2>3, <2>4
<1>16. CASE D!EndCommand
  <2>1. /\ dCli' = [dev |-> 0, i |-> 0] /\ dSwept' \subseteq dSwept
        /\ dHandler' = [i \in 1..Candidates |-> "idle"]
        /\ UNCHANGED <<dCode, dStored, dConn, dDirect>>
    BY <1>16 DEF D!EndCommand, D!NoCli, D!pairing
  <2>2. dCli' \in [dev : 0..MaxCodes, i : 0..Candidates + 1]
    BY <2>1
  <2> QED
    BY <2>1, <2>2
<1> QED
  BY <1>1, <1>2, <1>3, <1>5, <1>6, <1>7, <1>9, <1>10, <1>11, <1>12, <1>13,
     <1>14, <1>15, <1>16
  DEF D!Next

LEMMA DevicesTypes == Revoking /\ AttemptsTyped => D!TypeOK
BY DEF Revoking, AttemptsTyped, D!TypeOK

LEMMA RepositoryTypes ==
  RepoTyped /\ StepsTyped /\ MemoryInv => R!TypeOK
<1> SUFFICES ASSUME RepoTyped, StepsTyped, MemoryInv PROVE R!TypeOK
  OBVIOUS
<1>1. Commits \subseteq R!Commits
  BY RepositoryAssumption DEF RepoTyped, Commits, R!Commits, IsHistory
<1>2. \A c \in Peers : IsCache(rCache[c])
  BY DEF MemoryInv, MemoryOf
<1>3. /\ \A c \in Peers : Len(rCache[c]) <= CacheSize
      /\ \A i, j \in 1..CacheSize : \A c \in Peers :
           {i, j} \subseteq DOMAIN rCache[c]
             /\ rCache[c][i].key = rCache[c][j].key => i = j
  BY <1>2 DEF IsCache
<1>4. \A c \in Peers : rJob[c].step \in {"idle", "gate", "work", "act"}
  BY DEF StepsTyped, Doing
<1> QED
  BY <1>1, <1>3, <1>4
  DEF RepoTyped, StepsTyped, IsHistory, Heads, R!TypeOK

LEMMA KeepAwakePart ==
  /\ HostInit => Init
  /\ [HostNext]_hostVars => [Next]_vars
BY DEF HostInit, HostNext, KeepAwakeStep, InhibitorStep, DevicesStep,
       RepositoryStep, FilesStep, hostVars

\* Every variable of every part keeps its type; among others a cache of
\* results holds at most its limit and no key twice.
THEOREM TypesOfServices == HostSpec => []PartTypesOK
<1>1. HostSpec => []TypeOK
  <2>1. HostSpec => Spec
    BY KeepAwakePart, PTL DEF HostSpec, Spec
  <2> QED
    BY <2>1, TypeInvariant, PTL
<1>2. HostSpec => []I!TypeOK
  <2>1. HostSpec => []InhibitorInv
    BY InhibitorPart, InhibitorInit, InhibitorKeeps, PTL DEF HostSpec
  <2> QED
    BY <2>1, InhibitorPart, InhibitorTyped, PTL DEF HostSpec
<1>3. HostSpec => []D!TypeOK
  <2>1. AttemptsInv => AttemptsTyped
    BY DEF AttemptsInv
  <2>2. HostSpec => []AttemptsTyped
    BY <2>1, AttemptsPart, PTL DEF HostSpec
  <2>3. HostSpec => []Revoking
    BY <2>2, DevicesPart, RevokingInit, RevokingKeeps, PTL DEF HostSpec
  <2> QED
    BY <2>2, <2>3, DevicesTypes, PTL
<1>4. HostSpec => []R!TypeOK
  <2>1. HostSpec => []MemoryInv
    BY RepositoryPart, MemoryInit, MemoryKeeps, PTL DEF HostSpec
  <2>2. MemoryInv => Jobs
    BY DEF MemoryInv
  <2>3. HostSpec => []PageInv
    BY <2>1, <2>2, RepositoryPart, PageInit, PageKeeps, PTL DEF HostSpec
  <2>4. PageInv => RepoTyped /\ StepsTyped
    BY DEF PageInv
  <2> QED
    BY <2>1, <2>3, <2>4, RepositoryTypes, PTL
<1>5. HostSpec => []F!TypeOK
  <2>1. FilesInv => F!TypeOK
    BY DEF FilesInv, FilesTyped
  <2> QED
    BY <2>1, FilesPart, FilesInit, FilesKeep, PTL DEF HostSpec
<1>6. TypeOK /\ I!TypeOK /\ D!TypeOK /\ R!TypeOK /\ F!TypeOK => PartTypesOK
  BY DEF PartTypesOK
<1> QED
  BY <1>1, <1>2, <1>3, <1>4, <1>5, <1>6, PTL
===============================================================================
